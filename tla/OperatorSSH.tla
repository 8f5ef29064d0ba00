----------------------------- MODULE OperatorSSH -----------------------------
(***************************************************************************)
(* The command an operator sends over SSH: how SSH_ORIGINAL_COMMAND becomes *)
(* arguments, and which arguments the forced command accepts.               *)
(***************************************************************************)
EXTENDS Naturals, SequencesExt

-----------------------------------------------------------------------------
(* Splitting.  Characters are strings of one character, words sequences.    *)
Outside == "unquoted"
Splitting == [args |-> <<>>, word |-> <<>>, started |-> FALSE, quote |-> Outside, escaped |-> FALSE]
FlushWord(s) == [s EXCEPT !.args = Append(@, s.word), !.word = <<>>, !.started = FALSE]
WriteChar(s, char) == [s EXCEPT !.word = Append(@, char), !.started = TRUE, !.escaped = FALSE]

FlushUnlessEmpty(s) == IF s.word # <<>> THEN FlushWord(s) ELSE s
FlushIfStarted(s) == IF s.started THEN FlushWord(s) ELSE s
Split1(s, char) ==
  CASE s.escaped -> WriteChar(s, char)
    [] ~s.escaped /\ s.quote = Outside ->
         CASE char = "\\" -> [s EXCEPT !.escaped = TRUE, !.started = TRUE]
           [] char \in {"'", "\""} -> [s EXCEPT !.quote = char, !.started = TRUE]
           [] char = " " -> FlushIfStarted(s)
           [] OTHER -> WriteChar(s, char)
    [] ~s.escaped /\ s.quote # Outside ->
         IF char = s.quote THEN [s EXCEPT !.quote = Outside]
         ELSE IF char = "\\" /\ s.quote = "\"" THEN [s EXCEPT !.escaped = TRUE] ELSE WriteChar(s, char)

Unparsable == <<"unparsable">>
SplitCommand(command) ==
  LET s == FoldLeft(Split1, Splitting, command) IN
  IF s.escaped \/ s.quote # Outside THEN Unparsable ELSE FlushIfStarted(s).args

-----------------------------------------------------------------------------
(* A trailing --json, and the commands that take one.                       *)
IsOption(arg) == arg \in {"--json", "-f", "--follow", "--force", "--", "-h", "--help", "-x"}
IsCommand(args, words) == Len(args) >= Len(words) /\ \A i \in 1 .. Len(words) : args[i] \in words[i]
IsContainerCommand(args) == IsCommand(args, <<{"apps"}, {"exec", "run"}>>) /\ Len(args) >= 5 /\ args[5] = "--"

JSONAllowed(args) ==
  /\ \A i \in 3 .. Len(args) : ~IsOption(args[i])
  /\ \/ Len(args) = 1 /\ args[1] \in {"diagnostics", "check"}
     \/ Len(args) = 2 /\ args[1] = "check" /\ ~IsOption(args[2])
     \/ Len(args) = 2 /\ IsCommand(args, <<{"apps"}, {"list"}>>)
     \/ Len(args) = 3 /\ IsCommand(args, <<{"apps"}, {"info", "health", "check"}>>)
     \/ Len(args) = 3 /\ IsCommand(args, <<{"releases", "events", "deployments", "domains"}, {"list"}>>)
     \/ Len(args) = 3 /\ IsCommand(args, <<{"domains"}, {"check"}>>)
     \/ Len(args) = 4 /\ IsCommand(args, <<{"deployments"}, {"info"}>>)

ParseOutputArgs(args) ==
  LET limit == IF IsContainerCommand(args) THEN 4 ELSE Len(args)
      at == {i \in 1 .. limit : args[i] = "--json"} IN
  IF at = {} THEN [ok |-> TRUE, args |-> args, json |-> FALSE]
  ELSE [ok |-> at = {Len(args)} /\ JSONAllowed(Front(args)), args |-> Front(args), json |-> TRUE]

-----------------------------------------------------------------------------
(* The commands of the forced command. *)
Topics == {"apps", "config", "domains", "deployments", "events", "logs", "releases", "version"}
Follows(arg) == arg \in {"-f", "--follow"}
AppCommandAllowed(args) ==
  IF Len(args) >= 5 /\ args[1] \in {"exec", "run"} THEN args[4] = "--"
  ELSE \/ Len(args) = 1 /\ args[1] = "list"
       \/ Len(args) = 2 /\ args[1] \in {"info", "health", "check", "start", "stop", "restart", "redeploy"}
       \/ Len(args) = 3 /\ (args[1] = "restart" \/ (args[1] = "remove" /\ args[3] = "--force"))
DeploymentCommandAllowed(args) ==
  \/ Len(args) = 3 /\ args[1] = "info"
  \/ Len(args) = 2 /\ args[1] \in {"list", "logs"}
  \/ Len(args) = 3 /\ args[1] = "logs" /\ (Follows(args[3]) \/ ~IsOption(args[3]))
  \/ Len(args) = 4 /\ args[1] = "logs" /\ ~IsOption(args[3]) /\ Follows(args[4])
CommandAllowed(topic, args) ==
  CASE topic = "apps" -> AppCommandAllowed(args)
    [] topic = "deployments" -> DeploymentCommandAllowed(args)
    [] topic = "config" -> \/ Len(args) = 2 /\ args[1] \in {"import", "list", "keys"}
                           \/ Len(args) = 3 /\ args[1] \in {"set", "get", "unset"}
    [] topic = "domains" -> Len(args) = 2 /\ args[1] \in {"list", "check"}
    [] topic \in {"events", "releases"} -> Len(args) = 2 /\ args[1] = "list"
    [] topic = "logs" -> Len(args) >= 1
    [] topic = "version" -> args = <<>>
    [] OTHER -> FALSE

OperatorCommandAllowed(given) ==
  LET parsed == ParseOutputArgs(given)
      args == parsed.args IN
  /\ parsed.ok /\ args # <<>>
  /\ IF Len(args) = 1 THEN args[1] \in {"help", "-h", "--help", "version"}
     ELSE IF args[1] = "help" THEN Len(args) = 2 /\ args[2] \in Topics
     ELSE IF Len(args) = 2 /\ args[2] \in {"-h", "--help"} THEN args[1] \in Topics
     ELSE CommandAllowed(args[1], Tail(args))
=============================================================================
