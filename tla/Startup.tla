------------------------------- MODULE Startup -------------------------------
(***************************************************************************)
(* main (src/src/main.cpp) and the part of ToxClient's constructor that    *)
(* makes the first state: the command line is parsed, and the program ends *)
(* or becomes a sender or a receiver.                                      *)
(***************************************************************************)
EXTENDS CommandLine, SharedFile

CONSTANTS
    Ids,     \* words that hex2bin turns into the 20 bytes of a hash
    ChatIds  \* words that it turns into the 32 bytes of a chat id

VARIABLE program  \* "starting", "running", "exited"; "threw", "crashed", "asserted"

vars == <<parser, sharing, program>>

Init == ParserInit /\ FileInit /\ program = "starting"

\* The string after option o, empty by default.
Given(o) == IF <<o, 1>> \in DOMAIN settings THEN settings[<<o, 1>>] ELSE ""

End(how) == program' = how /\ UNCHANGED <<parser, sharing>>

ParseArguments ==
    /\ program = "starting"
    /\ Parse
    /\ UNCHANGED <<sharing, program>>

\* "if (cl._should_exit) return 0", and a command line that has ended the program.
EndAtParser ==
    /\ program = "starting"
    /\ \/ parsing = "done" /\ shouldExit /\ End("exited")
       \/ parsing \in {"threw", "crashed"} /\ End(parsing)

Launched == program = "starting" /\ parsing = "done" /\ ~shouldExit

\* The chat id is looked at after the state has been made.
ChatIdOK == Given("-G") = "" \/ Given("-G") \in ChatIds

\* The state factory, for a sender.  What is at the path may not be a file that can
\* be mapped.
LaunchSender ==
    /\ Launched /\ Given("-f") # ""
    /\ \/ End("asserted")
       \/ /\ ChatIdOK
          /\ \E name \in Names, f \in Contents : SendStart(name, f)
          /\ program' = "running"
          /\ UNCHANGED parser

\* The state factory, for a receiver: what to receive must be given, and be an id.
\* By the time of nextState the info has been received.
LaunchReceiver ==
    /\ Launched /\ Given("-f") = ""
    /\ \/ Given("-D") = "" /\ End("threw")
       \/ /\ Given("-D") # ""
          /\ Given("-D") \notin Ids \/ ~ChatIdOK
          /\ End("asserted")
       \/ /\ Given("-D") \in Ids /\ ChatIdOK
          /\ \E name \in Names, f \in Contents, existed \in BOOLEAN, left \in Contents :
                Open(name, f, existed, left)
          /\ program' = "running"
          /\ UNCHANGED parser

Run ==
    /\ program = "running"
    /\ Share
    /\ UNCHANGED <<parser, program>>

Next == ParseArguments \/ EndAtParser \/ LaunchSender \/ LaunchReceiver \/ Run

Spec == Init /\ [][Next]_vars
-----------------------------------------------------------------------------
\* The loop ends just behind the last argument, never further; a file is only
\* shared by a program that runs.
TypeOK ==
    /\ args \in Seq(Words)
    /\ i \in 1 .. Len(args) + 1
    /\ \A m \in DOMAIN settings :
          /\ m[1] \in Options /\ m[2] \in 0 .. 2
          /\ settings[m] \in Words \cup {"on"}
    /\ shouldExit \in BOOLEAN
    /\ parsing \in {"busy", "done", "threw", "crashed"}
    /\ program \in {"starting", "running", "exited", "threw", "crashed", "asserted"}
    /\ program = "running" <=> stage # "idle"
    /\ FileTypeOK
=============================================================================
