---------------------------- MODULE CommandLine ----------------------------
(***************************************************************************)
(* From the command line to a server (main.cpp, FactoryOps, InputParser).  *)
(* getopt_long is called once, so one option is read: the first.  The      *)
(* arguments after the type are handed to the context as they stand, the   *)
(* options among them included.                                            *)
(*                                                                         *)
(* An argument is a name; the constants say what its characters are.       *)
(* argv[1] of the program is argv[1] here, so argc is Len(argv) + 1.       *)
(***************************************************************************)
EXTENDS Integers, Sequences, SequencesExt

CONSTANTS
    Argvs,      \* the command lines considered
    Unknown,    \* arguments that look like an option and are none
    WithColon,  \* arguments that contain ':'
    WithAt,     \* arguments that contain '@', the text before it being the id
    Numerals,   \* arguments that strtoimax reads in full
    PortOf,     \* their values
    Default     \* the value of port at the start

Options == {"-h", "-l", "-p", "-v"}
Dashed == Options \cup Unknown
None == "nullptr"
Unset == "unset"     \* no context has been built
UInt16 == 0..65535   \* uint16_t

ASSUME CommandLineAssumption ==
    /\ PortOf \in [Numerals -> Int] /\ Default \in UInt16
    /\ \A a \in Argvs : a \in Seq(STRING) /\ \A i \in DOMAIN a : a[i] \notin {None, Unset}
    /\ "generic" \notin Unknown /\ None \notin WithColon
    /\ WithAt \cap (Dashed \cup {"generic"}) = {} /\ Numerals \cap (Dashed \cup WithAt) = {}

VARIABLES argv, stage, port, verboseMode, args, xmlPath, devices, status

mainVars == <<argv, stage, port, verboseMode, args, xmlPath, devices, status>>

MainInit ==
    /\ argv \in Argvs /\ stage = "options"
    /\ port = Default /\ verboseMode = FALSE
    /\ args = <<>> /\ xmlPath = Unset /\ devices = <<>>
    /\ status = -1

Exit(code) == stage' = "exited" /\ status' = code

\* getopt_long: where the first option is, 0 for none.
FirstOption == SelectInSeq(argv, LAMBDA a : a \in Dashed)

\* Mutant: the range of a port is not checked.
ValidPort_any(a) == a \in Numerals

\* strToUint16T: what it does not exit on.
ValidPort(a) == a \in Numerals /\ PortOf[a] \in UInt16

\* handleOptions.  An unknown option and -p without a value are errors to getopt
\* (it answers '?'), which handleOptions ignores.
handleOptions ==
    /\ stage = "options"
    /\ LET i == FirstOption
           option == IF i = 0 THEN None ELSE argv[i]
       IN  CASE option \in {"-h", "-l"} -> Exit(0) /\ UNCHANGED <<port, verboseMode>>
             [] option = "-v" ->
                    verboseMode' = TRUE /\ stage' = "verbose" /\ UNCHANGED <<port, status>>
             [] option = "-p" /\ i < Len(argv) ->
                    /\ IF ValidPort(argv[i + 1])
                       THEN port' = PortOf[argv[i + 1]] /\ stage' = "verbose" /\ UNCHANGED status
                       ELSE Exit(1) /\ UNCHANGED port
                    /\ UNCHANGED verboseMode
             [] OTHER -> stage' = "verbose" /\ UNCHANGED <<port, verboseMode, status>>
    /\ UNCHANGED <<argv, args, xmlPath, devices>>

\* main: the verbose option must be the last argument, and a type is needed.
\* The arguments of the context are those between the two.
CollectArgs ==
    /\ stage = "verbose"
    /\ IF \/ verboseMode /\ Last(argv) # "-v"
          \/ argv = <<>>
          \/ Len(argv) = 1 /\ verboseMode
       THEN Exit(1) /\ UNCHANGED args
       ELSE /\ args' = SubSeq(argv, 2, Len(argv) - IF verboseMode THEN 1 ELSE 0)
            /\ stage' = "build" /\ UNCHANGED status
    /\ UNCHANGED <<argv, port, verboseMode, xmlPath, devices>>

\* Mutant: the last argument without a colon.
getXMLPath_last(s) ==
    LET plain == SelectSeq(s, LAMBDA a : a \notin WithColon)
    IN  IF plain = <<>> THEN None ELSE Last(plain)

\* InputParser: the first argument without a colon, and all with an '@'.
getXMLPath(s) ==
    LET i == SelectInSeq(s, LAMBDA a : a \notin WithColon)
    IN  IF i = 0 THEN None ELSE s[i]

getDevices(s) ==
    LET found[n \in 0..Len(s)] ==
            IF n = 0 THEN <<>>
            ELSE IF s[n] \in WithAt THEN Append(found[n - 1], s[n]) ELSE found[n - 1]
    IN  found[Len(s)]

\* FactoryOps::buildOps called by the constructor of TcpServer, which exits when
\* it answers nullptr.
buildOps ==
    /\ stage = "build"
    /\ CASE argv[1] = "generic" /\ args # <<>> ->
               /\ xmlPath' = getXMLPath(args) /\ devices' = getDevices(args)
               /\ stage' = "start" /\ UNCHANGED status
         [] argv[1] = "adalm2000" -> stage' = "start" /\ UNCHANGED <<xmlPath, devices, status>>
         [] OTHER -> Exit(1) /\ UNCHANGED <<xmlPath, devices>>
    /\ UNCHANGED <<argv, port, verboseMode, args>>

\* server.start(port): its answer, true when nothing failed, becomes the exit
\* status.
start ==
    /\ stage = "start" /\ stage' = "serving"
    /\ UNCHANGED <<argv, port, verboseMode, args, xmlPath, devices, status>>

ServerEnds(ret) ==
    /\ stage \in {"start", "serving"} /\ Exit(IF ret THEN 1 ELSE 0)
    /\ stage = "start" => ~ret
    /\ UNCHANGED <<argv, port, verboseMode, args, xmlPath, devices>>

MainNext == \/ handleOptions \/ CollectArgs \/ buildOps \/ start
            \/ \E ret \in BOOLEAN : ServerEnds(ret)

MainSpec == MainInit /\ [][MainNext]_mainVars

-----------------------------------------------------------------------------
(* Properties *)

MainTypeOK ==
    /\ stage \in {"options", "verbose", "build", "start", "serving", "exited"}
    /\ port \in UInt16 /\ verboseMode \in BOOLEAN
    /\ status \in {-1, 0, 1} /\ (stage = "exited" <=> status # -1)

Built == stage \in {"start", "serving"}

\* A command line in the forms of the documentation: generic, a path, perhaps a
\* port as README.md has it, devices; or, as the help has it, among these one -p
\* with a port instead; and perhaps -v at the end.  (A path with an '@' cannot be
\* told from a device.)
Body == IF argv # <<>> /\ Last(argv) = "-v" THEN Front(argv) ELSE argv
PortAt == SelectInSeq(Body, LAMBDA a : a = "-p")
Conforms ==
    /\ Len(Body) >= 2 /\ Body[1] = "generic"
    /\ Body[2] \notin Dashed \cup WithAt
    /\ \A i \in 3..Len(Body) :
          \/ Body[i] \in WithAt
          \/ PortAt > 0 /\ i \in {PortAt, PortAt + 1}
          \/ PortAt = 0 /\ i = 3 /\ ValidPort(Body[3])
    /\ PortAt > 0 => PortAt < Len(Body) /\ ValidPort(Body[PortAt + 1])

\* What such a command line asks for.
AskedVerbose == Body # argv
AskedPort ==
    IF PortAt > 0 THEN PortOf[Body[PortAt + 1]]
    ELSE IF Len(Body) >= 3 /\ Body[3] \in Numerals THEN PortOf[Body[3]]
    ELSE Default

\* These are the arguments of s with an '@', in their order.
Lists(devs, s) ==
    \E at \in [1..Len(devs) -> 1..Len(s)] :
        /\ \A i, j \in 1..Len(devs) : i < j => at[i] < at[j]
        /\ \A i \in 1..Len(devs) : devs[i] = s[at[i]]
        /\ \A n \in 1..Len(s) : s[n] \in WithAt <=> \E i \in 1..Len(devs) : at[i] = n

\* A command line of that form is never refused, and the server it builds always
\* has the devices of the command line, wherever the options stand among them.
\* It has the rest of what is asked for with three exceptions, exactly: a path
\* with a colon is passed over, -v at the end is not read if there is a -p, and
\* the port after the path counts only if it is the default one.
HonouredExactly ==
    Conforms =>
        /\ stage = "exited" => xmlPath # Unset
        /\ Built => /\ Lists(devices, argv)
                    /\ xmlPath = argv[2] <=> argv[2] \notin WithColon
                    /\ verboseMode = AskedVerbose <=> ~(AskedVerbose /\ PortAt > 0)
                    /\ port = AskedPort <=> PortAt > 0 \/ AskedPort = Default
=============================================================================
