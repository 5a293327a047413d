----------------------------- MODULE CommandLine -----------------------------
(***************************************************************************)
(* CommandLine and CLParser (src/src/command_line.cpp): the arguments are  *)
(* read from left to right, one option with its parameters at a time.      *)
(*                                                                         *)
(* A word stands for all words that are read alike; what the library makes *)
(* of a word as a number is given by the sets below.  args[k] is argv[k],  *)
(* so argc is Len(args) + 1, and argv[argc] is the null pointer.           *)
(***************************************************************************)
EXTENDS Integers, Sequences

CONSTANTS
    Words,      \* the words the arguments are made of
    MaxArgs,    \* bound of the model: arguments
    ReadToEnd,  \* those from_chars reads to their end as a whole number
    Ports,      \* those of them it stores in 16 bits
    Sizes,      \* those of them it stores in 64 bits
    Floats      \* those std::stof reads

ASSUME CommandLineAssumption ==
    /\ MaxArgs \in Nat
    /\ Ports \subseteq Sizes /\ Sizes \subseteq ReadToEnd /\ Sizes \subseteq Floats

VARIABLES
    args,        \* argv without the program's name
    i,           \* the loop's counter
    settings,    \* the members: <<option, parameter>> -> word, when not the default
    shouldExit,  \* _should_exit
    parsing      \* "busy", "done" when the constructor has returned; "threw", "crashed"

parser == <<args, i, settings, shouldExit, parsing>>

Variants == {"id1", "sha1_single", "sha1_info"}

Flags == {"-v", "-V", "-h", "-L", "-U"}

StringOptions == {"-G", "-F", "-N", "-a", "-f", "-d", "-D"}

SizeOptions == {"--ft_ack_per_packet", "-I", "-O"}

FloatOptions == {"--ft_init_retry_timeout_after", "--ft_sending_give_up_after"}

Options == Flags \cup StringOptions \cup SizeOptions \cup FloatOptions \cup {"-P", "-p"}

\* The types of an option's parameters.
Parameters(o) ==
    IF o \in StringOptions THEN <<"string">>
    ELSE IF o \in SizeOptions THEN <<"size">>
    ELSE IF o \in FloatOptions THEN <<"float">>
    ELSE IF o = "-p" THEN <<"port">>
    ELSE IF o = "-P" THEN <<"string", "port">>
    ELSE <<>>

\* The parameters of the option at n, by their number.
ParametersAt(n) == DOMAIN Parameters(args[n])

\* Parameter k of the option at n is one the parser takes.
Readable(n, k) ==
    LET type == Parameters(args[n])[k] IN
    /\ n + k <= Len(args)
    /\ type \in {"size", "port"} => args[n + k] \in ReadToEnd
    /\ type = "float" => args[n + k] \in Floats
    /\ args[n] = "-a" => args[n + k] \in Variants

\* It is stored.  from_chars leaves the member alone when the number does not fit
\* in it, or there is none ("" is read to its end), and the parser does not notice.
Stored(n, k) ==
    LET type == Parameters(args[n])[k] IN
    /\ type = "size" => args[n + k] \in Sizes
    /\ type = "port" => args[n + k] \in Ports
-----------------------------------------------------------------------------
ParserInit ==
    /\ \E n \in 0 .. MaxArgs : args \in [1 .. n -> Words]
    /\ i = 1 /\ settings = <<>>
    /\ shouldExit = FALSE /\ parsing = "busy"

\* Faulty: what is there already stays.
WithFirst(stored) ==
    [m \in DOMAIN settings \cup {<<args[i], k>> : k \in stored} |->
        IF m \in DOMAIN settings THEN settings[m] ELSE args[i + m[2]]]

\* The members after the option at i: a later one takes the place of an earlier one.
With(stored) ==
    [m \in DOMAIN settings \cup {<<args[i], k>> : k \in stored} |->
        IF m[1] = args[i] /\ m[2] \in stored THEN args[i + m[2]] ELSE settings[m]]

\* PRINT_HELP_AND_BAIL
Bail ==
    /\ shouldExit' = TRUE /\ parsing' = "done"
    /\ UNCHANGED <<args, i, settings>>

\* parseFlag, and -h
ParseFlag ==
    /\ args[i] \in Flags
    /\ i' = i + 1
    /\ settings' = [m \in DOMAIN settings \cup {<<args[i], 0>>} |->
                       IF m = <<args[i], 0>> THEN "on" ELSE settings[m]]
    /\ shouldExit' = (shouldExit \/ args[i] \in {"-v", "-h"})
    /\ UNCHANGED <<args, parsing>>

\* "not enough parameters!": argc is compared with the parameters alone, whatever
\* the place of the option is.
TooFew == Len(args) + 1 < 1 + Len(Parameters(args[i]))

\* Faulty: the counter is moved on by one parameter, or by two, of any option.
NextOptionShort == i + 2

NextOptionLong == i + 3

\* Each parameter moves the counter on, and the loop moves it past the last one.
NextOption == i + 1 + Len(Parameters(args[i]))

\* parseParam, all parameters being readable
ParseParam ==
    /\ args[i] \in Options \ Flags /\ ~TooFew
    /\ \A k \in ParametersAt(i) : Readable(i, k)
    /\ i' = NextOption
    /\ settings' = With({k \in ParametersAt(i) : Stored(i, k)})
    /\ UNCHANGED <<args, shouldExit, parsing>>

\* parseParam stops at the first parameter that is not readable: past the end it
\* reads the null pointer, and nothing catches what stof throws.
FailParam ==
    /\ args[i] \in Options \ Flags /\ ~TooFew
    /\ \E k \in ParametersAt(i) :
          /\ ~Readable(i, k) /\ \A j \in 1 .. k - 1 : Readable(i, j)
          /\ IF i + k <= Len(args) /\ Parameters(args[i])[k] # "float"
             THEN Bail
             ELSE /\ parsing' = IF i + k > Len(args) THEN "crashed" ELSE "threw"
                  /\ UNCHANGED <<args, i, settings, shouldExit>>

\* An option that is unknown, or the only argument and without its two parameters.
FailOption ==
    /\ args[i] \notin Options \/ (args[i] \notin Flags /\ TooFew)
    /\ Bail

\* Past the last argument: "transfer_variant not set!", or all is well.
Finish ==
    \/ /\ <<"-a", 1>> \notin DOMAIN settings
       /\ Bail
    \/ /\ <<"-a", 1>> \in DOMAIN settings
       /\ parsing' = "done"
       /\ UNCHANGED <<args, i, settings, shouldExit>>

Parse ==
    /\ parsing = "busy"
    /\ \/ i <= Len(args) /\ (ParseFlag \/ ParseParam \/ FailParam \/ FailOption)
       \/ i > Len(args) /\ Finish
-----------------------------------------------------------------------------
(* The grammar, stated without a parser.                                   *)

\* The places of the options when the arguments are cut into options with their
\* parameters: the first is at 1, each next one after its predecessor's parameters.
Places ==
    CHOOSE S \in SUBSET DOMAIN args :
        \A n \in DOMAIN args :
            n \in S <=> n = 1 \/ \E m \in S : n = m + 1 + Len(Parameters(args[m]))

Correct(n) == args[n] \in Options /\ \A k \in ParametersAt(n) : Readable(n, k)

\* The first option that is not correct, and the first thing that is wrong with it.
Misuse == {n \in Places : ~Correct(n) /\ \A m \in Places : m < n => Correct(m)}

MissingAt(n) ==
    \E k \in ParametersAt(n) : n + k > Len(args) /\ \A j \in 1 .. k - 1 : Readable(n, j)

NoFloatAt(n) == args[n] \in FloatOptions /\ ~MissingAt(n) /\ ~Correct(n)

\* The arguments are taken exactly when each option is known, has its parameters,
\* all readable, and -a is among them; they lead on exactly when -v and -h are not.
\* All else ends with the help, but two mistakes: a value that is missing at the end
\* (of any option but a lone -P), and a value of a time that is no number
\* (command_line.cpp 33-72, 81-138).
ParsesGrammar ==
    parsing # "busy" =>
        /\ (parsing = "done" /\ ~shouldExit) <=>
              /\ Misuse = {}
              /\ \E n \in Places : args[n] = "-a"
              /\ \A n \in Places : args[n] \notin {"-v", "-h"}
        /\ parsing = "crashed" <=> \E n \in Misuse : MissingAt(n) /\ args # <<"-P">>
        /\ parsing = "threw" <=> \E n \in Misuse : NoFloatAt(n)

\* Every member ends up as the last value that fits, whatever comes before, between
\* and after, and a word is never both a value and an option
\* (command_line.cpp 47-69, 94-124).
LastValueWins ==
    (parsing = "done" /\ ~shouldExit) =>
        \A o \in Options \ Flags : \A k \in DOMAIN Parameters(o) :
            LET given == {n \in Places : args[n] = o /\ Stored(n, k)} IN
            /\ <<o, k>> \in DOMAIN settings <=> given # {}
            /\ \A n \in given :
                  (\A m \in given : m <= n) => settings[<<o, k>>] = args[n + k]
=============================================================================
