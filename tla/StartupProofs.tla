---------------------------- MODULE StartupProofs ----------------------------
(***************************************************************************)
(* Proofs about Startup: the parser of the command line does what its      *)
(* grammar says; and the file that is shared is cut, checked and put       *)
(* together right, for names, contents and fields of any size.             *)
(***************************************************************************)
EXTENDS Startup, Sums, WellFoundedInduction, SequenceTheorems, TLAPS
-----------------------------------------------------------------------------
(* The grammar.                                                            *)

\* S cuts the arguments into options with their parameters.
IsCut(S) ==
    /\ S \in SUBSET DOMAIN args
    /\ \A n \in DOMAIN args :
          n \in S <=> n = 1 \/ \E m \in S : n = m + 1 + Len(Parameters(args[m]))

\* Closed(S): it has at least the places of a cut.
Closed(S) ==
    /\ 1 \in DOMAIN args => 1 \in S
    /\ \A m \in S : m + 1 + Len(Parameters(args[m])) \in DOMAIN args =>
                       m + 1 + Len(Parameters(args[m])) \in S

LEMMA ParameterCount ==
    ASSUME NEW o
    PROVE  /\ Len(Parameters(o)) \in 0 .. 2
           /\ DOMAIN Parameters(o) = 1 .. Len(Parameters(o))
<1>1. Parameters(o) \in {<<"string">>, <<"size">>, <<"float">>, <<"port">>,
                         <<"string", "port">>, <<>>}
  BY DEF Parameters
<1>2. ASSUME NEW s \in {<<"string">>, <<"size">>, <<"float">>, <<"port">>,
                         <<"string", "port">>, <<>>}
      PROVE  Len(s) \in 0 .. 2 /\ DOMAIN s = 1 .. Len(s)
  OBVIOUS
<1> QED  BY <1>1, <1>2

LEMMA LeastNumber ==
    ASSUME NEW T \in SUBSET Nat, T # {}
    PROVE  \E n \in T : \A m \in T : n <= m
<1>1. PICK n \in T : \A m \in T : ~ (<<m, n>> \in OpToRel(<, Nat))
  BY NatLessThanWellFounded, WFMin
<1>2. ASSUME NEW m \in T PROVE n <= m
  <2>1. <<m, n>> \notin OpToRel(<, Nat)
    BY <1>1
  <2>2. ~ (m < n)
    BY <2>1 DEF OpToRel
  <2> QED  BY <2>2
<1> QED  BY <1>2

\* There is one: the smallest closed set.
LEMMA CutExists == \E S : IsCut(S)
<1> DEFINE After(m) == m + 1 + Len(Parameters(args[m]))
           S == {n \in DOMAIN args : \A T \in SUBSET DOMAIN args : Closed(T) => n \in T}
<1>1. Closed(S)
  BY DEF Closed
<1>2. ASSUME NEW n \in S, n # 1, \A m \in S : n # After(m) PROVE FALSE
  <2>1. Closed(S \ {n})
    <3>1. 1 \in DOMAIN args => 1 \in S \ {n}
      BY <1>1, <1>2 DEF Closed
    <3>2. ASSUME NEW m \in S \ {n}, After(m) \in DOMAIN args PROVE After(m) \in S \ {n}
      <4>1. After(m) \in S
        BY <1>1, <3>2 DEF Closed
      <4> QED  BY <4>1, <1>2
    <3> HIDE DEF S
    <3> QED  BY <3>1, <3>2 DEF Closed
  <2>2. S \ {n} \in SUBSET DOMAIN args
    OBVIOUS
  <2>3. n \in S \ {n}
    BY <2>1, <2>2, <1>2
  <2> QED  BY <2>3
<1>3. ASSUME NEW n \in DOMAIN args, n = 1 \/ \E m \in S : n = After(m) PROVE n \in S
  <2> HIDE DEF S
  <2> QED  BY <1>1, <1>3 DEF Closed
<1>4. S \in SUBSET DOMAIN args
  OBVIOUS
<1> HIDE DEF S
<1> QED  BY <1>2, <1>3, <1>4 DEF IsCut

LEMMA PlacesCut == IsCut(Places)
<1>1. PICK S : IsCut(S)
  BY CutExists
<1>2. \E T \in SUBSET DOMAIN args :
        \A n \in DOMAIN args :
            n \in T <=> n = 1 \/ \E m \in T : n = m + 1 + Len(Parameters(args[m]))
  BY <1>1 DEF IsCut
<1> QED  BY <1>2 DEF IsCut, Places

\* Between the option at a place and the next one there is no other, if that is
\* so of all the options before.
LEMMA NextPlace ==
    ASSUME args \in Seq(Words), NEW p \in Places,
           \A m \in Places : m < p => m + 1 + Len(Parameters(args[m])) <= p
    PROVE  /\ \A n \in Places : n > p => n >= p + 1 + Len(Parameters(args[p]))
           /\ p + 1 + Len(Parameters(args[p])) <= Len(args)
                 => p + 1 + Len(Parameters(args[p])) \in Places
<1> DEFINE After(m) == m + 1 + Len(Parameters(args[m]))
           T == {n \in Places : n > p /\ n < After(p)}
<1>1. /\ DOMAIN args = 1 .. Len(args) /\ Len(args) \in Nat
      /\ Places \subseteq 1 .. Len(args)
      /\ \A n \in 1 .. Len(args) : n \in Places <=> n = 1 \/ \E m \in Places : n = After(m)
  <2>1. DOMAIN args = 1 .. Len(args) /\ Len(args) \in Nat
    OBVIOUS
  <2> QED  BY <2>1, PlacesCut DEF IsCut
<1>2. \A m \in Places : After(m) \in Nat
  BY <1>1, ParameterCount
<1>3. T = {}
  <2> SUFFICES ASSUME T # {} PROVE FALSE
    OBVIOUS
  <2>1. T \in SUBSET Nat
    <3>1. Places \subseteq Nat
      BY <1>1
    <3> QED  BY <3>1
  <2>2. PICK n \in T : \A m \in T : n <= m
    <3> HIDE DEF T
    <3> QED  BY <2>1, LeastNumber
  <2>3. n \in Places /\ n \in 1 .. Len(args) /\ n > p /\ n < After(p)
    BY <1>1
  <2>4. n # 1
    BY <1>1, <2>3
  <2>5. PICK m \in Places : n = After(m)
    BY <1>1, <2>3, <2>4
  <2>6. m \in Nat /\ p \in Nat /\ m < n
    BY <2>5, <1>1, ParameterCount
  <2>7. CASE m < p
    BY <2>7, <2>5, <2>3, <2>6
  <2>8. CASE m = p
    BY <2>8, <2>5, <2>3, <1>2
  <2>9. CASE m > p
    <3>1. m \in T
      BY <2>9, <2>6, <2>3, <1>2
    <3> QED  BY <3>1, <2>2, <2>6, <2>3
  <2> QED  BY <2>6, <2>7, <2>8, <2>9
<1>4. ASSUME NEW n \in Places, n > p PROVE n >= After(p)
  <2>1. n \in Nat /\ After(p) \in Nat /\ n \notin T
    <3> HIDE DEF T
    <3> QED  BY <1>1, <1>2, <1>3
  <2>2. ~ (n < After(p))
    BY <2>1, <1>4
  <2> HIDE DEF After
  <2> QED  BY <2>1, <2>2
<1>5. After(p) <= Len(args) => After(p) \in Places
  BY <1>1, <1>2, ParameterCount
<1> QED  BY <1>4, <1>5
-----------------------------------------------------------------------------
(* The invariant of the parser.                                            *)

ParserTypeOK ==
    /\ args \in Seq(Words)
    /\ i \in 1 .. Len(args) + 1
    /\ \A m \in DOMAIN settings :
          /\ m[1] \in Options /\ m[2] \in 0 .. 2
          /\ settings[m] \in Words \cup {"on"}
    /\ shouldExit \in BOOLEAN
    /\ parsing \in {"busy", "done", "threw", "crashed"}

\* The options before the counter, in the order of the grammar.
Read == {n \in Places : n < i}

\* The counter is at an option, never at a value, until nothing is left.
AtPlace == i <= Len(args) => i \in Places

\* What was read was correct, and ended before the counter.
ReadIsCorrect == \A n \in Read : Correct(n) /\ n + 1 + Len(Parameters(args[n])) <= i

\* Parameter k of option o was read and stored at these places.
StoredAt(o, k) == {n \in Read : args[n] = o /\ Stored(n, k)}

SettingsOf(o, k) ==
    /\ <<o, k>> \in DOMAIN settings <=> StoredAt(o, k) # {}
    /\ \A n \in StoredAt(o, k) :
          (\A m \in StoredAt(o, k) : m <= n) => settings[<<o, k>>] = args[n + k]

SettingsFollow ==
    \A o \in Options \ Flags : \A k \in DOMAIN Parameters(o) : SettingsOf(o, k)

ExitFollows == shouldExit <=> \E n \in Read : args[n] \in {"-v", "-h"}

Reading == AtPlace /\ ReadIsCorrect /\ SettingsFollow /\ ExitFollows

IInv ==
    /\ ParserTypeOK
    /\ parsing = "busy" => Reading
    /\ ParsesGrammar
    /\ LastValueWins
LEMMA OptionFacts ==
    /\ \A o \in Flags : o \in Options /\ Parameters(o) = <<>>
    /\ \A o \in Options \ Flags : Len(Parameters(o)) \in 1 .. 2
    /\ "-a" \in Options \ Flags /\ Parameters("-a") = <<"string">>
    /\ \A o : o \notin Options => Parameters(o) = <<>>
    /\ \A o \in FloatOptions : o \in Options \ Flags /\ Parameters(o) = <<"float">>
    /\ \A o : \A k \in 1 .. Len(Parameters(o)) :
          Parameters(o)[k] = "float" => o \in FloatOptions /\ k = 1
    /\ \A o : Len(Parameters(o)) = 2 => o = "-P"
BY DEF Options, Flags, Parameters, StringOptions, SizeOptions, FloatOptions

\* What is said of the arguments alone stays, since they do.
LEMMA Unread ==
    ASSUME args' = args
    PROVE  /\ Places' = Places
           /\ \A n : Correct(n)' <=> Correct(n)
           /\ \A n : MissingAt(n)' <=> MissingAt(n)
           /\ \A n : NoFloatAt(n)' <=> NoFloatAt(n)
           /\ \A n, k : Stored(n, k)' <=> Stored(n, k)
           /\ Misuse' = Misuse
<1>1. Places' = Places
  BY DEF Places
<1>2. \A n : Correct(n)' <=> Correct(n)
  BY DEF Correct, ParametersAt, Readable
<1>3. \A n : MissingAt(n)' <=> MissingAt(n)
  BY DEF MissingAt, ParametersAt, Readable
<1>4. \A n : NoFloatAt(n)' <=> NoFloatAt(n)
  BY <1>2, <1>3 DEF NoFloatAt
<1>5. \A n, k : Stored(n, k)' <=> Stored(n, k)
  BY DEF Stored
<1>6. Misuse' = Misuse
  BY <1>1, <1>2 DEF Misuse
<1> QED  BY <1>1, <1>2, <1>3, <1>4, <1>5, <1>6

\* When the counter is past the last argument, every option was read.
LEMMA AllRead ==
    ASSUME ParserTypeOK, Reading, i > Len(args)
    PROVE  Read = Places /\ Misuse = {} /\ \A n \in Places : Correct(n)
<1>1. Places \subseteq 1 .. Len(args) /\ Len(args) \in Nat /\ i \in Nat
  BY PlacesCut DEF IsCut, ParserTypeOK
<1>2. \A n \in Places : n < i
  BY <1>1
<1>3. Read = Places
  BY <1>2 DEF Read
<1> QED  BY <1>3 DEF Misuse, Reading, ReadIsCorrect

\* When the option at the counter is not correct, it is the one to blame.
LEMMA Blame ==
    ASSUME ParserTypeOK, Reading, i <= Len(args), ~Correct(i)
    PROVE  Misuse = {i} /\ i \in Places
<1>1. Places \subseteq Nat /\ i \in Nat
  BY PlacesCut DEF IsCut, ParserTypeOK
<1>2. i \in Places
  BY DEF Reading, AtPlace
<1>3. \A m \in Places : m < i => Correct(m)
  BY DEF Reading, ReadIsCorrect, Read
<1>4. i \in Misuse
  BY <1>2, <1>3 DEF Misuse
<1>5. ASSUME NEW n \in Misuse PROVE n = i
  <2>1. n \in Places /\ n \in Nat /\ ~Correct(n) /\ \A m \in Places : m < n => Correct(m)
    BY <1>1 DEF Misuse
  <2> QED  BY <2>1, <1>1, <1>2, <1>3
<1> QED  BY <1>2, <1>4, <1>5

\* When it is correct, the counter moves on to the next one.
LEMMA Advance ==
    ASSUME ParserTypeOK, Reading, i <= Len(args), Correct(i), args' = args,
           i' = i + 1 + Len(Parameters(args[i]))
    PROVE  /\ i' \in 1 .. Len(args) + 1
           /\ Read' = Read \cup {i} /\ i \notin Read
           /\ AtPlace' /\ ReadIsCorrect'
<1>1. Places \subseteq 1 .. Len(args) /\ Len(args) \in Nat /\ i \in 1 .. Len(args)
  BY PlacesCut DEF IsCut, ParserTypeOK
<1>2. i \in Places
  BY DEF Reading, AtPlace
<1>3. Len(Parameters(args[i])) \in 0 .. 2 /\ ParametersAt(i) = 1 .. Len(Parameters(args[i]))
  BY ParameterCount DEF ParametersAt
<1>4. i' <= Len(args) + 1
  <2>1. CASE Len(Parameters(args[i])) = 0
    BY <2>1, <1>1
  <2>2. CASE Len(Parameters(args[i])) # 0
    <3>1. Len(Parameters(args[i])) \in ParametersAt(i)
      BY <2>2, <1>3
    <3>2. Readable(i, Len(Parameters(args[i])))
      BY <3>1 DEF Correct
    <3>3. i + Len(Parameters(args[i])) <= Len(args)
      BY <3>2 DEF Readable
    <3> QED  BY <3>3, <1>1, <1>3
  <2> QED  BY <2>1, <2>2
<1>5. /\ \A n \in Places : n > i => n >= i'
      /\ i' <= Len(args) => i' \in Places
  <2>1. \A m \in Places : m < i => m + 1 + Len(Parameters(args[m])) <= i
    BY DEF Reading, ReadIsCorrect, Read
  <2> QED  BY <2>1, <1>2, NextPlace DEF ParserTypeOK
<1>6. Read' = Read \cup {i}
  <2>1. i \in Nat /\ i' \in Nat /\ i < i' /\ Places \subseteq Nat
    BY <1>1, <1>3
  <2>2. \A n \in Places : n < i' <=> n < i \/ n = i
    BY <2>1, <1>5
  <2> QED  BY <2>2, <1>2, Unread DEF Read
<1>7. AtPlace'
  BY <1>5, Unread DEF AtPlace
<1>8. ReadIsCorrect'
  <2>1. ASSUME NEW n \in Read \cup {i}
        PROVE  Correct(n) /\ n + 1 + Len(Parameters(args[n])) <= i'
    <3>1. CASE n = i
      BY <3>1, <1>1, <1>3
    <3>2. CASE n # i
      <4>1. n \in Read /\ n \in Nat
        BY <3>2, <1>1 DEF Read
      <4>2. Correct(n) /\ n + 1 + Len(Parameters(args[n])) <= i
        BY <4>1 DEF Reading, ReadIsCorrect
      <4>3. Len(Parameters(args[n])) \in Nat
        BY ParameterCount
      <4> QED  BY <4>1, <4>2, <4>3, <1>1, <1>3
    <3> QED  BY <3>1, <3>2
  <2>2. \A n : Correct(n)' <=> Correct(n)
    BY Unread
  <2> QED  BY <2>1, <2>2, <1>6 DEF ReadIsCorrect
<1> QED  BY <1>1, <1>3, <1>4, <1>6, <1>7, <1>8 DEF Read

\* An option that stores its parameter determines it, and one that does not leaves
\* it alone.
LEMMA FollowOn ==
    ASSUME ParserTypeOK, args' = args, Read' = Read \cup {i},
           NEW o, NEW k, SettingsOf(o, k),
           IF args[i] = o /\ Stored(i, k)
           THEN <<o, k>> \in DOMAIN settings' /\ settings'[<<o, k>>] = args[i + k]
           ELSE /\ <<o, k>> \in DOMAIN settings' <=> <<o, k>> \in DOMAIN settings
                /\ <<o, k>> \in DOMAIN settings =>
                      settings'[<<o, k>>] = settings[<<o, k>>]
    PROVE  SettingsOf(o, k)'
<1>1. StoredAt(o, k)' = StoredAt(o, k) \cup {n \in {i} : args[n] = o /\ Stored(n, k)}
  <2>1. \A n : Stored(n, k)' <=> Stored(n, k)
    BY Unread
  <2> QED  BY <2>1 DEF StoredAt
<1>2. CASE args[i] = o /\ Stored(i, k)
  <2>1. StoredAt(o, k)' = StoredAt(o, k) \cup {i}
    BY <1>1, <1>2
  <2>2. \A n \in StoredAt(o, k) : n \in Nat /\ n < i
    BY PlacesCut DEF StoredAt, Read, IsCut, ParserTypeOK
  <2>3. i \in Nat
    BY DEF ParserTypeOK
  <2>4. ASSUME NEW n \in StoredAt(o, k)', \A m \in StoredAt(o, k)' : m <= n
        PROVE  settings'[<<o, k>>] = args[n + k]
    <3>1. i <= n
      BY <2>1, <2>4
    <3>2. n = i
      BY <3>1, <2>1, <2>2, <2>3
    <3> QED  BY <3>2, <1>2
  <2> QED  BY <2>1, <2>4, <1>2 DEF SettingsOf
<1>3. CASE ~ (args[i] = o /\ Stored(i, k))
  <2>1. StoredAt(o, k)' = StoredAt(o, k)
    BY <1>1, <1>3
  <2> QED  BY <2>1, <1>3 DEF SettingsOf
<1> QED  BY <1>2, <1>3

LEMMA ParserInitInv == Init => IInv
<1> SUFFICES ASSUME Init PROVE IInv
  OBVIOUS
<1>1. PICK n \in 0 .. MaxArgs : args \in [1 .. n -> Words]
  BY DEF Init, ParserInit
<1>2. args \in Seq(Words) /\ Len(args) \in Nat
  <2>1. n \in Nat
    BY CommandLineAssumption DEF CommandLineAssumption
  <2> QED  BY <1>1, <2>1
<1>3. i = 1 /\ settings = <<>> /\ shouldExit = FALSE /\ parsing = "busy"
  BY DEF Init, ParserInit
<1>4. DOMAIN settings = {}
  BY <1>3
<1>5. Read = {}
  BY PlacesCut, <1>2, <1>3 DEF Read, IsCut
<1>6. AtPlace
  <2>1. DOMAIN args = 1 .. Len(args)
    BY <1>2
  <2>2. 1 <= Len(args) => 1 \in DOMAIN args
    BY <2>1, <1>2
  <2>3. 1 \in DOMAIN args => 1 \in Places
    BY PlacesCut DEF IsCut
  <2> QED  BY <2>2, <2>3, <1>3 DEF AtPlace
<1>7. ParserTypeOK
  <2>1. i \in 1 .. Len(args) + 1
    BY <1>2, <1>3
  <2>2. shouldExit \in BOOLEAN /\ parsing \in {"busy", "done", "threw", "crashed"}
    BY <1>3
  <2>3. \A m \in DOMAIN settings : FALSE
    BY <1>4
  <2> QED  BY <2>1, <2>2, <2>3, <1>2 DEF ParserTypeOK
<1>8. SettingsFollow
  BY <1>4, <1>5 DEF SettingsFollow, SettingsOf, StoredAt
<1>9. Reading
  BY <1>3, <1>5, <1>6, <1>8 DEF Reading, ReadIsCorrect, ExitFollows
<1> QED  BY <1>3, <1>7, <1>9 DEF IInv, ParsesGrammar, LastValueWins

LEMMA ParseFlagInv ==
    ASSUME IInv, parsing = "busy", i <= Len(args), ParseFlag
    PROVE  IInv'
<1> USE DEF ParseFlag
<1>1. ParserTypeOK /\ Reading
  BY DEF IInv
<1>2. args[i] \in Options /\ Parameters(args[i]) = <<>> /\ ParametersAt(i) = {}
  BY OptionFacts, ParameterCount DEF ParametersAt
<1>3. Correct(i) /\ i' = i + 1 + Len(Parameters(args[i]))
  BY <1>1, <1>2 DEF Correct, ParserTypeOK
<1>4. /\ i' \in 1 .. Len(args) + 1
      /\ Read' = Read \cup {i} /\ i \notin Read
      /\ AtPlace' /\ ReadIsCorrect'
  BY <1>1, <1>3, Advance
<1>5. ParserTypeOK'
  <2>1. ASSUME NEW m \in DOMAIN settings'
        PROVE  /\ m[1] \in Options /\ m[2] \in 0 .. 2
               /\ settings'[m] \in Words \cup {"on"}
    <3>1. CASE m = <<args[i], 0>>
      BY <2>1, <3>1, <1>2
    <3>2. CASE m # <<args[i], 0>>
      BY <2>1, <3>2, <1>1 DEF ParserTypeOK
    <3> QED  BY <3>1, <3>2
  <2> QED  BY <2>1, <1>1, <1>4 DEF ParserTypeOK
<1>6. SettingsFollow'
  <2>1. ASSUME NEW o \in Options \ Flags, NEW k \in DOMAIN Parameters(o)
        PROVE  SettingsOf(o, k)'
    <3>1. SettingsOf(o, k)
      BY <1>1 DEF Reading, SettingsFollow
    <3>2. /\ args[i] # o
          /\ <<o, k>> # <<args[i], 0>>
      OBVIOUS
    <3>3. /\ <<o, k>> \in DOMAIN settings' <=> <<o, k>> \in DOMAIN settings
          /\ <<o, k>> \in DOMAIN settings => settings'[<<o, k>>] = settings[<<o, k>>]
      BY <3>2
    <3> QED  BY <1>1, <1>4, <3>1, <3>2, <3>3, FollowOn
  <2> QED  BY <2>1 DEF SettingsFollow
<1>7. ExitFollows'
  <2>1. shouldExit' <=> shouldExit \/ args[i] \in {"-v", "-h"}
    OBVIOUS
  <2> QED  BY <2>1, <1>1, <1>4 DEF ExitFollows, Reading
<1>8. parsing' = "busy"
  OBVIOUS
<1> QED  BY <1>4, <1>5, <1>6, <1>7, <1>8
      DEF IInv, Reading, ParsesGrammar, LastValueWins

LEMMA ParseParamInv ==
    ASSUME IInv, parsing = "busy", i <= Len(args), ParseParam
    PROVE  IInv'
<1> USE DEF ParseParam, NextOption
<1>1. ParserTypeOK /\ Reading
  BY DEF IInv
<1>2. Correct(i) /\ i' = i + 1 + Len(Parameters(args[i]))
  BY DEF Correct
<1>3. /\ i' \in 1 .. Len(args) + 1
      /\ Read' = Read \cup {i} /\ i \notin Read
      /\ AtPlace' /\ ReadIsCorrect'
  BY <1>1, <1>2, Advance
<1> DEFINE stored == {k \in ParametersAt(i) : Stored(i, k)}
<1>4. settings' = With(stored)
  OBVIOUS
<1>5. /\ stored \subseteq DOMAIN Parameters(args[i])
      /\ \A k \in stored : Stored(i, k)
      /\ \A k \in DOMAIN Parameters(args[i]) : Stored(i, k) => k \in stored
  BY DEF ParametersAt
<1>6. \A k \in stored : k \in 1 .. 2 /\ i + k \in 1 .. Len(args)
  <2>1. ASSUME NEW k \in stored PROVE k \in 1 .. 2 /\ i + k \in 1 .. Len(args)
    <3>1. k \in 1 .. 2
      BY <1>5, ParameterCount
    <3>2. i + k <= Len(args)
      BY DEF Readable
    <3> HIDE DEF stored
    <3> QED  BY <3>1, <3>2, <1>1 DEF ParserTypeOK
  <2> QED  BY <2>1
<1> HIDE DEF stored
<1>7. ParserTypeOK'
  <2>1. ASSUME NEW m \in DOMAIN settings'
        PROVE  /\ m[1] \in Options /\ m[2] \in 0 .. 2
               /\ settings'[m] \in Words \cup {"on"}
    <3>1. m \in DOMAIN settings \cup {<<args[i], k>> : k \in stored}
      BY <1>4 DEF With
    <3>2. settings'[m] = IF m[1] = args[i] /\ m[2] \in stored THEN args[i + m[2]]
                         ELSE settings[m]
      BY <1>4, <3>1 DEF With
    <3>3. CASE m[1] = args[i] /\ m[2] \in stored
      <4>1. args[i + m[2]] \in Words
        BY <3>3, <1>6, <1>1 DEF ParserTypeOK
      <4> QED  BY <4>1, <3>2, <3>3, <1>6
    <3>4. CASE ~ (m[1] = args[i] /\ m[2] \in stored)
      <4>1. m \in DOMAIN settings
        BY <3>1, <3>4
      <4> QED  BY <4>1, <3>2, <3>4, <1>1 DEF ParserTypeOK
    <3> QED  BY <3>3, <3>4
  <2> QED  BY <2>1, <1>1, <1>3 DEF ParserTypeOK
<1>8. SettingsFollow'
  <2>1. ASSUME NEW o \in Options \ Flags, NEW k \in DOMAIN Parameters(o)
        PROVE  SettingsOf(o, k)'
    <3>1. SettingsOf(o, k)
      BY <1>1 DEF Reading, SettingsFollow
    <3>2. <<o, k>> \in {<<args[i], j>> : j \in stored} <=> args[i] = o /\ k \in stored
      OBVIOUS
    <3>3. <<o, k>>[1] = o /\ <<o, k>>[2] = k
      OBVIOUS
    <3>4. CASE args[i] = o /\ k \in stored
      <4>1. <<o, k>> \in DOMAIN settings' /\ settings'[<<o, k>>] = args[i + k]
        BY <3>2, <3>3, <3>4, <1>4 DEF With
      <4>2. Stored(i, k)
        BY <3>4, <1>5
      <4> QED  BY <1>1, <1>3, <3>1, <3>4, <4>1, <4>2, FollowOn
    <3>5. CASE ~ (args[i] = o /\ k \in stored)
      <4>1. /\ <<o, k>> \in DOMAIN settings' <=> <<o, k>> \in DOMAIN settings
            /\ <<o, k>> \in DOMAIN settings => settings'[<<o, k>>] = settings[<<o, k>>]
        BY <3>2, <3>3, <3>5, <1>4 DEF With
      <4>2. ~ (args[i] = o /\ Stored(i, k))
        BY <3>5, <1>5
      <4> QED  BY <1>1, <1>3, <3>1, <4>1, <4>2, FollowOn
    <3> QED  BY <3>4, <3>5
  <2> QED  BY <2>1 DEF SettingsFollow
<1>9. ExitFollows'
  <2>1. args[i] \notin {"-v", "-h"}
    BY DEF Flags
  <2> QED  BY <2>1, <1>1, <1>3 DEF ExitFollows, Reading
<1>10. parsing' = "busy"
  OBVIOUS
<1> QED  BY <1>3, <1>7, <1>8, <1>9, <1>10
      DEF IInv, Reading, ParsesGrammar, LastValueWins

\* An end with the help, by the option at the counter.
LEMMA BailInv ==
    ASSUME IInv, parsing = "busy", i <= Len(args), Bail, ~Correct(i),
           ~ (MissingAt(i) /\ args # <<"-P">>), ~NoFloatAt(i)
    PROVE  IInv'
<1>1. ParserTypeOK /\ Reading
  BY DEF IInv
<1>2. Misuse = {i} /\ i \in Places
  BY <1>1, Blame
<1>3. /\ args' = args /\ i' = i /\ settings' = settings
      /\ shouldExit' = TRUE /\ parsing' = "done"
  BY DEF Bail
<1>4. ParserTypeOK'
  BY <1>1, <1>3 DEF ParserTypeOK
<1>5. ParsesGrammar'
  <2>1. Misuse' = {i}
    BY <1>2, <1>3, Unread
  <2>2. Misuse' # {}
    BY <2>1
  <2>3. ASSUME NEW n \in Misuse'
        PROVE  ~ (MissingAt(n)' /\ args' # <<"-P">>) /\ ~NoFloatAt(n)'
    <3>1. n = i
      BY <2>1
    <3>2. ~ (MissingAt(n) /\ args # <<"-P">>) /\ ~NoFloatAt(n)
      BY <3>1
    <3> QED  BY <3>2, <1>3, Unread
  <2> QED  BY <2>2, <2>3, <1>3 DEF ParsesGrammar
<1> QED  BY <1>3, <1>4, <1>5 DEF IInv, LastValueWins

LEMMA FailParamInv ==
    ASSUME IInv, parsing = "busy", i <= Len(args), FailParam
    PROVE  IInv'
<1>1. ParserTypeOK /\ Reading
  BY DEF IInv
<1>2. /\ args[i] \in Options \ Flags /\ ~TooFew
      /\ ParametersAt(i) = 1 .. Len(Parameters(args[i]))
      /\ Len(Parameters(args[i])) \in 1 .. 2
  BY OptionFacts, ParameterCount DEF FailParam, ParametersAt
<1>3. PICK k \in ParametersAt(i) :
        /\ ~Readable(i, k) /\ \A j \in 1 .. k - 1 : Readable(i, j)
        /\ IF i + k <= Len(args) /\ Parameters(args[i])[k] # "float"
           THEN Bail
           ELSE /\ parsing' = IF i + k > Len(args) THEN "crashed" ELSE "threw"
                /\ UNCHANGED <<args, i, settings, shouldExit>>
  BY DEF FailParam
<1>4. ~Correct(i) /\ k \in 1 .. 2 /\ i \in Nat /\ Len(args) \in Nat
  BY <1>1, <1>2, <1>3 DEF Correct, ParserTypeOK
<1>5. MissingAt(i) <=> i + k > Len(args)
  <2>1. ASSUME MissingAt(i) PROVE i + k > Len(args)
    <3>1. PICK m \in ParametersAt(i) :
            i + m > Len(args) /\ \A j \in 1 .. m - 1 : Readable(i, j)
      BY <2>1 DEF MissingAt
    <3>2. m \in 1 .. 2
      <4>1. m \in 1 .. Len(Parameters(args[i]))
        BY <1>2
      <4>2. Len(Parameters(args[i])) \in 1 .. 2
        BY <1>2
      <4>3. ASSUME NEW b \in 1 .. 2, NEW c \in 1 .. b PROVE c \in 1 .. 2
        OBVIOUS
      <4> QED  BY <4>1, <4>2, <4>3
    <3>3. ~ (k < m)
      <4> SUFFICES ASSUME k < m PROVE FALSE
        OBVIOUS
      <4>1. k \in 1 .. m - 1
        BY <1>4, <3>2
      <4> QED  BY <4>1, <3>1, <1>3
    <3> QED  BY <3>1, <3>2, <3>3, <1>4
  <2>2. ASSUME i + k > Len(args) PROVE MissingAt(i)
    BY <2>2, <1>3 DEF MissingAt
  <2> QED  BY <2>1, <2>2
<1>6. args # <<"-P">>
  <2> SUFFICES ASSUME args = <<"-P">> PROVE FALSE
    OBVIOUS
  <2>1. i = 1 /\ Len(args) = 1
    BY <1>1 DEF ParserTypeOK
  <2>2. args[i] = "-P"
    BY <2>1
  <2>3. Len(Parameters(args[i])) = 2
    BY <2>2 DEF Parameters, StringOptions, SizeOptions, FloatOptions
  <2> QED  BY <2>1, <2>3, <1>2 DEF TooFew
<1>7. NoFloatAt(i) <=> Parameters(args[i])[k] = "float" /\ i + k <= Len(args)
  <2>1. args[i] \in FloatOptions <=> Parameters(args[i])[k] = "float"
    <3>1. ASSUME args[i] \in FloatOptions PROVE Parameters(args[i])[k] = "float"
      <4>1. Parameters(args[i]) = <<"float">>
        BY <3>1, OptionFacts
      <4>2. k = 1
        BY <4>1, <1>2
      <4> QED  BY <4>1, <4>2
    <3> QED  BY <3>1, <1>2, OptionFacts
  <2> QED  BY <2>1, <1>4, <1>5 DEF NoFloatAt
<1>8. CASE i + k <= Len(args) /\ Parameters(args[i])[k] # "float"
  <2>1. Bail
    BY <1>3, <1>8
  <2>2. ~MissingAt(i) /\ ~NoFloatAt(i)
    BY <1>4, <1>5, <1>7, <1>8
  <2> QED  BY <2>1, <2>2, <1>4, BailInv
<1>9. CASE ~ (i + k <= Len(args) /\ Parameters(args[i])[k] # "float")
  <2>1. /\ args' = args /\ i' = i /\ settings' = settings /\ shouldExit' = shouldExit
        /\ parsing' = IF i + k > Len(args) THEN "crashed" ELSE "threw"
    BY <1>3, <1>9
  <2>2. ParserTypeOK'
    BY <2>1, <1>1 DEF ParserTypeOK
  <2>3. Misuse' = {i}
    BY <2>1, <1>1, <1>4, Blame, Unread
  <2>4. /\ MissingAt(i)' <=> i + k > Len(args)
        /\ NoFloatAt(i)' <=> ~ (i + k > Len(args))
    BY <2>1, <1>4, <1>5, <1>7, <1>9, Unread
  <2>5. /\ (\E n \in Misuse' : MissingAt(n)' /\ args' # <<"-P">>) <=> i + k > Len(args)
        /\ (\E n \in Misuse' : NoFloatAt(n)') <=> ~ (i + k > Len(args))
    BY <2>1, <2>3, <2>4, <1>6
  <2>6. ParsesGrammar'
    BY <2>1, <2>5 DEF ParsesGrammar
  <2> QED  BY <2>1, <2>2, <2>6 DEF IInv, LastValueWins
<1> QED  BY <1>8, <1>9

LEMMA FailOptionInv ==
    ASSUME IInv, parsing = "busy", i <= Len(args), FailOption
    PROVE  IInv'
<1>1. ParserTypeOK /\ Reading /\ Bail
  BY DEF IInv, FailOption
<1>2. CASE args[i] \notin Options
  <2>1. ~Correct(i) /\ ParametersAt(i) = {} /\ args[i] \notin FloatOptions
    BY <1>2, OptionFacts, ParameterCount DEF Correct, ParametersAt
  <2> QED  BY <2>1, <1>1, BailInv DEF MissingAt, NoFloatAt
<1>3. CASE args[i] \in Options \ Flags /\ TooFew
  <2>1. /\ i \in 1 .. Len(args) /\ Len(args) \in Nat
        /\ Len(Parameters(args[i])) \in 1 .. 2
        /\ ParametersAt(i) = 1 .. Len(Parameters(args[i]))
    BY <1>1, <1>3, OptionFacts, ParameterCount DEF ParserTypeOK, ParametersAt
  <2>2. i = 1 /\ Len(args) = 1 /\ Len(Parameters(args[i])) = 2
    <3>1. ASSUME NEW a \in Nat, NEW b \in 1 .. 2, NEW c \in 1 .. a, a + 1 < 1 + b
          PROVE  c = 1 /\ a = 1 /\ b = 2
      BY <3>1
    <3>2. Len(args) + 1 < 1 + Len(Parameters(args[i]))
      BY <1>3 DEF TooFew
    <3> QED  BY <3>1, <3>2, <2>1
  <2>3. args[1] = "-P"
    BY <2>2, OptionFacts
  <2>4. args = <<"-P">>
    BY <2>2, <2>3, <1>1 DEF ParserTypeOK
  <2>5. 2 \in ParametersAt(i) /\ ~Readable(i, 2)
    BY <2>1, <2>2 DEF Readable
  <2>6. ~Correct(i) /\ args[i] \notin FloatOptions
    BY <2>2, <2>3, <2>5 DEF Correct, FloatOptions
  <2> QED  BY <2>4, <2>6, <1>1, BailInv DEF NoFloatAt
<1> QED  BY <1>2, <1>3 DEF FailOption

LEMMA FinishInv ==
    ASSUME IInv, parsing = "busy", i > Len(args), Finish
    PROVE  IInv'
<1>1. ParserTypeOK /\ Reading
  BY DEF IInv
<1>2. Read = Places /\ Misuse = {}
  BY <1>1, AllRead
<1>3. /\ args' = args /\ i' = i /\ settings' = settings /\ parsing' = "done"
      /\ IF <<"-a", 1>> \in DOMAIN settings THEN shouldExit' = shouldExit
         ELSE shouldExit' = TRUE
  BY DEF Finish, Bail
<1>4. <<"-a", 1>> \in DOMAIN settings <=> \E n \in Places : args[n] = "-a"
  <2>1. "-a" \in Options \ Flags /\ 1 \in DOMAIN Parameters("-a")
    BY OptionFacts
  <2>2. SettingsOf("-a", 1)
    BY <2>1, <1>1 DEF Reading, SettingsFollow
  <2>3. \A n : args[n] = "-a" => Stored(n, 1)
    BY OptionFacts DEF Stored
  <2> QED  BY <2>2, <2>3, <1>2 DEF SettingsOf, StoredAt
<1>5. ParserTypeOK'
  BY <1>1, <1>3 DEF ParserTypeOK
<1>6. Places' = Places /\ Misuse' = {}
  BY <1>2, <1>3, Unread
<1>7. ParsesGrammar'
  <2>1. shouldExit <=> \E n \in Places : args[n] \in {"-v", "-h"}
    BY <1>1, <1>2 DEF Reading, ExitFollows
  <2>2. ~shouldExit' <=> /\ \E n \in Places : args[n] = "-a"
                         /\ \A n \in Places : args[n] \notin {"-v", "-h"}
    BY <2>1, <1>1, <1>3, <1>4 DEF ParserTypeOK
  <2> QED  BY <2>2, <1>3, <1>6 DEF ParsesGrammar
<1>8. LastValueWins'
  <2>1. \A n, k : Stored(n, k)' <=> Stored(n, k)
    BY <1>3, Unread
  <2>2. ASSUME NEW o \in Options \ Flags, NEW k \in DOMAIN Parameters(o)
        PROVE  LET given == {n \in Places : args[n] = o /\ Stored(n, k)} IN
               /\ <<o, k>> \in DOMAIN settings <=> given # {}
               /\ \A n \in given :
                     (\A m \in given : m <= n) => settings[<<o, k>>] = args[n + k]
    BY <1>1, <1>2 DEF Reading, SettingsFollow, SettingsOf, StoredAt
  <2> QED  BY <2>1, <2>2, <1>3, <1>6 DEF LastValueWins
<1> QED  BY <1>3, <1>5, <1>7, <1>8 DEF IInv

LEMMA ParserKept ==
    ASSUME IInv, UNCHANGED parser
    PROVE  IInv'
<1>1. args' = args /\ i' = i /\ settings' = settings /\ shouldExit' = shouldExit
      /\ parsing' = parsing
  BY DEF parser
<1>2. /\ Places' = Places /\ Misuse' = Misuse
      /\ \A n : (Correct(n)' <=> Correct(n)) /\ (MissingAt(n)' <=> MissingAt(n))
      /\ \A n : NoFloatAt(n)' <=> NoFloatAt(n)
      /\ \A n, k : Stored(n, k)' <=> Stored(n, k)
  BY <1>1, Unread
<1>3. ParserTypeOK'
  BY <1>1 DEF IInv, ParserTypeOK
<1>4. Read' = Read
  BY <1>1, <1>2 DEF Read
<1>5. Reading => Reading'
  BY <1>1, <1>2, <1>4 DEF Reading, AtPlace, ReadIsCorrect, SettingsFollow, SettingsOf,
     StoredAt, ExitFollows
<1>6. ParsesGrammar'
  BY <1>1, <1>2 DEF IInv, ParsesGrammar
<1>7. LastValueWins'
  <2>1. LastValueWins
    BY DEF IInv
  <2>2. ASSUME NEW o, NEW k
        PROVE  {n \in Places' : args'[n] = o /\ Stored(n, k)'}
                  = {n \in Places : args[n] = o /\ Stored(n, k)}
    BY <1>1, <1>2
  <2>3. SUFFICES ASSUME parsing' = "done", ~shouldExit',
                        NEW o \in Options \ Flags, NEW k \in DOMAIN Parameters(o)
                 PROVE  LET given == {n \in Places' : args'[n] = o /\ Stored(n, k)'} IN
                        /\ <<o, k>> \in DOMAIN settings' <=> given # {}
                        /\ \A n \in given : (\A m \in given : m <= n) =>
                                               settings'[<<o, k>>] = args'[n + k]
    BY DEF LastValueWins
  <2>4. LET given == {n \in Places : args[n] = o /\ Stored(n, k)} IN
        /\ <<o, k>> \in DOMAIN settings <=> given # {}
        /\ \A n \in given : (\A m \in given : m <= n) => settings[<<o, k>>] = args[n + k]
    BY <2>1, <2>3, <1>1 DEF LastValueWins
  <2> QED  BY <2>2, <2>4, <1>1
<1> QED  BY <1>1, <1>3, <1>5, <1>6, <1>7 DEF IInv

LEMMA ParserNextInv ==
    ASSUME IInv, [Next]_vars
    PROVE  IInv'
<1>1. CASE ParseArguments
  <2>1. parsing = "busy"
    BY <1>1 DEF ParseArguments, Parse
  <2>2. CASE i <= Len(args) /\ ParseFlag
    BY <2>1, <2>2, ParseFlagInv
  <2>3. CASE i <= Len(args) /\ ParseParam
    BY <2>1, <2>3, ParseParamInv
  <2>4. CASE i <= Len(args) /\ FailParam
    BY <2>1, <2>4, FailParamInv
  <2>5. CASE i <= Len(args) /\ FailOption
    BY <2>1, <2>5, FailOptionInv
  <2>6. CASE i > Len(args) /\ Finish
    BY <2>1, <2>6, FinishInv
  <2> QED  BY <1>1, <2>2, <2>3, <2>4, <2>5, <2>6 DEF ParseArguments, Parse
<1>2. CASE EndAtParser
  BY <1>2, ParserKept DEF EndAtParser, End
<1>3. CASE LaunchSender
  BY <1>3, ParserKept DEF LaunchSender, End
<1>4. CASE LaunchReceiver
  BY <1>4, ParserKept DEF LaunchReceiver, End
<1>5. CASE Run
  BY <1>5, ParserKept DEF Run
<1>6. CASE UNCHANGED vars
  BY <1>6, ParserKept DEF vars
<1> QED  BY <1>1, <1>2, <1>3, <1>4, <1>5, <1>6 DEF Next
-----------------------------------------------------------------------------
(* The theorems.                                                           *)

\* The invariant of the parser: the counter is at an option of the grammar or behind
\* the last argument, never at a value and never further, and the members are what
\* the options before it say (command_line.cpp 33-138).
THEOREM Invariance == Spec => []IInv
<1>1. IInv /\ [Next]_vars => IInv'
  BY ParserNextInv
<1> QED  BY <1>1, ParserInitInv, PTL DEF Spec

\* The parser takes, refuses and fails on exactly the command lines the grammar says,
\* for arguments of any number and any words (command_line.cpp 33-72, 81-138).
THEOREM ParserIsRight == Spec => []ParsesGrammar
<1>1. IInv => ParsesGrammar
  BY DEF IInv
<1> QED  BY <1>1, Invariance, PTL

\* Every member ends up as the last value given for it that fits
\* (command_line.cpp 47-69, 94-124).
THEOREM LastOneCounts == Spec => []LastValueWins
<1>1. IInv => LastValueWins
  BY DEF IInv
<1> QED  BY <1>1, Invariance, PTL
-----------------------------------------------------------------------------
(* Powers.                                                                 *)

\* f holds the powers up to n.
PowersTo(n, f) == f = [j \in 0 .. n |-> IF j = 0 THEN 1 ELSE Base * f[j - 1]]

LEMMA PowersAgree ==
    ASSUME NEW n \in Nat, NEW m \in Nat, NEW f, NEW g, PowersTo(n, f), PowersTo(m, g)
    PROVE  \A k \in Nat : k <= n /\ k <= m => f[k] = g[k]
<1> DEFINE T == {k \in Nat : k <= n /\ k <= m /\ f[k] # g[k]}
<1> SUFFICES ASSUME T # {} PROVE FALSE
  OBVIOUS
<1>1. PICK k \in T : \A l \in T : k <= l
  <2>1. T \in SUBSET Nat
    OBVIOUS
  <2> HIDE DEF T
  <2> QED  BY <2>1, LeastNumber
<1>2. /\ f[k] = IF k = 0 THEN 1 ELSE Base * f[k - 1]
      /\ g[k] = IF k = 0 THEN 1 ELSE Base * g[k - 1]
  BY DEF PowersTo
<1>3. CASE k = 0
  BY <1>2, <1>3
<1>4. CASE k # 0
  <2>1. k - 1 \in Nat /\ k - 1 <= n /\ k - 1 <= m /\ ~(k <= k - 1)
    BY <1>4
  <2>2. f[k - 1] = g[k - 1]
    BY <1>1, <2>1
  <2> QED  BY <1>2, <1>4, <2>2
<1> QED  BY <1>3, <1>4

LEMMA PowersExist == \A n \in Nat : \E f : PowersTo(n, f)
<1> DEFINE T == {n \in Nat : ~ \E f : PowersTo(n, f)}
<1> SUFFICES ASSUME T # {} PROVE FALSE
  OBVIOUS
<1>1. PICK n \in T : \A m \in T : n <= m
  <2>1. T \in SUBSET Nat
    OBVIOUS
  <2> HIDE DEF T
  <2> QED  BY <2>1, LeastNumber
<1>2. CASE n = 0
  <2> DEFINE f == [j \in 0 .. 0 |-> 1]
  <2>1. PowersTo(0, f)
    BY DEF PowersTo
  <2> QED  BY <1>2, <2>1
<1>3. CASE n # 0
  <2>1. n - 1 \in Nat /\ ~(n <= n - 1)
    BY <1>3
  <2>2. PICK g : PowersTo(n - 1, g)
    BY <1>1, <2>1
  <2> DEFINE f == [j \in 0 .. n |-> IF j = n THEN Base * g[n - 1] ELSE g[j]]
  <2>3. ASSUME NEW j \in 0 .. n
        PROVE  f[j] = IF j = 0 THEN 1 ELSE Base * f[j - 1]
    <3>1. CASE j = n
      BY <1>3, <3>1
    <3>2. CASE j # n
      <4>1. j \in 0 .. n - 1
        BY <3>2
      <4>2. g[j] = IF j = 0 THEN 1 ELSE Base * g[j - 1]
        BY <2>2, <4>1 DEF PowersTo
      <4> QED  BY <4>1, <4>2
    <3> QED  BY <3>1, <3>2
  <2>4. f = [j \in 0 .. n |-> f[j]]
    OBVIOUS
  <2>5. PowersTo(n, f)
    <3> HIDE DEF f
    <3> QED  BY <2>3, <2>4 DEF PowersTo
  <2> QED  BY <2>5
<1> QED  BY <1>2, <1>3

LEMMA PowerFacts ==
    /\ Power[0] = 1
    /\ \A k \in Nat : Power[k + 1] = Base * Power[k]
<1> DEFINE f(n) == CHOOSE h : PowersTo(n, h)
           all  == [k \in Nat |-> f(k)[k]]
<1>1. \A n \in Nat : PowersTo(n, f(n))
  BY PowersExist
<1> HIDE DEF f
<1>2. ASSUME NEW k \in Nat
      PROVE  all[k] = IF k = 0 THEN 1 ELSE Base * all[k - 1]
  <2>1. f(k)[k] = IF k = 0 THEN 1 ELSE Base * f(k)[k - 1]
    BY <1>1 DEF PowersTo
  <2>2. CASE k # 0
    <3>1. k - 1 \in Nat /\ k - 1 <= k /\ k - 1 <= k - 1
      BY <2>2
    <3>2. PowersTo(k, f(k)) /\ PowersTo(k - 1, f(k - 1))
      BY <1>1, <3>1
    <3>3. f(k)[k - 1] = f(k - 1)[k - 1]
      BY <3>1, <3>2, PowersAgree
    <3> QED  BY <2>1, <2>2, <3>1, <3>3
  <2> QED  BY <2>1, <2>2
<1>3. all = [k \in Nat |-> IF k = 0 THEN 1 ELSE Base * all[k - 1]]
  <2>1. all = [k \in Nat |-> all[k]]
    OBVIOUS
  <2> HIDE DEF all
  <2> QED  BY <1>2, <2>1
<1> HIDE DEF all
<1>4. Power = [k \in Nat |-> IF k = 0 THEN 1 ELSE Base * Power[k - 1]]
  BY <1>3 DEF Power
<1>5. ASSUME NEW k \in Nat PROVE Power[k + 1] = Base * Power[k]
  BY <1>4
<1> QED  BY <1>4, <1>5

LEMMA PowerPositive == \A k \in Nat : Power[k] \in Nat \ {0}
<1> DEFINE T == {k \in Nat : Power[k] \notin Nat \ {0}}
<1> SUFFICES ASSUME T # {} PROVE FALSE
  OBVIOUS
<1>1. PICK n \in T : \A m \in T : n <= m
  <2>1. T \in SUBSET Nat
    OBVIOUS
  <2> HIDE DEF T
  <2> QED  BY <2>1, LeastNumber
<1>2. n \in Nat /\ n # 0 /\ Power[n] \notin Nat \ {0}
  BY PowerFacts
<1>3. n - 1 \in Nat /\ ~(n <= n - 1)
  BY <1>2
<1>4. Power[n - 1] \in Nat \ {0}
  BY <1>1, <1>3
<1>5. Power[n] = Base * Power[n - 1]
  BY <1>2, <1>3, PowerFacts
<1>6. Base \in Nat \ {0}
  BY InfoAssumption DEF InfoAssumption
<1>7. Base * Power[n - 1] \in Nat /\ Base * Power[n - 1] # 0
  BY <1>4, <1>6
<1> QED  BY <1>2, <1>5, <1>7
-----------------------------------------------------------------------------
(* Division.                                                               *)

LEMMA TimesMonotonic ==
    ASSUME NEW a \in Nat, NEW b \in Nat, a <= b, NEW d \in Nat
    PROVE  a * d <= b * d
<1>1. PICK c \in Nat : b = a + c
  <2>1. b - a \in Nat /\ b = a + (b - a)
    OBVIOUS
  <2> QED  BY <2>1
<1>2. (a + c) * d = a * d + c * d /\ c * d \in Nat /\ a * d \in Nat
  OBVIOUS
<1> QED  BY <1>1, <1>2

LEMMA QuotientFacts ==
    ASSUME NEW n \in Nat, NEW d \in Nat \ {0}
    PROVE  /\ n \div d \in Nat /\ n % d \in 0 .. d - 1
           /\ n = (n \div d) * d + (n % d)
           /\ (n \div d) * d <= n /\ n < ((n \div d) + 1) * d
<1>1. n \div d \in Nat /\ n % d \in 0 .. d - 1
  OBVIOUS
<1>2. n = (n \div d) * d + (n % d)
  OBVIOUS
<1>3. ASSUME NEW q \in Nat, NEW r \in 0 .. d - 1, n = q * d + r
      PROVE  n = q * d + r /\ q * d <= n /\ n < (q + 1) * d
  <2>1. q * d \in Nat /\ (q + 1) * d = q * d + d
    OBVIOUS
  <2> QED  BY <1>3, <2>1
<1> QED  BY <1>1, <1>2, <1>3

LEMMA QuotientUnique ==
    ASSUME NEW n \in Nat, NEW d \in Nat \ {0}, NEW q \in Nat, q * d <= n, n < (q + 1) * d
    PROVE  n \div d = q
<1> DEFINE p == n \div d
<1>1. p \in Nat /\ p * d <= n /\ n < (p + 1) * d
  BY QuotientFacts
<1> HIDE DEF p
<1>2. q * d \in Nat /\ p * d \in Nat /\ (q + 1) * d \in Nat /\ (p + 1) * d \in Nat
  BY <1>1
<1>3. ~(p < q)
  <2> SUFFICES ASSUME p < q PROVE FALSE
    OBVIOUS
  <2>1. p + 1 <= q /\ p + 1 \in Nat
    BY <1>1
  <2>2. (p + 1) * d <= q * d
    BY <2>1, TimesMonotonic
  <2> QED  BY <1>1, <1>2, <2>2
<1>4. ~(q < p)
  <2> SUFFICES ASSUME q < p PROVE FALSE
    OBVIOUS
  <2>1. q + 1 <= p /\ q + 1 \in Nat
    BY <1>1
  <2>2. (q + 1) * d <= p * d
    BY <2>1, <1>1, TimesMonotonic
  <2> QED  BY <1>1, <1>2, <2>2
<1>5. p = q
  BY <1>1, <1>3, <1>4
<1> QED  BY <1>5 DEF p

LEMMA QuotientTwice ==
    ASSUME NEW n \in Nat, NEW d \in Nat \ {0}, NEW b \in Nat \ {0}
    PROVE  n \div (b * d) = (n \div d) \div b
<1> DEFINE q == n \div d
           e == q \div b
<1>1. q \in Nat /\ q * d <= n /\ n < (q + 1) * d
  BY QuotientFacts
<1>2. e \in Nat /\ e * b <= q /\ q < (e + 1) * b
  <2> HIDE DEF q
  <2> QED  BY <1>1, QuotientFacts
<1> HIDE DEF q, e
<1>3. e * b \in Nat /\ (e + 1) * b \in Nat /\ b * d \in Nat \ {0}
  BY <1>2
<1>4. (e * b) * d <= q * d
  BY <1>1, <1>2, <1>3, TimesMonotonic
<1>5. (q + 1) * d <= ((e + 1) * b) * d
  <2>1. q + 1 <= (e + 1) * b /\ q + 1 \in Nat
    BY <1>1, <1>2, <1>3
  <2> QED  BY <2>1, <1>3, TimesMonotonic
<1>6. (e * b) * d = e * (b * d) /\ ((e + 1) * b) * d = (e + 1) * (b * d)
  BY <1>2
<1>7. e * (b * d) <= n /\ n < (e + 1) * (b * d)
  <2>1. /\ q * d \in Nat /\ (q + 1) * d \in Nat /\ (e * b) * d \in Nat
        /\ ((e + 1) * b) * d \in Nat
    BY <1>1, <1>3
  <2> QED  BY <2>1, <1>1, <1>4, <1>5, <1>6
<1>8. n \div (b * d) = e
  BY <1>2, <1>3, <1>7, QuotientUnique
<1> QED  BY <1>8 DEF q, e
-----------------------------------------------------------------------------
(* Numbers.                                                                *)

Bytes == 0 .. Base - 1

\* A number that fits in its field comes out of it as it went in.
LEMMA DigitsFacts ==
    ASSUME NEW n \in Nat, NEW field \in Nat, n < Power[field]
    PROVE  Digits(n, field) \in [1 .. field -> Bytes] /\ Number(Digits(n, field)) = n
<1> DEFINE S == 1 .. field
           d == Digits(n, field)
           g == [k \in S |-> d[k] * Power[k - 1]]
           q(k) == n \div Power[k]
<1>1. Base \in Nat \ {0}
  BY InfoAssumption DEF InfoAssumption
<1>2. \A k \in Nat : q(k) \in Nat /\ q(k) * Power[k] <= n
  BY PowerPositive, QuotientFacts
<1>3. ASSUME NEW k \in S
      PROVE  /\ k - 1 \in Nat /\ k \in Nat /\ Power[k] = Base * Power[k - 1]
             /\ d[k] = q(k - 1) % Base /\ d[k] \in Bytes
             /\ q(k) = q(k - 1) \div Base
             /\ q(k - 1) = q(k) * Base + d[k]
  <2>1. k - 1 \in Nat /\ k \in Nat /\ (k - 1) + 1 = k
    OBVIOUS
  <2>2. Power[k] = Base * Power[k - 1]
    BY <2>1, PowerFacts
  <2>3. d[k] = q(k - 1) % Base
    BY DEF Digits
  <2>4. Power[k - 1] \in Nat \ {0}
    BY <2>1, PowerPositive
  <2>5. q(k) = q(k - 1) \div Base
    BY <1>1, <2>2, <2>4, QuotientTwice
  <2>6. q(k - 1) \in Nat
    BY <1>2, <2>1
  <2> HIDE DEF q, d
  <2>7. PICK m \in Nat : m = q(k - 1)
    BY <2>6
  <2>8. m % Base \in 0 .. Base - 1 /\ m = (m \div Base) * Base + (m % Base)
    BY <1>1, QuotientFacts
  <2> QED  BY <2>1, <2>2, <2>3, <2>5, <2>7, <2>8 DEF Bytes
<1>4. d \in [1 .. field -> Bytes]
  <2>1. d = [k \in 1 .. field |-> d[k]]
    BY DEF Digits
  <2> HIDE DEF d
  <2> QED  BY <1>3, <2>1
<1>5. Number(d) = Sum(g)
  <2>1. DOMAIN d = S
    BY DEF Digits
  <2> HIDE DEF d
  <2> QED  BY <2>1 DEF Number, Sum
<1>6. \A k \in S : g[k] = d[k] * Power[k - 1] /\ g[k] \in Nat
  <2> SUFFICES ASSUME NEW k \in S PROVE g[k] = d[k] * Power[k - 1] /\ g[k] \in Nat
    OBVIOUS
  <2>1. d[k] \in Nat
    BY <1>3, <1>1 DEF Bytes
  <2>2. Power[k - 1] \in Nat
    BY <1>3, PowerPositive
  <2> HIDE DEF d
  <2> QED  BY <2>1, <2>2
<1>7. g \in [S -> Nat] /\ IsFiniteSet(S)
  <2>1. IsFiniteSet(S)
    BY FS_Interval
  <2>2. g = [k \in S |-> g[k]]
    OBVIOUS
  <2> HIDE DEF g
  <2> QED  BY <1>6, <2>1, <2>2
<1> DEFINE sum == SumOf(S, g)
<1> HIDE DEF g, d, q
<1>8. SumsUp(S, g)
  BY <1>7, SumFacts
<1>9. /\ Sum(g) = sum[S]
      /\ sum[{}] = 0
      /\ \A T \in SUBSET S : sum[T] \in Nat
      /\ \A T \in SUBSET S : \A y \in T : sum[T] = g[y] + sum[T \ {y}]
  BY <1>8 DEF SumsUp
<1> HIDE DEF sum
<1> DEFINE F == {k \in 0 .. field : sum[1 .. k] # n - q(k) * Power[k]}
<1>10. F = {}
  <2> SUFFICES ASSUME F # {} PROVE FALSE
    OBVIOUS
  <2>1. PICK k \in F : \A l \in F : k <= l
    <3>1. F \in SUBSET Nat
      OBVIOUS
    <3> HIDE DEF F
    <3> QED  BY <3>1, LeastNumber
  <2>2. k \in 0 .. field /\ sum[1 .. k] # n - q(k) * Power[k]
    OBVIOUS
  <2>3. k # 0
    <3>1. 1 .. 0 = {} /\ n \div 1 = n
      OBVIOUS
    <3>2. q(0) = n /\ Power[0] = 1
      BY <3>1, PowerFacts DEF q
    <3>3. n - n * 1 = 0
      OBVIOUS
    <3> QED  BY <1>9, <2>2, <3>1, <3>2, <3>3
  <2>4. k \in S /\ k - 1 \in 0 .. field /\ ~(k <= k - 1)
    BY <2>2, <2>3
  <2>5. sum[1 .. k - 1] = n - q(k - 1) * Power[k - 1]
    BY <2>1, <2>4
  <2>6. 1 .. k \in SUBSET S /\ k \in 1 .. k /\ (1 .. k) \ {k} = 1 .. k - 1
    <3>1. k \in 1 .. field
      BY <2>4
    <3> HIDE DEF F
    <3> QED  BY <3>1
  <2>7. sum[1 .. k] = g[k] + sum[1 .. k - 1]
    <3> HIDE DEF F
    <3>1. sum[1 .. k] = g[k] + sum[(1 .. k) \ {k}]
      <4> HIDE DEF S
      <4> QED  BY <1>9, <2>6
    <3> QED  BY <2>6, <3>1
  <2>8. /\ q(k - 1) = q(k) * Base + d[k]
        /\ g[k] = d[k] * Power[k - 1]
        /\ Power[k] = Base * Power[k - 1]
    BY <1>3, <1>6, <2>4
  <2>9. q(k) \in Nat /\ d[k] \in Nat /\ Power[k - 1] \in Nat
    <3>1. k \in Nat /\ k - 1 \in Nat /\ d[k] \in Bytes
      BY <1>3, <2>4
    <3> HIDE DEF F
    <3> QED  BY <1>1, <1>2, <3>1, PowerPositive DEF Bytes
  <2>10. (q(k) * Base + d[k]) * Power[k - 1] = q(k) * (Base * Power[k - 1]) + d[k] * Power[k - 1]
    BY <1>1, <2>9
  <2>11. q(k) * (Base * Power[k - 1]) \in Nat /\ d[k] * Power[k - 1] \in Nat
    BY <1>1, <2>9
  <2> HIDE DEF F
  <2> QED  BY <2>2, <2>5, <2>7, <2>8, <2>10, <2>11
<1>11. q(field) = 0
  <2>1. 0 * Power[field] <= n /\ n < (0 + 1) * Power[field] /\ Power[field] \in Nat \ {0}
    BY PowerPositive
  <2> QED  BY <2>1, QuotientUnique DEF q
<1>12. sum[S] = n
  <2>1. sum[1 .. field] = n - q(field) * Power[field]
    BY <1>10
  <2>2. Power[field] \in Nat
    BY PowerPositive
  <2> QED  BY <1>11, <2>1, <2>2
<1> QED  BY <1>4, <1>5, <1>9, <1>12 DEF d
-----------------------------------------------------------------------------
(* Sequences.                                                              *)

\* A part that lies within its sequence, and its elements.
Within(S, s, o, n) == s \in Seq(S) /\ o \in Nat /\ n \in Nat /\ o + n <= Len(s)

IsPart(t, S, s, o, n) == t \in Seq(S) /\ Len(t) = n /\ \A j \in 1 .. n : t[j] = s[o + j]

LEMMA SlicePart ==
    ASSUME NEW S, NEW s \in Seq(S), NEW o \in Nat, NEW n \in Nat, o + n <= Len(s)
    PROVE  IsPart(Slice(s, o, n), S, s, o, n)
<1>1. Len(s) \in Nat
  OBVIOUS
<1>2. Slice(s, o, n) = SubSeq(s, o + 1, o + n)
  <2>1. (IF o + n < Len(s) THEN o + n ELSE Len(s)) = o + n
    BY <1>1
  <2> QED  BY <2>1 DEF Slice
<1>3. \A j \in o + 1 .. o + n : s[j] \in S
  BY <1>1
<1>4. /\ SubSeq(s, o + 1, o + n) \in Seq(S)
      /\ Len(SubSeq(s, o + 1, o + n)) = IF o + 1 <= o + n THEN o + n - (o + 1) + 1 ELSE 0
      /\ \A j \in 1 .. o + n - (o + 1) + 1 : SubSeq(s, o + 1, o + n)[j] = s[o + 1 + j - 1]
  BY <1>3, SubSeqProperties
<1>5. Len(SubSeq(s, o + 1, o + n)) = n
  BY <1>4
<1>6. ASSUME NEW j \in 1 .. n PROVE SubSeq(s, o + 1, o + n)[j] = s[o + j]
  <2>1. j \in 1 .. o + n - (o + 1) + 1 /\ o + 1 + j - 1 = o + j
    OBVIOUS
  <2>2. SubSeq(s, o + 1, o + n)[j] = s[o + 1 + j - 1]
    BY <1>4, <2>1
  <2> QED  BY <2>1, <2>2
<1> QED  BY <1>2, <1>4, <1>5, <1>6 DEF IsPart

LEMMA SliceIsPart ==
    ASSUME NEW S, NEW s, NEW o, NEW n, Within(S, s, o, n)
    PROVE  IsPart(Slice(s, o, n), S, s, o, n)
<1>1. s \in Seq(S) /\ o \in Nat /\ n \in Nat /\ o + n <= Len(s)
  BY DEF Within
<1> QED  BY <1>1, SlicePart

\* Sequences put together give what their beginnings give, put together one by one.
LEMMA FlattenIs ==
    ASSUME NEW ss, Len(ss) \in Nat \ {0}, NEW f,
           \A k \in 1 .. Len(ss) : f[k] = IF k = 1 THEN ss[1] ELSE f[k - 1] \o ss[k]
    PROVE  FlattenSeq(ss) = f[Len(ss)]
<1> DEFINE I == 1 .. Len(ss)
           Together(h) == h = [e \in I |-> IF e = 1 THEN ss[e] ELSE h[e - 1] \o ss[e]]
           h0 == [e \in I |-> f[e]]
<1>1. Together(h0)
  <2>1. ASSUME NEW e \in I
        PROVE  h0[e] = IF e = 1 THEN ss[e] ELSE h0[e - 1] \o ss[e]
    <3>1. CASE e = 1
      BY <3>1
    <3>2. CASE e # 1
      <4>1. e - 1 \in I
        BY <3>2
      <4> QED  BY <3>2, <4>1
    <3> QED  BY <3>1, <3>2
  <2>2. h0 = [e \in I |-> h0[e]]
    OBVIOUS
  <2> HIDE DEF h0, I
  <2> QED  BY <2>1, <2>2
<1>2. FlattenSeq(ss) = (CHOOSE h : Together(h))[Len(ss)]
  BY DEF FlattenSeq
<1> DEFINE h1 == CHOOSE h : Together(h)
<1>3. Together(h1)
  <2> HIDE DEF Together, h0
  <2> QED  BY <1>1
<1> DEFINE T == {e \in I : h1[e] # f[e]}
<1> HIDE DEF h1, h0
<1>4. T = {}
  <2> SUFFICES ASSUME T # {} PROVE FALSE
    OBVIOUS
  <2>1. PICK k \in T : \A l \in T : k <= l
    <3>1. T \in SUBSET Nat
      OBVIOUS
    <3> HIDE DEF T
    <3> QED  BY <3>1, LeastNumber
  <2>2. k \in I /\ h1[k] # f[k]
    OBVIOUS
  <2>3. h1[k] = IF k = 1 THEN ss[k] ELSE h1[k - 1] \o ss[k]
    BY <1>3, <2>2
  <2>4. k # 1
    BY <2>2, <2>3
  <2>5. k - 1 \in I /\ ~(k <= k - 1)
    BY <2>2, <2>4
  <2>6. h1[k - 1] = f[k - 1]
    BY <2>1, <2>5
  <2> QED  BY <2>2, <2>3, <2>4, <2>6
<1>5. Len(ss) \in I
  OBVIOUS
<1> QED  BY <1>2, <1>4, <1>5 DEF h1

\* Cut into pieces of n, the last one perhaps shorter, L bytes are so many.
LEMMA PieceFacts ==
    ASSUME NEW L \in Nat \ {0}, NEW n \in Nat \ {0}
    PROVE  LET q == FullPieces(L, n) IN
           /\ q \in Nat /\ q * n \in Nat /\ q * n < L /\ L <= q * n + n
           /\ \A k \in 0 .. q : k * n \in Nat /\ k * n <= q * n
           /\ \A k \in 0 .. q - 1 : k * n + n <= q * n
<1> DEFINE q == FullPieces(L, n)
<1>1. q = (L - 1) \div n
  BY DEF FullPieces
<1>2. q \in Nat /\ q * n <= L - 1 /\ L - 1 < (q + 1) * n
  <2>1. L - 1 \in Nat
    OBVIOUS
  <2> HIDE DEF q
  <2> QED  BY <1>1, <2>1, QuotientFacts
<1> HIDE DEF q
<1>3. q * n \in Nat /\ (q + 1) * n = q * n + n
  BY <1>2
<1>4. ASSUME NEW k \in 0 .. q PROVE k * n \in Nat /\ k * n <= q * n
  <2>1. k \in Nat /\ k <= q
    BY <1>2
  <2> QED  BY <1>2, <2>1, TimesMonotonic
<1>5. ASSUME NEW k \in 0 .. q - 1 PROVE k * n + n <= q * n
  <2>1. k + 1 \in Nat /\ k + 1 <= q /\ k \in Nat
    BY <1>2
  <2>2. (k + 1) * n <= q * n
    BY <1>2, <2>1, TimesMonotonic
  <2>3. (k + 1) * n = k * n + n
    BY <2>1
  <2> QED  BY <2>2, <2>3
<1>6. /\ q \in Nat /\ q * n \in Nat /\ q * n < L /\ L <= q * n + n
      /\ \A k \in 0 .. q : k * n \in Nat /\ k * n <= q * n
      /\ \A k \in 0 .. q - 1 : k * n + n <= q * n
  BY <1>2, <1>3, <1>4, <1>5
<1> QED  BY <1>6 DEF q

LEMMA SliceOn ==
    ASSUME NEW S, NEW s \in Seq(S), NEW a \in Nat, a <= Len(s), NEW n \in Nat
    PROVE  Slice(s, 0, a) \o Slice(s, a, n) = Slice(s, 0, a + n)
<1> DEFINE b == IF a + n < Len(s) THEN a + n ELSE Len(s)
<1>1. Len(s) \in Nat /\ b \in a .. Len(s)
  OBVIOUS
<1>2. Slice(s, 0, a) = SubSeq(s, 1, a)
  <2>1. 0 + 1 = 1 /\ (IF 0 + a < Len(s) THEN 0 + a ELSE Len(s)) = a
    BY <1>1
  <2> QED  BY <2>1 DEF Slice
<1>3. Slice(s, a, n) = SubSeq(s, a + 1, b)
  BY DEF Slice
<1>4. Slice(s, 0, a + n) = SubSeq(s, 1, b)
  <2>1. 0 + 1 = 1 /\ (IF 0 + (a + n) < Len(s) THEN 0 + (a + n) ELSE Len(s)) = b
    BY <1>1
  <2> QED  BY <2>1 DEF Slice
<1> HIDE DEF b
<1>5. SubSeq(s, 1, a) \o SubSeq(s, a + 1, b) = SubSeq(s, 1, b)
  <2>1. 1 \in 1 .. Len(s) + 1 /\ a \in 1 - 1 .. Len(s) /\ b \in a .. Len(s)
    BY <1>1
  <2> QED  BY <2>1, ConcatAdjacentSubSeq
<1> QED  BY <1>2, <1>3, <1>4, <1>5

\* The SHA1 library is fed all the bytes, in their order, whatever the pieces.
LEMMA HashedIs ==
    ASSUME NEW S, NEW s \in Seq(S), s # <<>>
    PROVE  Hashed(s) = s
<1> DEFINE L == Len(s)
           q == FullPieces(L, HashPiece)
           ss == [k \in 1 .. q + 1 |-> Slice(s, (k - 1) * HashPiece, HashPiece)]
           f  == [k \in 1 .. q + 1 |-> Slice(s, 0, k * HashPiece)]
<1>1. L \in Nat \ {0} /\ HashPiece \in Nat \ {0}
  BY InfoAssumption DEF InfoAssumption
<1>2. /\ q \in Nat /\ q * HashPiece \in Nat /\ q * HashPiece < L
      /\ L <= q * HashPiece + HashPiece
      /\ \A k \in 0 .. q : k * HashPiece \in Nat /\ k * HashPiece <= q * HashPiece
  <2> HIDE DEF L
  <2> QED  BY <1>1, PieceFacts
<1>3. Hashed(s) = FlattenSeq(ss)
  BY DEF Hashed
<1> HIDE DEF q
<1>4. Len(ss) = q + 1
  BY <1>2
<1>5. ASSUME NEW k \in 1 .. q + 1
      PROVE  f[k] = IF k = 1 THEN ss[1] ELSE f[k - 1] \o ss[k]
  <2> DEFINE a == (k - 1) * HashPiece
  <2>1. k - 1 \in 0 .. q
    BY <1>2
  <2>2. a \in Nat /\ a <= L /\ k * HashPiece = a + HashPiece
    <3>1. k * HashPiece = (k - 1) * HashPiece + HashPiece
      BY <1>1
    <3>2. (k - 1) * HashPiece \in Nat /\ (k - 1) * HashPiece <= q * HashPiece
      BY <1>2, <2>1
    <3> HIDE DEF L
    <3> QED  BY <1>1, <1>2, <3>1, <3>2
  <2>3. ss[k] = Slice(s, a, HashPiece) /\ f[k] = Slice(s, 0, k * HashPiece)
    OBVIOUS
  <2>4. CASE k = 1
    <3>1. (1 - 1) * HashPiece = 0 /\ 1 * HashPiece = HashPiece
      BY <1>1
    <3> QED  BY <2>3, <2>4, <3>1
  <2>5. CASE k # 1
    <3>1. k - 1 \in 1 .. q + 1
      BY <2>1, <2>5, <1>2
    <3>2. f[k - 1] = Slice(s, 0, a)
      BY <3>1
    <3> HIDE DEF a, f, ss
    <3>3. Slice(s, 0, a) \o Slice(s, a, HashPiece) = Slice(s, 0, a + HashPiece)
      BY <1>1, <2>2, SliceOn
    <3> QED  BY <2>2, <2>3, <2>5, <3>2, <3>3
  <2> QED  BY <2>4, <2>5
<1>6. f[q + 1] = s
  <2>1. q + 1 \in 1 .. q + 1
    BY <1>2
  <2>2. (q + 1) * HashPiece = q * HashPiece + HashPiece
    BY <1>1, <1>2
  <2>3. f[q + 1] = SubSeq(s, 0 + 1, L)
    <3>1. ~(0 + (q + 1) * HashPiece < Len(s))
      BY <1>1, <1>2, <2>2
    <3> QED  BY <2>1, <3>1 DEF Slice
  <2>4. SubSeq(s, 1, L) = s
    BY SubSeqFull
  <2> HIDE DEF f, L
  <2> QED  BY <2>3, <2>4
<1> HIDE DEF f, ss
<1>7. FlattenSeq(ss) = f[Len(ss)]
  <2>1. Len(ss) \in Nat \ {0}
    BY <1>2, <1>4
  <2> QED  BY <1>4, <1>5, <2>1, FlattenIs
<1> QED  BY <1>3, <1>4, <1>6, <1>7

\* Different bytes have different hashes.
LEMMA HashInjective ==
    ASSUME NEW S, NEW s \in Seq(S), s # <<>>, NEW t \in Seq(S), t # <<>>, Hash(s) = Hash(t)
    PROVE  s = t
<1>1. 1 \in 1 .. HashField
  BY InfoAssumption DEF InfoAssumption
<1>2. Hash(s)[1] = <<1, Hashed(s)>> /\ Hash(t)[1] = <<1, Hashed(t)>>
  BY <1>1 DEF Hash
<1>3. Hashed(s) = Hashed(t)
  BY <1>2
<1> QED  BY <1>3, HashedIs

LEMMA EvenPlace ==
    ASSUME NEW c \in Nat, NEW n \in Nat \ {0}, NEW j \in 1 .. n
    PROVE  /\ c * n + j - 1 \in Nat /\ c * n \in Nat
           /\ (c * n + j - 1) \div n = c /\ (c * n + j - 1) % n = j - 1
<1>1. c * n \in Nat /\ (c + 1) * n = c * n + n
  OBVIOUS
<1>2. c * n + j - 1 \in Nat /\ c * n <= c * n + j - 1 /\ c * n + j - 1 < (c + 1) * n
  BY <1>1
<1>3. (c * n + j - 1) \div n = c
  BY <1>2, QuotientUnique
<1>4. c * n + j - 1 = ((c * n + j - 1) \div n) * n + ((c * n + j - 1) % n)
  BY <1>2, QuotientFacts
<1>5. (c * n + j - 1) % n \in 0 .. n - 1
  BY <1>2, QuotientFacts
<1>6. c * n + j - 1 = c * n + ((c * n + j - 1) % n)
  BY <1>3, <1>4
<1> QED  BY <1>1, <1>2, <1>3, <1>5, <1>6

\* Sequences of n elements each: the elements of each stand behind those of the
\* ones before.
LEMMA FlattenEven ==
    ASSUME NEW X, NEW ss \in Seq(Seq(X)), ss # <<>>, NEW n \in Nat \ {0},
           \A k \in DOMAIN ss : Len(ss[k]) = n
    PROVE  /\ FlattenSeq(ss) \in Seq(X)
           /\ Len(FlattenSeq(ss)) = Len(ss) * n
           /\ \A k \in 1 .. Len(ss) : \A j \in 1 .. n :
                 FlattenSeq(ss)[(k - 1) * n + j] = ss[k][j]
<1> DEFINE N == Len(ss)
           at(x) == ss[((x - 1) \div n) + 1][((x - 1) % n) + 1]
           f == [k \in 1 .. N |-> [x \in 1 .. k * n |-> at(x)]]
<1>1. N \in Nat \ {0} /\ DOMAIN ss = 1 .. N
  OBVIOUS
<1> HIDE DEF N
<1>2. ASSUME NEW k \in 1 .. N, NEW j \in 1 .. n
      PROVE  at((k - 1) * n + j) = ss[k][j] /\ ss[k][j] \in X
  <2>1. k - 1 \in Nat /\ (k - 1) + 1 = k /\ (j - 1) + 1 = j
    BY <1>1
  <2>2. /\ ((k - 1) * n + j - 1) \div n = k - 1
        /\ ((k - 1) * n + j - 1) % n = j - 1
    BY <2>1, EvenPlace
  <2>3. ss[k] \in Seq(X) /\ Len(ss[k]) = n
    BY <1>1
  <2>4. ss[k][j] \in X
    BY <2>3
  <2>5. PICK x \in Int : x = (k - 1) * n + j
    BY <2>1
  <2>6. (x - 1) \div n + 1 = k /\ ((x - 1) % n) + 1 = j
    BY <2>1, <2>2, <2>5
  <2> QED  BY <2>4, <2>5, <2>6
<1>3. ASSUME NEW k \in 1 .. N, NEW x \in 1 .. k * n
      PROVE  \E c \in 1 .. k : \E j \in 1 .. n : x = (c - 1) * n + j
  <2> DEFINE c == (x - 1) \div n
             r == (x - 1) % n
  <2>1. k * n \in Nat /\ k \in Nat /\ x \in Nat /\ x - 1 \in Nat /\ x <= k * n
    BY <1>1
  <2>2. c \in Nat /\ r \in 0 .. n - 1 /\ x - 1 = c * n + r
    BY <2>1, QuotientFacts
  <2> HIDE DEF c, r
  <2>3. c * n \in Nat
    BY <2>2
  <2>4. ~(k <= c)
    <3> SUFFICES ASSUME k <= c PROVE FALSE
      OBVIOUS
    <3>1. k * n <= c * n
      BY <2>1, <2>2, TimesMonotonic
    <3>2. ASSUME NEW p \in Nat, NEW m \in Nat, p <= m, x <= p, x - 1 = m + r PROVE FALSE
      BY <2>1, <2>2, <3>2
    <3> QED  BY <2>1, <2>2, <2>3, <3>1, <3>2
  <2>5. c + 1 \in 1 .. k /\ r + 1 \in 1 .. n /\ (c + 1) - 1 = c /\ x = c * n + (r + 1)
    BY <2>1, <2>2, <2>3, <2>4
  <2> QED  BY <2>5
<1>4. ASSUME NEW k \in 1 .. N
      PROVE  /\ k * n \in Nat /\ f[k] \in Seq(X) /\ Len(f[k]) = k * n
             /\ \A x \in 1 .. k * n : f[k][x] = at(x)
  <2>1. k \in Nat /\ k * n \in Nat
    BY <1>1
  <2>2. f[k] = [x \in 1 .. k * n |-> at(x)]
    OBVIOUS
  <2>3. ASSUME NEW x \in 1 .. k * n PROVE at(x) \in X
    <3>1. PICK c \in 1 .. k : \E j \in 1 .. n : x = (c - 1) * n + j
      BY <1>3
    <3>2. PICK j \in 1 .. n : x = (c - 1) * n + j
      BY <3>1
    <3>3. c \in 1 .. N
      BY <1>1
    <3>4. at((c - 1) * n + j) \in X
      BY <1>2, <3>3
    <3> HIDE DEF at
    <3> QED  BY <3>2, <3>4
  <2> HIDE DEF at, f
  <2>4. f[k] \in [1 .. k * n -> X]
    BY <2>2, <2>3
  <2> QED  BY <2>1, <2>2, <2>4
<1>5. ASSUME NEW k \in 1 .. N
      PROVE  f[k] = IF k = 1 THEN ss[1] ELSE f[k - 1] \o ss[k]
  <2>1. k \in Nat /\ k - 1 \in Nat /\ ss[k] \in Seq(X) /\ Len(ss[k]) = n
    BY <1>1
  <2>2. k * n = (k - 1) * n + n /\ (k - 1) * n \in Nat
    BY <2>1
  <2>3. /\ f[k] \in Seq(X) /\ Len(f[k]) = k * n
        /\ \A x \in 1 .. k * n : f[k][x] = at(x)
    BY <1>4
  <2>4. \A j \in 1 .. n : at((k - 1) * n + j) = ss[k][j]
    BY <1>2
  <2> HIDE DEF f, at
  <2>5. CASE k = 1
    <3>1. (1 - 1) * n = 0 /\ 1 * n = n
      OBVIOUS
    <3>2. ASSUME NEW x \in 1 .. n PROVE f[k][x] = ss[k][x]
      <4>1. 0 + x = x
        OBVIOUS
      <4> QED  BY <2>3, <2>4, <2>5, <3>1, <4>1
    <3>3. Len(f[k]) = Len(ss[k])
      BY <2>1, <2>3, <2>5, <3>1
    <3>4. f[k] = ss[k]
      BY <2>1, <2>3, <3>2, <3>3, SeqEqual
    <3> QED  BY <2>5, <3>4
  <2>6. CASE k # 1
    <3>1. k - 1 \in 1 .. N
      BY <1>1, <2>1, <2>6
    <3>2. /\ f[k - 1] \in Seq(X) /\ Len(f[k - 1]) = (k - 1) * n
          /\ \A x \in 1 .. (k - 1) * n : f[k - 1][x] = at(x)
      BY <1>4, <3>1
    <3> DEFINE t == f[k - 1] \o ss[k]
    <3>3. /\ t \in Seq(X) /\ Len(t) = (k - 1) * n + n
          /\ \A x \in 1 .. (k - 1) * n + n :
                t[x] = IF x <= (k - 1) * n THEN f[k - 1][x] ELSE ss[k][x - (k - 1) * n]
      <4>1. /\ f[k - 1] \o ss[k] \in Seq(X)
            /\ Len(f[k - 1] \o ss[k]) = Len(f[k - 1]) + Len(ss[k])
            /\ \A x \in 1 .. Len(f[k - 1]) + Len(ss[k]) :
                  (f[k - 1] \o ss[k])[x] = IF x <= Len(f[k - 1]) THEN f[k - 1][x]
                                           ELSE ss[k][x - Len(f[k - 1])]
        BY <2>1, <3>2, ConcatProperties
      <4> QED  BY <2>1, <3>2, <4>1
    <3> HIDE DEF t
    <3>4. ASSUME NEW x \in 1 .. k * n PROVE f[k][x] = t[x]
      <4>1. x \in 1 .. (k - 1) * n + n
        BY <2>2
      <4>2. CASE x <= (k - 1) * n
        <5>1. x \in 1 .. (k - 1) * n
          BY <2>2, <4>1, <4>2
        <5> QED  BY <2>3, <3>2, <3>3, <4>1, <4>2, <5>1
      <4>3. CASE ~(x <= (k - 1) * n)
        <5>1. x - (k - 1) * n \in 1 .. n /\ (k - 1) * n + (x - (k - 1) * n) = x
          BY <2>2, <4>1, <4>3
        <5>2. at((k - 1) * n + (x - (k - 1) * n)) = ss[k][x - (k - 1) * n]
          BY <2>4, <5>1
        <5>3. at(x) = ss[k][x - (k - 1) * n]
          BY <5>1, <5>2
        <5> QED  BY <2>3, <3>3, <4>1, <4>3, <5>3
      <4> QED  BY <4>2, <4>3
    <3>5. f[k] = t
      BY <2>2, <2>3, <3>3, <3>4, SeqEqual
    <3> QED  BY <2>6, <3>5 DEF t
  <2> QED  BY <2>5, <2>6
<1>6. FlattenSeq(ss) = f[N]
  <2> HIDE DEF f
  <2> QED  BY <1>1, <1>5, FlattenIs DEF N
<1>7. N \in 1 .. N
  BY <1>1
<1>8. ASSUME NEW k \in 1 .. N, NEW j \in 1 .. n
      PROVE  FlattenSeq(ss)[(k - 1) * n + j] = ss[k][j]
  <2>1. k - 1 \in Nat /\ N - 1 \in Nat /\ k - 1 <= N - 1
    BY <1>1
  <2>2. (k - 1) * n \in Nat /\ (k - 1) * n <= (N - 1) * n /\ N * n = (N - 1) * n + n
    BY <1>1, <2>1, TimesMonotonic
  <2>3. (k - 1) * n + j \in 1 .. N * n
    <3>1. ASSUME NEW p \in Nat, NEW m \in Nat, p <= m PROVE p + j \in 1 .. m + n
      BY <3>1
    <3>2. (N - 1) * n \in Nat
      BY <2>1
    <3> QED  BY <2>2, <3>1, <3>2
  <2> HIDE DEF f
  <2> QED  BY <1>2, <1>4, <1>6, <1>7, <2>3
<1> HIDE DEF f
<1> QED  BY <1>4, <1>6, <1>7, <1>8 DEF N
-----------------------------------------------------------------------------
(* The buffer.                                                             *)

\* A part of a sequence is known by its place and its elements.
LEMMA SliceIs ==
    ASSUME NEW S, NEW s \in Seq(S), NEW t \in Seq(S), NEW o \in Nat, NEW n \in Nat,
           Len(t) = n, o + n <= Len(s), \A j \in 1 .. n : s[o + j] = t[j]
    PROVE  Slice(s, o, n) = t
<1>1. /\ Slice(s, o, n) \in Seq(S)
      /\ Len(Slice(s, o, n)) = n
      /\ \A j \in 1 .. n : Slice(s, o, n)[j] = s[o + j]
  <2>1. Within(S, s, o, n)
    BY DEF Within
  <2>2. IsPart(Slice(s, o, n), S, s, o, n)
    BY <2>1, SliceIsPart
  <2> QED  BY <2>2 DEF IsPart
<1>2. Len(Slice(s, o, n)) = Len(t) /\ \A j \in 1 .. Len(t) : Slice(s, o, n)[j] = t[j]
  BY <1>1
<1> QED  BY <1>1, <1>2, SeqEqual

\* The name, filled up with zeros, ends where it ended.
LEMMA NameEnds ==
    ASSUME NEW X, NEW name \in Seq(Bytes \ {0}), Len(name) <= NameField,
           NEW buffer \in Seq(X), NameField <= Len(buffer),
           \A k \in 1 .. NameField :
              buffer[k] = IF k <= Len(name) THEN name[k] ELSE 0
    PROVE  NameLength(buffer) = Len(name)
<1> DEFINE start == SubSeq(buffer, 1, NameField)
           I == {k \in 1 .. Len(start) : start[k] = 0}
           zero == IF I # {} THEN Min(I) ELSE 0
<1>1. Len(name) \in Nat /\ NameField \in Nat \ {0} /\ Len(buffer) \in Nat
  BY InfoAssumption DEF InfoAssumption
<1>2. \A k \in 1 .. Len(name) : name[k] # 0
  BY <1>1
<1>3. Len(start) = NameField /\ \A k \in 1 .. NameField : start[k] = buffer[k]
  <2>1. \A k \in 1 .. NameField : buffer[k] \in X
    BY <1>1
  <2>2. /\ Len(start) = IF 1 <= NameField THEN NameField - 1 + 1 ELSE 0
        /\ \A k \in 1 .. NameField - 1 + 1 : start[k] = buffer[1 + k - 1]
    BY <1>1, <2>1, SubSeqProperties
  <2> HIDE DEF start
  <2>3. NameField - 1 + 1 = NameField /\ \A k \in 1 .. NameField : 1 + k - 1 = k
    BY <1>1
  <2> QED  BY <1>1, <2>2, <2>3
<1>4. NameLength(buffer) = IF zero = 0 THEN NameField ELSE zero - 1
  BY DEF NameLength, SelectInSeq
<1> HIDE DEF start
<1>5. I = {k \in 1 .. NameField : k > Len(name)}
  BY <1>1, <1>2, <1>3
<1>6. CASE Len(name) = NameField
  <2>1. I = {}
    BY <1>1, <1>5, <1>6
  <2> HIDE DEF I
  <2> QED  BY <1>4, <1>6, <2>1
<1>7. CASE Len(name) # NameField
  <2>1. Len(name) + 1 \in I /\ \A k \in I : Len(name) + 1 <= k
    <3>1. Len(name) + 1 \in 1 .. NameField
      BY <1>1, <1>7
    <3>2. \A k \in 1 .. NameField : k > Len(name) => Len(name) + 1 <= k
      BY <1>1
    <3> HIDE DEF I
    <3>3. Len(name) + 1 > Len(name)
      BY <1>1
    <3> QED  BY <1>5, <3>1, <3>2, <3>3
  <2>2. I \subseteq Nat
    BY <1>1
  <2> HIDE DEF I
  <2> DEFINE Least(x) == x \in I /\ \A k \in I : x <= k
  <2>5. Min(I) = CHOOSE x : Least(x)
    BY DEF Min
  <2>6. Least(Len(name) + 1)
    BY <2>1
  <2> HIDE DEF Least
  <2>7. Least(CHOOSE x : Least(x))
    BY <2>6
  <2>3. Min(I) \in I /\ \A k \in I : Min(I) <= k
    BY <2>5, <2>7 DEF Least
  <2>4. Min(I) = Len(name) + 1
    <3>1. Min(I) \in Nat /\ Min(I) <= Len(name) + 1 /\ Len(name) + 1 <= Min(I)
      BY <2>1, <2>2, <2>3
    <3> QED  BY <1>1, <3>1
  <2> QED  BY <1>1, <1>4, <2>1, <2>4
<1> QED  BY <1>6, <1>7

LEMMA InfoFacts ==
    /\ Base \in Nat \ {0, 1} /\ NameField \in Nat \ {0} /\ SizeField \in Nat \ {0}
    /\ ChunkField \in Nat \ {0} /\ HashField \in Nat \ {0} /\ ChunkBytes \in Nat \ {0}
    /\ HashPiece \in Nat \ {0} /\ ChunkBytes < Power[ChunkField]
BY InfoAssumption DEF InfoAssumption

\* What toBuffer writes, fromBuffer reads.
LEMMA RoundTrip ==
    ASSUME NEW X, NEW name \in Seq(Bytes \ {0}), Len(name) <= NameField,
           NEW size \in Nat, size < Power[SizeField],
           NEW csize \in Nat, csize < Power[ChunkField],
           NEW chunks \in Seq(Seq(X)), chunks # <<>>,
           \A k \in DOMAIN chunks : Len(chunks[k]) = HashField
    PROVE  LET inf == [file_name |-> name, file_size |-> size, chunk_size |-> csize,
                     chunks |-> chunks]
           IN  FromBuffer(ToBuffer(inf)) = inf
<1> DEFINE inf == [file_name |-> name, file_size |-> size, chunk_size |-> csize,
                 chunks |-> chunks]
           A == [k \in 1 .. NameField |-> IF k <= Len(name) THEN name[k] ELSE 0]
           B == Digits(size, SizeField)
           C == Digits(csize, ChunkField)
           D == FlattenSeq(chunks)
           N == Len(chunks)
           Y == Bytes \cup X
           b == ((A \o B) \o C) \o D
           H == NameField + SizeField + ChunkField
<1>0. N \in Nat \ {0} /\ DOMAIN chunks = 1 .. N
  OBVIOUS
<1>1. ToBuffer(inf) = b
  BY DEF ToBuffer
<1>2. A \in Seq(Y) /\ Len(A) = NameField
  <2>1. ASSUME NEW k \in 1 .. NameField PROVE A[k] \in Y
    <3>1. 0 \in Bytes
      BY InfoFacts DEF Bytes
    <3>2. k <= Len(name) => name[k] \in Bytes
      BY InfoFacts
    <3> QED  BY <3>1, <3>2
  <2>2. A = [k \in 1 .. NameField |-> A[k]]
    OBVIOUS
  <2> HIDE DEF A, Y
  <2>3. A \in [1 .. NameField -> Y]
    BY <2>1, <2>2
  <2> QED  BY <2>3, InfoFacts
<1>3. B \in Seq(Y) /\ Len(B) = SizeField /\ Number(B) = size
  <2>1. B \in [1 .. SizeField -> Bytes] /\ Number(B) = size
    BY InfoFacts, DigitsFacts
  <2> HIDE DEF B
  <2> QED  BY <2>1, InfoFacts
<1>4. C \in Seq(Y) /\ Len(C) = ChunkField /\ Number(C) = csize
  <2>1. C \in [1 .. ChunkField -> Bytes] /\ Number(C) = csize
    BY InfoFacts, DigitsFacts
  <2> HIDE DEF C
  <2> QED  BY <2>1, InfoFacts
<1>5. /\ D \in Seq(Y) /\ Len(D) = N * HashField
      /\ \A k \in 1 .. N : \A j \in 1 .. HashField : D[(k - 1) * HashField + j] = chunks[k][j]
  <2>1. /\ D \in Seq(X) /\ Len(D) = N * HashField
        /\ \A k \in 1 .. N : \A j \in 1 .. HashField : D[(k - 1) * HashField + j] = chunks[k][j]
    BY InfoFacts, FlattenEven
  <2> HIDE DEF D
  <2> QED  BY <2>1
<1>6. N * HashField \in Nat
  BY <1>0, InfoFacts
<1>7. \A k \in 1 .. NameField : A[k] = IF k <= Len(name) THEN name[k] ELSE 0
  OBVIOUS
<1> HIDE DEF A, B, C, D, Y, N
<1>8. /\ b \in Seq(Y) /\ Len(b) = H + N * HashField
      /\ \A k \in 1 .. NameField : b[k] = A[k]
      /\ \A k \in 1 .. SizeField : b[NameField + k] = B[k]
      /\ \A k \in 1 .. ChunkField : b[NameField + SizeField + k] = C[k]
      /\ \A k \in 1 .. N * HashField : b[H + k] = D[k]
  <2> DEFINE AB == A \o B
             ABC == AB \o C
  <2>1. /\ AB \in Seq(Y) /\ Len(AB) = NameField + SizeField
        /\ \A k \in 1 .. NameField + SizeField :
              AB[k] = IF k <= NameField THEN A[k] ELSE B[k - NameField]
    <3>1. /\ A \o B \in Seq(Y) /\ Len(A \o B) = Len(A) + Len(B)
          /\ \A k \in 1 .. Len(A) + Len(B) :
                (A \o B)[k] = IF k <= Len(A) THEN A[k] ELSE B[k - Len(A)]
      BY <1>2, <1>3, ConcatProperties
    <3> QED  BY <1>2, <1>3, <3>1
  <2> HIDE DEF AB
  <2>2. /\ ABC \in Seq(Y) /\ Len(ABC) = H
        /\ \A k \in 1 .. H :
              ABC[k] = IF k <= NameField + SizeField THEN AB[k]
                       ELSE C[k - (NameField + SizeField)]
    <3>1. /\ AB \o C \in Seq(Y) /\ Len(AB \o C) = Len(AB) + Len(C)
          /\ \A k \in 1 .. Len(AB) + Len(C) :
                (AB \o C)[k] = IF k <= Len(AB) THEN AB[k] ELSE C[k - Len(AB)]
      BY <2>1, <1>4, ConcatProperties
    <3> QED  BY <2>1, <1>4, <3>1
  <2> HIDE DEF ABC
  <2>3. /\ b \in Seq(Y) /\ Len(b) = H + N * HashField
        /\ \A k \in 1 .. H + N * HashField : b[k] = IF k <= H THEN ABC[k] ELSE D[k - H]
    <3>1. b = ABC \o D
      BY DEF AB, ABC
    <3>2. /\ ABC \o D \in Seq(Y) /\ Len(ABC \o D) = Len(ABC) + Len(D)
          /\ \A k \in 1 .. Len(ABC) + Len(D) :
                (ABC \o D)[k] = IF k <= Len(ABC) THEN ABC[k] ELSE D[k - Len(ABC)]
      BY <2>2, <1>5, ConcatProperties
    <3> HIDE DEF b
    <3> QED  BY <2>2, <1>5, <3>1, <3>2
  <2> HIDE DEF b
  <2>4. PICK m \in Nat : m = N * HashField
    BY <1>6
  <2>5. ASSUME NEW k \in 1 .. NameField PROVE b[k] = A[k]
    <3>1. k \in 1 .. H + m /\ k <= H /\ k <= NameField + SizeField /\ k <= NameField
          /\ k \in 1 .. H /\ k \in 1 .. NameField + SizeField
      BY InfoFacts
    <3> QED  BY <2>1, <2>2, <2>3, <2>4, <3>1
  <2>6. ASSUME NEW k \in 1 .. SizeField PROVE b[NameField + k] = B[k]
    <3>1. /\ NameField + k \in 1 .. H + m /\ NameField + k \in 1 .. H /\ NameField + k <= H
          /\ NameField + k \in 1 .. NameField + SizeField
          /\ NameField + k <= NameField + SizeField
          /\ ~(NameField + k <= NameField) /\ (NameField + k) - NameField = k
      BY InfoFacts
    <3> QED  BY <2>1, <2>2, <2>3, <2>4, <3>1
  <2>7. ASSUME NEW k \in 1 .. ChunkField PROVE b[NameField + SizeField + k] = C[k]
    <3> DEFINE x == NameField + SizeField + k
    <3>1. /\ x \in 1 .. H + m /\ x \in 1 .. H /\ x <= H
          /\ ~(x <= NameField + SizeField) /\ x - (NameField + SizeField) = k
      BY InfoFacts
    <3> HIDE DEF x
    <3>2. b[x] = C[k]
      BY <2>2, <2>3, <2>4, <3>1
    <3> QED  BY <3>2 DEF x
  <2>8. ASSUME NEW k \in 1 .. N * HashField PROVE b[H + k] = D[k]
    <3> DEFINE x == H + k
    <3>1. k \in 1 .. m
      BY <2>4
    <3>2. x \in 1 .. H + m /\ ~(x <= H) /\ x - H = k
      BY <3>1, InfoFacts
    <3> HIDE DEF x, H
    <3>3. b[x] = D[k]
      BY <2>3, <2>4, <3>2
    <3> QED  BY <3>3 DEF x
  <2> HIDE DEF H
  <2> QED  BY <2>3, <2>5, <2>6, <2>7, <2>8
<1>9. PICK m \in Nat : m = N * HashField /\ Len(b) = H + m
  BY <1>6, <1>8
<1> HIDE DEF b
<1>10. SubSeq(b, 1, NameLength(b)) = name
  <2>1. NameField <= Len(b)
    BY <1>9, InfoFacts
  <2>2. NameLength(b) = Len(name)
    <3>1. b \in Seq(Y) /\ \A k \in 1 .. NameField : b[k] = IF k <= Len(name) THEN name[k] ELSE 0
      BY <1>7, <1>8
    <3> QED  BY <2>1, <3>1, NameEnds
  <2>3. name \in Seq(Y) /\ Len(name) \in Nat
    BY DEF Y
  <2>4. ASSUME NEW k \in 1 .. Len(name) PROVE b[0 + k] = name[k]
    <3>1. k \in 1 .. NameField /\ 0 + k = k /\ k <= Len(name)
      BY <2>3, InfoFacts
    <3> QED  BY <1>7, <1>8, <3>1
  <2>5. Slice(b, 0, Len(name)) = name
    <3>1. 0 + Len(name) <= Len(b)
      BY <2>1, <2>3, <1>9, InfoFacts
    <3> QED  BY <1>8, <2>3, <2>4, <3>1, SliceIs
  <2>6. Slice(b, 0, Len(name)) = SubSeq(b, 1, Len(name))
    <3>1. 0 + 1 = 1 /\ (IF 0 + Len(name) < Len(b) THEN 0 + Len(name) ELSE Len(b)) = Len(name)
      BY <2>1, <2>3, <1>9, InfoFacts
    <3> QED  BY <3>1 DEF Slice
  <2> QED  BY <2>2, <2>5, <2>6
<1>11. Slice(b, NameField, SizeField) = B
  <2>1. NameField + SizeField <= Len(b)
    BY <1>9, InfoFacts
  <2> QED  BY <1>3, <1>8, <2>1, InfoFacts, SliceIs
<1>12. Slice(b, NameField + SizeField, ChunkField) = C
  <2>1. (NameField + SizeField) + ChunkField <= Len(b) /\ NameField + SizeField \in Nat
    BY <1>9, InfoFacts
  <2> QED  BY <1>4, <1>8, <2>1, InfoFacts, SliceIs
<1> DEFINE read == [k \in 1 .. (Len(b) - H) \div HashField |->
                       Slice(b, H + (k - 1) * HashField, HashField)]
<1>13. read = chunks
  <2>1. (Len(b) - H) \div HashField = N
    <3>1. Len(b) - H = m /\ m = N * HashField
      BY <1>9, InfoFacts
    <3>2. N * HashField <= m /\ m < (N + 1) * HashField
      <4>1. (N + 1) * HashField = N * HashField + HashField
        BY <1>0, InfoFacts
      <4> QED  BY <1>9, <4>1, InfoFacts
    <3>3. m \div HashField = N
      BY <1>0, <3>2, InfoFacts, QuotientUnique
    <3> QED  BY <3>1, <3>3
  <2>2. ASSUME NEW k \in 1 .. N PROVE Slice(b, H + (k - 1) * HashField, HashField) = chunks[k]
    <3>1. k - 1 \in Nat /\ N - 1 \in Nat /\ k - 1 <= N - 1
      BY <1>0
    <3>2. /\ (k - 1) * HashField \in Nat /\ (N - 1) * HashField \in Nat
          /\ (k - 1) * HashField <= (N - 1) * HashField
          /\ N * HashField = (N - 1) * HashField + HashField
      BY <1>0, <3>1, InfoFacts, TimesMonotonic
    <3>3. PICK p \in Nat : p = (k - 1) * HashField
      BY <3>2
    <3>4. p + HashField <= m
      BY <1>9, <3>2, <3>3, InfoFacts
    <3>5. H + p \in Nat /\ (H + p) + HashField <= Len(b)
      BY <1>9, <3>4, InfoFacts
    <3>6. chunks[k] \in Seq(Y) /\ Len(chunks[k]) = HashField
      <4>1. k \in DOMAIN chunks /\ chunks[k] \in Seq(X)
        BY <1>0
      <4>2. X \subseteq Y
        BY DEF Y
      <4>3. Len(chunks[k]) = HashField
        BY <4>1
      <4>4. chunks[k] \in Seq(Y)
        BY <4>1, <4>2
      <4> QED  BY <4>3, <4>4
    <3>9. \A j \in 1 .. HashField : D[p + j] = chunks[k][j]
      <4>1. \A j \in 1 .. HashField : D[(k - 1) * HashField + j] = chunks[k][j]
        BY <1>5
      <4> QED  BY <3>3, <4>1
    <3>7. ASSUME NEW j \in 1 .. HashField PROVE b[(H + p) + j] = chunks[k][j]
      <4>1. p + j \in 1 .. m /\ (H + p) + j = H + (p + j)
        BY <3>4, InfoFacts
      <4>2. b[H + (p + j)] = D[p + j]
        BY <1>8, <1>9, <4>1
      <4>3. D[p + j] = chunks[k][j]
        BY <3>9
      <4>4. PICK x \in Int : x = H + (p + j) /\ x = (H + p) + j
        BY <4>1, InfoFacts
      <4> HIDE DEF H
      <4>5. b[x] = D[p + j]
        BY <4>2, <4>4
      <4> QED  BY <4>3, <4>4, <4>5
    <3>8. Slice(b, H + p, HashField) = chunks[k]
      <4> DEFINE o == H + p
      <4>1. /\ o \in Nat /\ o + HashField <= Len(b) /\ b \in Seq(Y) /\ HashField \in Nat
            /\ \A j \in 1 .. HashField : b[o + j] = chunks[k][j]
        BY <1>8, <3>5, <3>7, InfoFacts
      <4> HIDE DEF o
      <4>2. Slice(b, o, HashField) = chunks[k]
        <5>1. PICK t \in Seq(Y) : t = chunks[k]
          BY <3>6
        <5>2. Len(t) = HashField /\ \A j \in 1 .. HashField : b[o + j] = t[j]
          BY <3>6, <4>1, <5>1
        <5>3. Slice(b, o, HashField) = t
          <6>1. /\ Slice(b, o, HashField) \in Seq(Y)
                /\ Len(Slice(b, o, HashField)) = HashField
                /\ \A j \in 1 .. HashField : Slice(b, o, HashField)[j] = b[o + j]
            <7>1. Within(Y, b, o, HashField)
              BY <4>1 DEF Within
            <7>2. IsPart(Slice(b, o, HashField), Y, b, o, HashField)
              BY <7>1, SliceIsPart
            <7> QED  BY <7>2 DEF IsPart
          <6> DEFINE u == Slice(b, o, HashField)
          <6>2. u \in Seq(Y) /\ Len(u) = Len(t) /\ \A j \in 1 .. Len(u) : u[j] = t[j]
            BY <5>2, <6>1
          <6> HIDE DEF u
          <6>3. u = t
            BY <6>2, SeqEqual
          <6> QED  BY <6>3 DEF u
        <5> QED  BY <5>1, <5>3
      <4> QED  BY <4>2 DEF o
    <3> QED  BY <3>3, <3>8
  <2>3. chunks = [k \in 1 .. N |-> chunks[k]]
    BY <1>0
  <2>4. read = [k \in 1 .. N |-> chunks[k]]
    BY <2>1, <2>2
  <2> QED  BY <2>3, <2>4
<1>14. FromBuffer(b) = [file_name |-> SubSeq(b, 1, NameLength(b)),
                        file_size |-> Number(Slice(b, NameField, SizeField)),
                        chunk_size |-> Number(Slice(b, NameField + SizeField, ChunkField)),
                        chunks |-> read]
  BY DEF FromBuffer
<1> HIDE DEF read
<1>15. FromBuffer(b) = inf
  BY <1>3, <1>4, <1>10, <1>11, <1>12, <1>13, <1>14
<1>16. FromBuffer(ToBuffer(inf)) = inf
  <2> HIDE DEF inf
  <2> QED  BY <1>1, <1>15
<1> QED  BY <1>16
-----------------------------------------------------------------------------
(* The cut of a file.                                                      *)

\* The index of the last chunk.
LastOf(f) == FullPieces(Len(f), ChunkBytes)

LEMMA CutFacts ==
    ASSUME NEW name, NEW f \in Seq(Bytes), f # <<>>
    PROVE  /\ LastOf(f) \in Nat /\ Len(f) \in Nat \ {0}
           /\ InfoOf(name, f) =
                [file_name |-> name, file_size |-> Len(f), chunk_size |-> ChunkBytes,
                 chunks |-> InfoOf(name, f).chunks]
           /\ InfoOf(name, f).file_name = name /\ InfoOf(name, f).file_size = Len(f)
           /\ InfoOf(name, f).chunk_size = ChunkBytes
           /\ InfoOf(name, f).chunks =
                [k \in 1 .. LastOf(f) + 1 |-> Hash(Slice(f, (k - 1) * ChunkBytes, ChunkBytes))]
           /\ Len(InfoOf(name, f).chunks) = LastOf(f) + 1
           /\ Indices(InfoOf(name, f)) = 0 .. LastOf(f)
<1>1. Len(f) \in Nat \ {0}
  OBVIOUS
<1>2. LastOf(f) \in Nat
  BY <1>1, InfoFacts, PieceFacts DEF LastOf
<1>3. /\ InfoOf(name, f) =
            [file_name |-> name, file_size |-> Len(f), chunk_size |-> ChunkBytes,
             chunks |-> InfoOf(name, f).chunks]
      /\ InfoOf(name, f).file_name = name /\ InfoOf(name, f).file_size = Len(f)
      /\ InfoOf(name, f).chunk_size = ChunkBytes
      /\ InfoOf(name, f).chunks =
            [k \in 1 .. LastOf(f) + 1 |-> Hash(Slice(f, (k - 1) * ChunkBytes, ChunkBytes))]
  <2> DEFINE empty == NewInfo(name, f)
             table == [k \in 1 .. LastOf(f) + 1 |-> Hash(Slice(f, (k - 1) * ChunkBytes, ChunkBytes))]
  <2>1. empty = [file_name |-> name, file_size |-> Len(f), chunk_size |-> ChunkBytes,
                 chunks |-> <<>>]
    BY DEF NewInfo
  <2>2. InfoOf(name, f) = [empty EXCEPT !.chunks = table]
    BY DEF InfoOf, LastOf
  <2> HIDE DEF empty, table
  <2>3. InfoOf(name, f) = [file_name |-> name, file_size |-> Len(f), chunk_size |-> ChunkBytes,
                           chunks |-> table]
    BY <2>1, <2>2
  <2>4. InfoOf(name, f).chunks = table
    BY <2>3
  <2> QED  BY <2>3, <2>4 DEF table
<1>4. Len(InfoOf(name, f).chunks) = LastOf(f) + 1
  BY <1>2, <1>3
<1>5. Indices(InfoOf(name, f)) = 0 .. LastOf(f)
  BY <1>2, <1>4 DEF Indices
<1> QED  BY <1>1, <1>2, <1>3, <1>4, <1>5

\* Where a chunk lies in its file.
LEMMA PlaceFacts ==
    ASSUME NEW name, NEW f \in Seq(Bytes), f # <<>>, NEW c \in 0 .. LastOf(f)
    PROVE  /\ c * ChunkBytes \in Nat /\ c * ChunkBytes < Len(f)
           /\ (c + 1) * ChunkBytes = c * ChunkBytes + ChunkBytes
           /\ c * ChunkBytes + ChunkBytes < Len(f) <=> c < LastOf(f)
           /\ FileOffset(InfoOf(name, f), c) = c * ChunkBytes
           /\ ChunkLength(InfoOf(name, f), c) \in 1 .. ChunkBytes
           /\ c * ChunkBytes + ChunkLength(InfoOf(name, f), c) <= Len(f)
           /\ c < LastOf(f) => ChunkLength(InfoOf(name, f), c) = ChunkBytes
           /\ c = LastOf(f) => ChunkLength(InfoOf(name, f), c) = Len(f) - c * ChunkBytes
<1> DEFINE L == Len(f)
           q == LastOf(f)
<1>1. q \in Nat /\ L \in Nat \ {0}
  BY CutFacts
<1>2. /\ q * ChunkBytes \in Nat /\ q * ChunkBytes < L /\ L <= q * ChunkBytes + ChunkBytes
      /\ \A k \in 0 .. q : k * ChunkBytes \in Nat /\ k * ChunkBytes <= q * ChunkBytes
      /\ \A k \in 0 .. q - 1 : k * ChunkBytes + ChunkBytes <= q * ChunkBytes
  BY <1>1, InfoFacts, PieceFacts DEF LastOf
<1>3. /\ FileOffset(InfoOf(name, f), c) = c * ChunkBytes
      /\ ChunkLength(InfoOf(name, f), c) = IF c = q THEN L - c * ChunkBytes ELSE ChunkBytes
  <2>1. /\ InfoOf(name, f).file_size = L /\ InfoOf(name, f).chunk_size = ChunkBytes
        /\ Len(InfoOf(name, f).chunks) = q + 1
    BY CutFacts
  <2>2. c + 1 = q + 1 <=> c = q
    BY <1>1
  <2> QED  BY <2>1, <2>2 DEF FileOffset, ChunkLength
<1>4. (c + 1) * ChunkBytes = c * ChunkBytes + ChunkBytes
  BY <1>1, InfoFacts
<1> HIDE DEF L, q
<1>5. PICK p \in Nat : p = c * ChunkBytes
  BY <1>2 DEF q
<1>6. PICK m \in Nat : m = q * ChunkBytes
  BY <1>2
<1>7. c \in Nat /\ c <= q
  BY <1>1 DEF q
<1>8. p <= m /\ m < L /\ L <= m + ChunkBytes
  BY <1>2, <1>5, <1>6, <1>7
<1>9. CASE c = q
  <2>1. p = m
    BY <1>5, <1>6, <1>9
  <2>2. ~(p + ChunkBytes < L) /\ L - p \in 1 .. ChunkBytes /\ p + (L - p) <= L
    BY <1>1, <1>8, <2>1, InfoFacts
  <2> QED  BY <1>1, <1>3, <1>4, <1>5, <1>8, <1>9, <2>1, <2>2 DEF L, q
<1>10. CASE c # q
  <2>1. c < q /\ c \in 0 .. q - 1
    BY <1>1, <1>7, <1>10
  <2>2. p + ChunkBytes <= m
    BY <1>2, <1>5, <1>6, <2>1
  <2>3. p + ChunkBytes < L
    BY <1>1, <1>8, <2>2, InfoFacts
  <2>4. ChunkBytes \in 1 .. ChunkBytes /\ p + ChunkBytes <= L
    BY <1>1, <2>3, InfoFacts
  <2>5. p < L
    BY <1>1, <1>8
  <2> QED  BY <1>3, <1>4, <1>5, <1>10, <2>1, <2>3, <2>4, <2>5 DEF L, q
<1> QED  BY <1>9, <1>10

\* What is read of a chunk, and that its hash is that of these bytes.
LEMMA ChunkFacts ==
    ASSUME NEW name, NEW f \in Seq(Bytes), f # <<>>, NEW c \in 0 .. LastOf(f),
           NEW g \in Seq(Bytes), Len(g) = Len(f)
    PROVE  /\ ChunkOf(InfoOf(name, f), g, c) \in Seq(Bytes)
           /\ Len(ChunkOf(InfoOf(name, f), g, c)) = ChunkLength(InfoOf(name, f), c)
           /\ \A j \in 1 .. ChunkLength(InfoOf(name, f), c) :
                 ChunkOf(InfoOf(name, f), g, c)[j] = g[c * ChunkBytes + j]
           /\ ChunkOf(InfoOf(name, f), g, c) = Slice(g, c * ChunkBytes, ChunkBytes)
           /\ InfoOf(name, f).chunks[c + 1] = Hash(ChunkOf(InfoOf(name, f), f, c))
<1> DEFINE p == c * ChunkBytes
           n == ChunkLength(InfoOf(name, f), c)
<1>1. /\ p \in Nat /\ n \in 1 .. ChunkBytes /\ p + n <= Len(f)
      /\ FileOffset(InfoOf(name, f), c) = p
      /\ p + ChunkBytes < Len(f) <=> c < LastOf(f)
      /\ c < LastOf(f) => n = ChunkBytes
      /\ c = LastOf(f) => n = Len(f) - p
  BY PlaceFacts
<1>2. LastOf(f) \in Nat /\ Len(f) \in Nat
  BY CutFacts
<1> HIDE DEF p, n
<1>3. \A h : ChunkOf(InfoOf(name, f), h, c) = Slice(h, p, n)
  BY <1>1 DEF ChunkOf, n
<1>4. ASSUME NEW h \in Seq(Bytes), Len(h) = Len(f) PROVE Slice(h, p, n) = Slice(h, p, ChunkBytes)
  <2>1. (IF p + n < Len(h) THEN p + n ELSE Len(h))
           = (IF p + ChunkBytes < Len(h) THEN p + ChunkBytes ELSE Len(h))
    <3>1. CASE c < LastOf(f)
      BY <1>1, <3>1
    <3>2. CASE c = LastOf(f)
      <4>1. ~(p + n < Len(f)) /\ ~(p + ChunkBytes < Len(f))
        BY <1>1, <1>2, <3>2
      <4> QED  BY <1>4, <4>1
    <3> QED  BY <1>2, <3>1, <3>2
  <2> QED  BY <2>1 DEF Slice
<1>5. /\ Slice(g, p, n) \in Seq(Bytes) /\ Len(Slice(g, p, n)) = n
      /\ \A j \in 1 .. n : Slice(g, p, n)[j] = g[p + j]
  <2>1. p \in Nat /\ n \in Nat /\ p + n <= Len(g)
    BY <1>1, InfoFacts
  <2>2. Within(Bytes, g, p, n)
    BY <2>1 DEF Within
  <2>3. IsPart(Slice(g, p, n), Bytes, g, p, n)
    BY <2>2, SliceIsPart
  <2> QED  BY <2>3 DEF IsPart
<1>6. InfoOf(name, f).chunks[c + 1] = Hash(Slice(f, p, ChunkBytes))
  <2>1. c + 1 \in 1 .. LastOf(f) + 1 /\ (c + 1) - 1 = c
    BY <1>2
  <2>2. InfoOf(name, f).chunks[c + 1] = Hash(Slice(f, ((c + 1) - 1) * ChunkBytes, ChunkBytes))
    <3>1. InfoOf(name, f).chunks =
            [k \in 1 .. LastOf(f) + 1 |-> Hash(Slice(f, (k - 1) * ChunkBytes, ChunkBytes))]
      BY CutFacts
    <3> QED  BY <2>1, <3>1
  <2> QED  BY <2>1, <2>2 DEF p
<1> QED  BY <1>3, <1>4, <1>5, <1>6 DEF p, n

\* A chunk is right when its bytes are, and its hash tells.
LEMMA RightFacts ==
    ASSUME NEW name, NEW f \in Seq(Bytes), f # <<>>, NEW c \in 0 .. LastOf(f),
           NEW g \in Seq(Bytes), Len(g) = Len(f), NEW h \in Seq(Bytes), Len(h) = Len(f)
    PROVE  /\ ChunkOf(InfoOf(name, f), g, c) = ChunkOf(InfoOf(name, f), h, c)
                <=> \A j \in 1 .. ChunkLength(InfoOf(name, f), c) :
                       g[c * ChunkBytes + j] = h[c * ChunkBytes + j]
           /\ Hash(ChunkOf(InfoOf(name, f), g, c)) = Hash(ChunkOf(InfoOf(name, f), h, c))
                <=> ChunkOf(InfoOf(name, f), g, c) = ChunkOf(InfoOf(name, f), h, c)
<1> DEFINE n == ChunkLength(InfoOf(name, f), c)
           u == ChunkOf(InfoOf(name, f), g, c)
           v == ChunkOf(InfoOf(name, f), h, c)
<1>1. /\ u \in Seq(Bytes) /\ Len(u) = n
      /\ \A j \in 1 .. n : u[j] = g[c * ChunkBytes + j]
  BY ChunkFacts
<1>2. /\ v \in Seq(Bytes) /\ Len(v) = n
      /\ \A j \in 1 .. n : v[j] = h[c * ChunkBytes + j]
  BY ChunkFacts
<1>3. n \in 1 .. ChunkBytes
  BY PlaceFacts
<1> HIDE DEF n, u, v
<1>4. u # <<>> /\ v # <<>>
  BY <1>1, <1>2, <1>3, InfoFacts
<1>5. Hash(u) = Hash(v) <=> u = v
  BY <1>1, <1>2, <1>4, HashInjective
<1>6. (\A j \in 1 .. n : u[j] = v[j]) => u = v
  BY <1>1, <1>2, SeqEqual
<1>7. u = v <=> \A j \in 1 .. n : g[c * ChunkBytes + j] = h[c * ChunkBytes + j]
  BY <1>1, <1>2, <1>6
<1> QED  BY <1>5, <1>7 DEF n, u, v
-----------------------------------------------------------------------------
(* The invariant.                                                          *)

\* What a hash is made of.
Parts == (1 .. HashField) \X Seq(Bytes)

Cut == InfoOf(original.name, original.bytes)

LastChunk == LastOf(original.bytes)

\* A file that is shared is there, with its size, and is looked at chunk by chunk.
FileIsThere ==
    /\ stage \in {"idle", "hashing", "shared", "checking", "receiving"}
    /\ stage = "idle" => info = NewInfo(<<>>, <<>>) /\ offset = 0 /\ disk = <<>> /\ have = {}
    /\ stage # "idle" =>
          /\ original.bytes \in Seq(Bytes) /\ original.bytes # <<>>
          /\ disk \in Seq(Bytes) /\ Len(disk) = Len(original.bytes)
          /\ have \subseteq 0 .. LastChunk
          /\ \E c \in 0 .. LastChunk : offset = c * ChunkBytes

\* The sender has the hashes of the chunks before its place.
HashedSoFar ==
    stage = "hashing" =>
        /\ disk = original.bytes /\ have = {}
        /\ info = [file_name |-> original.name, file_size |-> Len(original.bytes),
                   chunk_size |-> ChunkBytes, chunks |-> info.chunks]
        /\ info.chunks \in Seq(Seq(Parts))
        /\ offset = Len(info.chunks) * ChunkBytes
        /\ Len(info.chunks) \in 0 .. LastChunk
        /\ \A k \in 1 .. Len(info.chunks) : info.chunks[k] = Cut.chunks[k]

WholeInfo == stage \in {"shared", "checking", "receiving"} => info = Cut

\* The receiver has found what is right before its place.
CheckedSoFar ==
    stage = "checking" =>
        \E c \in 0 .. LastChunk :
            /\ offset = c * ChunkBytes
            /\ have = {d \in 0 .. c - 1 : Right(d, disk)}

HaveIsRight == stage = "receiving" => \A c \in have : Right(c, disk)

FileInv == FileIsThere /\ HashedSoFar /\ WholeInfo /\ CheckedSoFar /\ HaveIsRight

LEMMA FunctionIsSequence ==
    ASSUME NEW T, NEW n \in Nat, NEW s \in [1 .. n -> T] PROVE s \in Seq(T)
OBVIOUS

LEMMA SequenceOfMore ==
    ASSUME NEW T, NEW U, \A x \in T : x \in U, NEW s \in Seq(T) PROVE s \in Seq(U)
<1>1. Len(s) \in Nat /\ s = [k \in 1 .. Len(s) |-> s[k]]
  OBVIOUS
<1>2. \A k \in 1 .. Len(s) : s[k] \in T
  OBVIOUS
<1>3. s \in [1 .. Len(s) -> U]
  BY <1>1, <1>2
<1> QED  BY <1>1, <1>3, FunctionIsSequence

\* The hashes of a file have their type.
LEMMA CutType ==
    ASSUME NEW name, NEW f \in Seq(Bytes), f # <<>>
    PROVE  /\ InfoOf(name, f).chunks \in Seq(Seq(Parts))
           /\ InfoOf(name, f).chunks # <<>>
           /\ \A k \in DOMAIN InfoOf(name, f).chunks :
                 Len(InfoOf(name, f).chunks[k]) = HashField
           /\ \A c \in 0 .. LastOf(f) :
                 InfoOf(name, f).chunks[c + 1] = Hash(Slice(f, c * ChunkBytes, ChunkBytes))
<1> DEFINE inf == InfoOf(name, f)
<1>1. /\ LastOf(f) \in Nat /\ Len(f) \in Nat \ {0}
      /\ inf.chunks =
           [k \in 1 .. LastOf(f) + 1 |-> Hash(Slice(f, (k - 1) * ChunkBytes, ChunkBytes))]
      /\ Len(inf.chunks) = LastOf(f) + 1
  BY CutFacts
<1>2. ASSUME NEW c \in 0 .. LastOf(f)
      PROVE  inf.chunks[c + 1] = Hash(Slice(f, c * ChunkBytes, ChunkBytes))
  <2>1. c + 1 \in 1 .. LastOf(f) + 1 /\ (c + 1) - 1 = c
    BY <1>1
  <2> HIDE DEF inf
  <2> QED  BY <1>1, <2>1
<1>3. ASSUME NEW c \in 0 .. LastOf(f)
      PROVE  inf.chunks[c + 1] \in [1 .. HashField -> Parts]
  <2> DEFINE s == ChunkOf(inf, f, c)
  <2>1. s \in Seq(Bytes) /\ inf.chunks[c + 1] = Hash(s) /\ Len(s) = ChunkLength(inf, c)
    BY ChunkFacts
  <2>2. Len(s) # 0
    <3>1. ChunkLength(inf, c) \in 1 .. ChunkBytes
      BY PlaceFacts
    <3> HIDE DEF s, inf
    <3> QED  BY <2>1, <3>1, InfoFacts
  <2> HIDE DEF s
  <2>3. Hashed(s) = s
    <3>1. s # <<>>
      BY <2>2
    <3> QED  BY <2>1, <3>1, HashedIs
  <2>4. Hash(s) = [part \in 1 .. HashField |-> <<part, s>>]
    BY <2>3 DEF Hash
  <2>5. \A part \in 1 .. HashField : <<part, s>> \in Parts
    BY <2>1 DEF Parts
  <2> HIDE DEF inf
  <2>6. Hash(s) \in [1 .. HashField -> Parts]
    BY <2>4, <2>5
  <2> QED  BY <2>1, <2>6
<1> HIDE DEF inf
<1>4. ASSUME NEW k \in 1 .. LastOf(f) + 1
      PROVE  inf.chunks[k] \in Seq(Parts) /\ Len(inf.chunks[k]) = HashField
  <2>1. PICK c \in 0 .. LastOf(f) : c = k - 1 /\ c + 1 = k
    <3>1. k - 1 \in 0 .. LastOf(f) /\ (k - 1) + 1 = k
      BY <1>1
    <3> QED  BY <3>1
  <2>2. inf.chunks[k] \in [1 .. HashField -> Parts]
    BY <1>3, <2>1
  <2> QED  BY <2>2, InfoFacts
<1>5. DOMAIN inf.chunks = 1 .. LastOf(f) + 1 /\ inf.chunks # <<>>
  BY <1>1
<1>6. inf.chunks \in Seq(Seq(Parts))
  <2>1. inf.chunks = [k \in 1 .. LastOf(f) + 1 |-> inf.chunks[k]]
    BY <1>1
  <2>2. inf.chunks \in [1 .. LastOf(f) + 1 -> Seq(Parts)]
    BY <1>4, <2>1
  <2>3. LastOf(f) + 1 \in Nat
    BY <1>1
  <2> QED  BY <2>2, <2>3, FunctionIsSequence
<1> QED  BY <1>2, <1>4, <1>5, <1>6 DEF inf

LEMMA ContentsType ==
    ASSUME NEW f \in Contents PROVE f \in Seq(Bytes) /\ Len(f) \in Nat /\ Len(f) < Power[SizeField]
BY SharedFileAssumption DEF SharedFileAssumption, Bytes

LEMMA StartHashing ==
    ASSUME NEW name \in Names, NEW f \in Contents, SendStart(name, f)
    PROVE  FileInv' /\ stage' = "hashing"
<1>1. f \in Seq(Bytes) /\ f # <<>>
  BY ContentsType DEF SendStart
<1>2. /\ stage' = "hashing" /\ original'.bytes = f /\ original'.name = name
      /\ info' = NewInfo(name, f) /\ disk' = f /\ offset' = 0 /\ have' = {}
  BY DEF SendStart
<1>3. 0 \in 0 .. LastChunk' /\ 0 = 0 * ChunkBytes
  <2>1. LastOf(f) \in Nat
    BY <1>1, CutFacts
  <2> QED  BY <1>2, <2>1, InfoFacts DEF LastChunk
<1>4. FileIsThere'
  BY <1>1, <1>2, <1>3 DEF FileIsThere
<1>5. HashedSoFar'
  <2>1. /\ info' = [file_name |-> name, file_size |-> Len(f), chunk_size |-> ChunkBytes,
                   chunks |-> <<>>]
        /\ info'.chunks = <<>>
    BY <1>2 DEF NewInfo
  <2>2. <<>> \in Seq(Seq(Parts)) /\ Len(<<>>) = 0 /\ 1 .. 0 = {}
    OBVIOUS
  <2> QED  BY <1>2, <1>3, <2>1, <2>2 DEF HashedSoFar
<1> QED  BY <1>2, <1>4, <1>5 DEF FileInv, WholeInfo, CheckedSoFar, HaveIsRight

\* What comes out of the buffer is what went in.
LEMMA InfoComesBack ==
    ASSUME NEW name \in Names, NEW f \in Contents, f # <<>>
    PROVE  FromBuffer(ToBuffer(InfoOf(name, f))) = InfoOf(name, f)
<1> DEFINE chunks == InfoOf(name, f).chunks
<1>1. f \in Seq(Bytes) /\ Len(f) \in Nat /\ Len(f) < Power[SizeField]
  BY ContentsType
<1>2. name \in Seq(Bytes \ {0}) /\ Len(name) <= NameField
  <2>1. name \in Seq(1 .. Base - 1) /\ Len(name) <= NameField
    <3>1. name \in Seq(1 .. Base - 1) \ {<<>>} /\ Len(name) <= NameField
      BY SharedFileAssumption DEF SharedFileAssumption
    <3> QED  BY <3>1
  <2>2. \A k \in 1 .. Base - 1 : k \in Bytes \ {0}
    BY InfoFacts DEF Bytes
  <2>3. name \in Seq(Bytes \ {0})
    BY <2>1, <2>2, SequenceOfMore
  <2> QED  BY <2>1, <2>3
<1>3. /\ chunks \in Seq(Seq(Parts)) /\ chunks # <<>>
      /\ \A k \in DOMAIN chunks : Len(chunks[k]) = HashField
  BY <1>1, CutType
<1>4. InfoOf(name, f) = [file_name |-> name, file_size |-> Len(f), chunk_size |-> ChunkBytes,
                         chunks |-> chunks]
  BY <1>1, CutFacts
<1>5. PICK n \in Nat : n = Len(f)
  BY <1>1
<1> HIDE DEF chunks
<1> DEFINE inf == [file_name |-> name, file_size |-> n, chunk_size |-> ChunkBytes,
                 chunks |-> chunks]
<1>6. FromBuffer(ToBuffer(inf)) = inf
  <2>1. ChunkBytes \in Nat /\ ChunkBytes < Power[ChunkField] /\ n < Power[SizeField]
    BY <1>1, <1>5, InfoFacts
  <2>2. LET j == [file_name |-> name, file_size |-> n, chunk_size |-> ChunkBytes,
                  chunks |-> chunks]
        IN  FromBuffer(ToBuffer(j)) = j
    BY <1>2, <1>3, <2>1, RoundTrip
  <2> QED  BY <2>2
<1> QED  BY <1>4, <1>5, <1>6

LEMMA ResizedFacts ==
    ASSUME NEW g \in Seq(Bytes), NEW n \in Nat
    PROVE  /\ Resized(g, n) \in Seq(Bytes) /\ Len(Resized(g, n)) = n
           /\ n = Len(g) => Resized(g, n) = g
<1>1. Resized(g, n) = [k \in 1 .. n |-> IF k <= Len(g) THEN g[k] ELSE 0]
  BY DEF Resized
<1>2. ASSUME NEW k \in 1 .. n PROVE (IF k <= Len(g) THEN g[k] ELSE 0) \in Bytes
  <2>1. 0 \in Bytes
    BY InfoFacts DEF Bytes
  <2>2. k <= Len(g) => g[k] \in Bytes
    OBVIOUS
  <2> QED  BY <2>1, <2>2
<1>3. Resized(g, n) \in [1 .. n -> Bytes]
  BY <1>1, <1>2
<1>4. Resized(g, n) \in Seq(Bytes)
  BY <1>3, FunctionIsSequence
<1>5. Len(Resized(g, n)) = n
  BY <1>1
<1>6. ASSUME n = Len(g) PROVE Resized(g, n) = g
  <2>1. \A k \in 1 .. n : Resized(g, n)[k] = g[k]
    BY <1>1, <1>6
  <2> QED  BY <1>4, <1>5, <1>6, <2>1, SeqEqual
<1> QED  BY <1>4, <1>5, <1>6

LEMMA OpenReceiver ==
    ASSUME NEW name \in Names, NEW f \in Contents, NEW existed \in BOOLEAN,
           NEW left \in Contents, Open(name, f, existed, left)
    PROVE  FileInv' /\ stage' \in {"checking", "receiving"}
<1> DEFINE there == IF existed THEN left ELSE <<0>>
<1>1. f \in Seq(Bytes) /\ f # <<>>
  BY ContentsType DEF Open
<1>2. /\ stage' \in {"checking", "receiving"}
      /\ original'.bytes = f /\ original'.name = name
      /\ info' = FromBuffer(ToBuffer(InfoOf(name, f)))
      /\ disk' = Resized(there, info'.file_size)
      /\ offset' = 0 /\ have' = {}
  BY DEF Open
<1>3. info' = InfoOf(name, f)
  BY <1>1, <1>2, InfoComesBack
<1>4. there \in Seq(Bytes)
  <2>1. left \in Seq(Bytes)
    BY ContentsType
  <2>2. 0 \in Bytes
    BY InfoFacts DEF Bytes
  <2> QED  BY <2>1, <2>2
<1> HIDE DEF there
<1>5. disk' \in Seq(Bytes) /\ Len(disk') = Len(f)
  <2>1. info'.file_size = Len(f) /\ Len(f) \in Nat
    BY <1>1, <1>3, CutFacts
  <2> QED  BY <1>2, <1>4, <2>1, ResizedFacts
<1>6. LastChunk' = LastOf(f) /\ 0 \in 0 .. LastOf(f) /\ 0 = 0 * ChunkBytes
  <2>1. LastOf(f) \in Nat
    BY <1>1, CutFacts
  <2> QED  BY <1>2, <2>1, InfoFacts DEF LastChunk
<1>7. FileIsThere'
  BY <1>1, <1>2, <1>5, <1>6 DEF FileIsThere
<1>8. HashedSoFar'
  BY <1>2 DEF HashedSoFar
<1>9. WholeInfo'
  BY <1>2, <1>3 DEF WholeInfo, Cut
<1>10. CheckedSoFar'
  <2>1. 0 .. 0 - 1 = {}
    OBVIOUS
  <2>2. have' = {d \in 0 .. 0 - 1 : Right(d, disk)'}
    BY <1>2, <2>1
  <2> QED  BY <1>2, <1>6, <2>2 DEF CheckedSoFar
<1>11. HaveIsRight'
  BY <1>2 DEF HaveIsRight
<1> QED  BY <1>2, <1>7, <1>8, <1>9, <1>10, <1>11 DEF FileInv

\* The place of the loops.
LEMMA FileFacts ==
    ASSUME FileInv, stage # "idle"
    PROVE  /\ original.bytes \in Seq(Bytes) /\ original.bytes # <<>>
           /\ disk \in Seq(Bytes) /\ Len(disk) = Len(original.bytes)
           /\ LastChunk = LastOf(original.bytes) /\ LastChunk \in Nat /\ Len(disk) \in Nat
           /\ have \subseteq 0 .. LastChunk
           /\ stage \in {"hashing", "shared", "checking", "receiving"}
<1>1. /\ original.bytes \in Seq(Bytes) /\ original.bytes # <<>>
      /\ disk \in Seq(Bytes) /\ Len(disk) = Len(original.bytes)
      /\ have \subseteq 0 .. LastChunk
      /\ stage \in {"hashing", "shared", "checking", "receiving"}
  BY DEF FileInv, FileIsThere
<1>2. LastOf(original.bytes) \in Nat
  BY <1>1, CutFacts
<1> QED  BY <1>1, <1>2 DEF LastChunk

\* Each loop goes on to the last chunk.
LEMMA InFullFacts ==
    ASSUME FileInv, stage # "idle", info.chunk_size = ChunkBytes,
           NEW c \in 0 .. LastChunk, offset = c * ChunkBytes
    PROVE  /\ InFull <=> c < LastChunk
           /\ ~InFull => c = LastChunk /\ offset < Len(disk)
           /\ offset \in Nat
           /\ InFull => c + 1 \in 0 .. LastChunk /\ offset + info.chunk_size = (c + 1) * ChunkBytes
           /\ FullChunk = ChunkOf(Cut, disk, c)
           /\ ~InFull => Rest = ChunkOf(Cut, disk, c)
           /\ Current = c
           /\ Cut.chunks[c + 1] = Hash(ChunkOf(Cut, original.bytes, c))
<1> DEFINE f == original.bytes
<1>1. /\ f \in Seq(Bytes) /\ f # <<>> /\ disk \in Seq(Bytes) /\ Len(disk) = Len(f)
      /\ LastChunk = LastOf(f) /\ LastChunk \in Nat /\ Len(f) \in Nat
  BY FileFacts
<1>2. Cut = InfoOf(original.name, f)
  BY DEF Cut
<1> HIDE DEF f
<1>3. /\ c * ChunkBytes \in Nat /\ c * ChunkBytes < Len(f)
      /\ (c + 1) * ChunkBytes = c * ChunkBytes + ChunkBytes
      /\ c * ChunkBytes + ChunkBytes < Len(f) <=> c < LastChunk
      /\ c = LastChunk => ChunkLength(Cut, c) = Len(f) - c * ChunkBytes
      /\ FileOffset(Cut, c) = c * ChunkBytes
  BY <1>1, <1>2, PlaceFacts
<1>4. /\ ChunkOf(Cut, disk, c) = Slice(disk, c * ChunkBytes, ChunkBytes)
      /\ Cut.chunks[c + 1] = Hash(ChunkOf(Cut, f, c))
  BY <1>1, <1>2, ChunkFacts
<1>5. InFull <=> c < LastChunk
  BY <1>1, <1>3 DEF InFull
<1>6. ~InFull => c = LastChunk /\ offset < Len(disk)
  BY <1>1, <1>3, <1>5
<1>7. InFull => c + 1 \in 0 .. LastChunk /\ offset + info.chunk_size = (c + 1) * ChunkBytes
  BY <1>1, <1>3, <1>5
<1>8. FullChunk = ChunkOf(Cut, disk, c)
  BY <1>4 DEF FullChunk
<1>9. ~InFull => Rest = ChunkOf(Cut, disk, c)
  BY <1>1, <1>3, <1>6 DEF Rest, ChunkOf
<1>10. Current = c
  <2>1. PICK p \in Nat : p = c * ChunkBytes
    BY <1>3
  <2>2. c * ChunkBytes <= p /\ p < (c + 1) * ChunkBytes /\ c \in Nat
    BY <1>1, <1>3, <2>1, InfoFacts
  <2>3. p \div ChunkBytes = c
    BY <2>2, InfoFacts, QuotientUnique
  <2> QED  BY <2>1, <2>3 DEF Current
<1> QED  BY <1>3, <1>4, <1>5, <1>6, <1>7, <1>8, <1>9, <1>10 DEF f

LEMMA HashFullStep ==
    ASSUME FileInv, HashFull PROVE FileInv' /\ stage' # "idle"
<1> DEFINE f == original.bytes
           c == Len(info.chunks)
           h == Hash(FullChunk)
<1>1. /\ stage = "hashing" /\ InFull
      /\ info' = [info EXCEPT !.chunks = Append(info.chunks, h)]
      /\ offset' = offset + info.chunk_size
      /\ stage' = stage /\ original' = original /\ disk' = disk /\ have' = have
  BY DEF HashFull
<1>2. /\ disk = f /\ have = {}
      /\ info = [file_name |-> original.name, file_size |-> Len(f),
                 chunk_size |-> ChunkBytes, chunks |-> info.chunks]
      /\ info.chunks \in Seq(Seq(Parts))
      /\ offset = c * ChunkBytes /\ c \in 0 .. LastChunk
      /\ \A k \in 1 .. c : info.chunks[k] = Cut.chunks[k]
  BY <1>1 DEF FileInv, HashedSoFar
<1>3. info.chunk_size = ChunkBytes
  BY <1>2
<1>4. /\ f \in Seq(Bytes) /\ f # <<>> /\ LastChunk = LastOf(f) /\ LastChunk \in Nat
  BY <1>1, FileFacts
<1>5. /\ c + 1 \in 0 .. LastChunk /\ offset' = (c + 1) * ChunkBytes
      /\ h = Cut.chunks[c + 1] /\ c + 1 <= LastChunk
  <2>1. /\ InFull => c + 1 \in 0 .. LastChunk /\ offset + info.chunk_size = (c + 1) * ChunkBytes
        /\ FullChunk = ChunkOf(Cut, disk, c)
        /\ Cut.chunks[c + 1] = Hash(ChunkOf(Cut, f, c))
    BY <1>1, <1>2, <1>3, InFullFacts
  <2> QED  BY <1>1, <1>2, <1>4, <2>1
<1>6. h \in Seq(Parts)
  <2>1. /\ Cut.chunks \in Seq(Seq(Parts)) /\ Len(Cut.chunks) = LastChunk + 1
    BY <1>4, CutType, CutFacts DEF Cut
  <2>2. c + 1 \in 1 .. Len(Cut.chunks)
    BY <1>4, <1>5, <1>2, <2>1
  <2> HIDE DEF h, c
  <2> QED  BY <1>5, <2>1, <2>2
<1>7. LastChunk' = LastChunk /\ Cut' = Cut
  BY <1>1 DEF LastChunk, Cut
<1> HIDE DEF c, h, f
<1> DEFINE t == Append(info.chunks, h)
<1>8. /\ t \in Seq(Seq(Parts)) /\ Len(t) = c + 1
      /\ \A k \in 1 .. c : t[k] = info.chunks[k]
      /\ t[c + 1] = h
  BY <1>2, <1>6 DEF c
<1>9. info' = [file_name |-> original.name, file_size |-> Len(f),
               chunk_size |-> ChunkBytes, chunks |-> t] /\ info'.chunks = t
  <2>1. PICK s : info = [file_name |-> original.name, file_size |-> Len(f),
                         chunk_size |-> ChunkBytes, chunks |-> s]
    BY <1>2
  <2>2. info' = [info EXCEPT !.chunks = t]
    BY <1>1
  <2> HIDE DEF t
  <2> QED  BY <2>1, <2>2
<1> HIDE DEF t
<1>10. \A k \in 1 .. c + 1 : t[k] = Cut.chunks[k]
  <2> SUFFICES ASSUME NEW k \in 1 .. c + 1 PROVE t[k] = Cut.chunks[k]
    OBVIOUS
  <2>1. CASE k \in 1 .. c
    BY <1>2, <1>8, <2>1
  <2>2. CASE k = c + 1
    BY <1>5, <1>8, <2>2
  <2> QED  BY <1>2, <2>1, <2>2
<1>11. HashedSoFar'
  BY <1>1, <1>2, <1>5, <1>7, <1>8, <1>9, <1>10 DEF HashedSoFar, f
<1>12. FileIsThere'
  <2>1. /\ original.bytes \in Seq(Bytes) /\ original.bytes # <<>>
        /\ disk \in Seq(Bytes) /\ Len(disk) = Len(original.bytes)
        /\ have \subseteq 0 .. LastChunk
    BY <1>1, FileFacts
  <2> QED  BY <1>1, <1>5, <1>7, <2>1 DEF FileIsThere
<1> QED  BY <1>1, <1>11, <1>12 DEF FileInv, WholeInfo, CheckedSoFar, HaveIsRight

LEMMA HashRestStep ==
    ASSUME FileInv, HashRest PROVE FileInv' /\ stage' # "idle"
<1> DEFINE f == original.bytes
           c == Len(info.chunks)
           h == Hash(Rest)
<1>1. /\ stage = "hashing" /\ ~InFull
      /\ info' = IF offset < Len(disk) THEN [info EXCEPT !.chunks = Append(info.chunks, h)]
                 ELSE info
      /\ stage' = "shared" /\ have' = Indices(info')
      /\ original' = original /\ disk' = disk /\ offset' = offset
  BY DEF HashRest
<1>2. /\ disk = f
      /\ info = [file_name |-> original.name, file_size |-> Len(f),
                 chunk_size |-> ChunkBytes, chunks |-> info.chunks]
      /\ info.chunks \in Seq(Seq(Parts))
      /\ offset = c * ChunkBytes /\ c \in 0 .. LastChunk
      /\ \A k \in 1 .. c : info.chunks[k] = Cut.chunks[k]
  BY <1>1 DEF FileInv, HashedSoFar
<1>3. info.chunk_size = ChunkBytes
  BY <1>2
<1>4. /\ f \in Seq(Bytes) /\ f # <<>> /\ LastChunk = LastOf(f) /\ LastChunk \in Nat
  BY <1>1, FileFacts
<1>5. c = LastChunk /\ offset < Len(disk) /\ h = Cut.chunks[c + 1]
  <2>1. /\ ~InFull => c = LastChunk /\ offset < Len(disk)
        /\ ~InFull => Rest = ChunkOf(Cut, disk, c)
        /\ Cut.chunks[c + 1] = Hash(ChunkOf(Cut, f, c))
    BY <1>1, <1>2, <1>3, InFullFacts
  <2> QED  BY <1>1, <1>2, <2>1
<1>6. /\ Cut.chunks \in Seq(Seq(Parts)) /\ Len(Cut.chunks) = LastChunk + 1
      /\ Cut = [file_name |-> original.name, file_size |-> Len(f), chunk_size |-> ChunkBytes,
                chunks |-> Cut.chunks]
      /\ Indices(Cut) = 0 .. LastChunk
  BY <1>4, CutType, CutFacts DEF Cut
<1>7. h \in Seq(Parts)
  <2>1. c + 1 \in 1 .. Len(Cut.chunks)
    BY <1>4, <1>5, <1>6
  <2> HIDE DEF h, c
  <2> QED  BY <1>5, <1>6, <2>1
<1>8. LastChunk' = LastChunk /\ Cut' = Cut
  BY <1>1 DEF LastChunk, Cut
<1> HIDE DEF c, h, f
<1> DEFINE t == Append(info.chunks, h)
<1>9. /\ t \in Seq(Seq(Parts)) /\ Len(t) = c + 1
      /\ \A k \in 1 .. c : t[k] = info.chunks[k]
      /\ t[c + 1] = h
  BY <1>2, <1>7 DEF c
<1>10. info' = [file_name |-> original.name, file_size |-> Len(f),
                chunk_size |-> ChunkBytes, chunks |-> t]
  <2>1. PICK s : info = [file_name |-> original.name, file_size |-> Len(f),
                         chunk_size |-> ChunkBytes, chunks |-> s]
    BY <1>2
  <2>2. info' = [info EXCEPT !.chunks = t]
    BY <1>1, <1>5
  <2> HIDE DEF t
  <2> QED  BY <2>1, <2>2
<1> HIDE DEF t
<1>11. \A k \in 1 .. c + 1 : t[k] = Cut.chunks[k]
  <2> SUFFICES ASSUME NEW k \in 1 .. c + 1 PROVE t[k] = Cut.chunks[k]
    OBVIOUS
  <2>1. CASE k \in 1 .. c
    BY <1>2, <1>9, <2>1
  <2>2. CASE k = c + 1
    BY <1>5, <1>9, <2>2
  <2> QED  BY <1>2, <2>1, <2>2
<1>12. t = Cut.chunks
  <2>1. Len(t) = Len(Cut.chunks)
    BY <1>5, <1>6, <1>9
  <2> QED  BY <1>6, <1>9, <1>11, <2>1, SeqEqual
<1>13. info' = Cut
  BY <1>6, <1>10, <1>12
<1>14. FileIsThere'
  <2>1. /\ original.bytes \in Seq(Bytes) /\ original.bytes # <<>>
        /\ disk \in Seq(Bytes) /\ Len(disk) = Len(original.bytes)
    BY <1>1, FileFacts
  <2>2. have' = 0 .. LastChunk
    BY <1>1, <1>6, <1>13
  <2> QED  BY <1>1, <1>2, <1>8, <2>1, <2>2 DEF FileIsThere
<1> QED  BY <1>1, <1>8, <1>13, <1>14
         DEF FileInv, HashedSoFar, WholeInfo, CheckedSoFar, HaveIsRight

\* While a receiver looks for chunks: the place, and what the comparison says.
LEMMA CheckingFacts ==
    ASSUME FileInv, stage = "checking"
    PROVE  /\ info = Cut /\ info.chunk_size = ChunkBytes /\ Len(info.chunks) = LastChunk + 1
           /\ \E c \in 0 .. LastChunk :
                /\ offset = c * ChunkBytes
                /\ have = {d \in 0 .. c - 1 : Right(d, disk)}
                /\ info.chunks[c + 1] = Hash(ChunkOf(Cut, disk, c)) <=> Right(c, disk)
<1>1. info = Cut
  BY DEF FileInv, WholeInfo
<1>2. /\ original.bytes \in Seq(Bytes) /\ original.bytes # <<>>
      /\ disk \in Seq(Bytes) /\ Len(disk) = Len(original.bytes)
      /\ LastChunk = LastOf(original.bytes)
  BY FileFacts
<1>3. info.chunk_size = ChunkBytes /\ Len(info.chunks) = LastChunk + 1
  BY <1>1, <1>2, CutFacts DEF Cut
<1>4. PICK c \in 0 .. LastChunk :
         offset = c * ChunkBytes /\ have = {d \in 0 .. c - 1 : Right(d, disk)}
  BY DEF FileInv, CheckedSoFar
<1>5. /\ Cut.chunks[c + 1] = Hash(ChunkOf(Cut, original.bytes, c))
      /\ Hash(ChunkOf(Cut, original.bytes, c)) = Hash(ChunkOf(Cut, disk, c))
            <=> ChunkOf(Cut, original.bytes, c) = ChunkOf(Cut, disk, c)
  BY <1>2, ChunkFacts, RightFacts DEF Cut
<1>6. info.chunks[c + 1] = Hash(ChunkOf(Cut, disk, c)) <=> Right(c, disk)
  BY <1>1, <1>5 DEF Right
<1> QED  BY <1>1, <1>3, <1>4, <1>6

LEMMA CheckFullStep ==
    ASSUME FileInv, CheckFull PROVE FileInv' /\ stage' # "idle"
<1>1. /\ stage = "checking" /\ InFull
      /\ have' = have \cup {c \in {Current} : info.chunks[c + 1] = Hash(FullChunk)}
      /\ offset' = offset + info.chunk_size
      /\ stage' = stage /\ original' = original /\ info' = info /\ disk' = disk
  BY DEF CheckFull
<1>2. info = Cut /\ info.chunk_size = ChunkBytes
  BY <1>1, CheckingFacts
<1>3. PICK c \in 0 .. LastChunk :
        /\ offset = c * ChunkBytes
        /\ have = {d \in 0 .. c - 1 : Right(d, disk)}
        /\ info.chunks[c + 1] = Hash(ChunkOf(Cut, disk, c)) <=> Right(c, disk)
  BY <1>1, CheckingFacts
<1>4. /\ c + 1 \in 0 .. LastChunk /\ offset' = (c + 1) * ChunkBytes
      /\ FullChunk = ChunkOf(Cut, disk, c) /\ Current = c
  <2>1. /\ InFull => c + 1 \in 0 .. LastChunk /\ offset + info.chunk_size = (c + 1) * ChunkBytes
        /\ FullChunk = ChunkOf(Cut, disk, c)
        /\ Current = c
    BY <1>1, <1>2, <1>3, InFullFacts
  <2> QED  BY <1>1, <2>1
<1>5. have' = {d \in 0 .. (c + 1) - 1 : Right(d, disk)}
  <2>1. have' = have \cup {d \in {c} : Right(d, disk)}
    BY <1>1, <1>3, <1>4
  <2>2. c \in Nat /\ LastChunk \in Nat
    BY <1>1, FileFacts
  <2> QED  BY <1>3, <2>1, <2>2
<1>6. \A d : Right(d, disk)' <=> Right(d, disk)
  BY <1>1 DEF Right
<1>7. LastChunk' = LastChunk /\ Cut' = Cut
  BY <1>1 DEF LastChunk, Cut
<1>8. CheckedSoFar'
  <2>1. have' = {d \in 0 .. (c + 1) - 1 : Right(d, disk)'}
    BY <1>5, <1>6
  <2> QED  BY <1>4, <1>7, <2>1 DEF CheckedSoFar
<1>9. FileIsThere'
  <2>1. /\ original.bytes \in Seq(Bytes) /\ original.bytes # <<>>
        /\ disk \in Seq(Bytes) /\ Len(disk) = Len(original.bytes)
        /\ LastChunk \in Nat
    BY <1>1, FileFacts
  <2>2. have' \subseteq 0 .. LastChunk
    BY <1>4, <1>5, <2>1
  <2> QED  BY <1>1, <1>4, <1>7, <2>1, <2>2 DEF FileIsThere
<1>10. WholeInfo'
  BY <1>1, <1>2, <1>7 DEF WholeInfo
<1> QED  BY <1>1, <1>8, <1>9, <1>10 DEF FileInv, HashedSoFar, HaveIsRight

\* The last comparison finds the last chunk, if it is right.
LEMMA CheckRestFinds ==
    ASSUME FileInv, CheckRest
    PROVE  have' = {d \in 0 .. LastChunk : Right(d, disk)}
<1>1. /\ stage = "checking" /\ ~InFull
      /\ have' = IF offset < Len(disk) /\ info.chunks[Len(info.chunks)] = Hash(Rest)
                 THEN have \cup {Len(info.chunks) - 1} ELSE have
  BY DEF CheckRest
<1>2. info.chunk_size = ChunkBytes /\ Len(info.chunks) = LastChunk + 1
  BY <1>1, CheckingFacts
<1>3. PICK c \in 0 .. LastChunk :
        /\ offset = c * ChunkBytes
        /\ have = {d \in 0 .. c - 1 : Right(d, disk)}
        /\ info.chunks[c + 1] = Hash(ChunkOf(Cut, disk, c)) <=> Right(c, disk)
  BY <1>1, CheckingFacts
<1>4. c = LastChunk /\ offset < Len(disk) /\ Rest = ChunkOf(Cut, disk, c)
  <2>1. /\ ~InFull => c = LastChunk /\ offset < Len(disk)
        /\ ~InFull => Rest = ChunkOf(Cut, disk, c)
    BY <1>1, <1>2, <1>3, InFullFacts
  <2> QED  BY <1>1, <2>1
<1>5. LastChunk \in Nat
  BY <1>1, FileFacts
<1>6. Len(info.chunks) = c + 1 /\ Len(info.chunks) - 1 = c
  BY <1>2, <1>4, <1>5
<1>7. have' = IF Right(c, disk) THEN have \cup {c} ELSE have
  BY <1>1, <1>3, <1>4, <1>6
<1>8. 0 .. LastChunk = 0 .. c - 1 \cup {c}
  BY <1>4, <1>5
<1> QED  BY <1>3, <1>7, <1>8

LEMMA CheckRestStep ==
    ASSUME FileInv, CheckRest PROVE FileInv' /\ stage' # "idle"
<1>1. /\ stage = "checking" /\ stage' = "receiving"
      /\ original' = original /\ info' = info /\ offset' = offset /\ disk' = disk
  BY DEF CheckRest
<1>2. info = Cut
  BY <1>1, CheckingFacts
<1>3. have' = {d \in 0 .. LastChunk : Right(d, disk)}
  BY CheckRestFinds
<1>4. \A d : Right(d, disk)' <=> Right(d, disk)
  BY <1>1 DEF Right
<1>5. LastChunk' = LastChunk /\ Cut' = Cut
  BY <1>1 DEF LastChunk, Cut
<1>6. HaveIsRight'
  BY <1>3, <1>4 DEF HaveIsRight
<1>7. FileIsThere'
  <2>1. /\ original.bytes \in Seq(Bytes) /\ original.bytes # <<>>
        /\ disk \in Seq(Bytes) /\ Len(disk) = Len(original.bytes)
        /\ \E c \in 0 .. LastChunk : offset = c * ChunkBytes
    BY <1>1 DEF FileInv, FileIsThere
  <2>2. have' \subseteq 0 .. LastChunk
    BY <1>3
  <2> QED  BY <1>1, <1>5, <2>1, <2>2 DEF FileIsThere
<1>8. WholeInfo'
  BY <1>1, <1>2, <1>5 DEF WholeInfo
<1> QED  BY <1>1, <1>6, <1>7, <1>8 DEF FileInv, HashedSoFar, CheckedSoFar

LEMMA ReopenStep ==
    ASSUME FileInv, Reopen PROVE FileInv' /\ stage' # "idle"
<1>1. /\ stage \in {"checking", "receiving"} /\ stage' = "checking"
      /\ offset' = 0 /\ have' = {} /\ disk' = Resized(disk, info.file_size)
      /\ original' = original /\ info' = info
  BY DEF Reopen
<1>2. /\ original.bytes \in Seq(Bytes) /\ original.bytes # <<>>
      /\ disk \in Seq(Bytes) /\ Len(disk) = Len(original.bytes)
      /\ LastChunk = LastOf(original.bytes) /\ LastChunk \in Nat /\ Len(disk) \in Nat
  BY <1>1, FileFacts
<1>3. info = Cut
  BY <1>1 DEF FileInv, WholeInfo
<1>4. info.file_size = Len(disk)
  <2>1. Cut.file_size = Len(original.bytes)
    BY <1>2, CutFacts DEF Cut
  <2> QED  BY <1>2, <1>3, <2>1
<1>5. disk' = disk
  BY <1>1, <1>2, <1>4, ResizedFacts
<1>6. LastChunk' = LastChunk /\ Cut' = Cut
  BY <1>1 DEF LastChunk, Cut
<1>7. 0 \in 0 .. LastChunk /\ 0 = 0 * ChunkBytes /\ 0 .. 0 - 1 = {}
  BY <1>2, InfoFacts
<1>8. CheckedSoFar'
  <2>1. have' = {d \in 0 .. 0 - 1 : Right(d, disk)'}
    BY <1>1, <1>7
  <2> QED  BY <1>1, <1>6, <1>7, <2>1 DEF CheckedSoFar
<1>9. FileIsThere'
  BY <1>1, <1>2, <1>5, <1>6, <1>7 DEF FileIsThere
<1>10. WholeInfo'
  BY <1>1, <1>3, <1>6 DEF WholeInfo
<1> QED  BY <1>1, <1>8, <1>9, <1>10 DEF FileInv, HashedSoFar, HaveIsRight

\* What a write changes.
LEMMA OverwrittenFacts ==
    ASSUME NEW g \in Seq(Bytes), NEW at \in Nat, NEW n \in Nat, NEW s, DOMAIN s = 1 .. n,
           \A k \in 1 .. n : s[k] \in Bytes
    PROVE  /\ Overwritten(g, at, s) \in Seq(Bytes) /\ Len(Overwritten(g, at, s)) = Len(g)
           /\ \A k \in 1 .. Len(g) :
                 k <= at \/ at + n < k => Overwritten(g, at, s)[k] = g[k]
<1> DEFINE o == Overwritten(g, at, s)
<1>1. Len(g) \in Nat /\ DOMAIN g = 1 .. Len(g)
  OBVIOUS
<1>2. o = [k \in 1 .. Len(g) |-> IF k - at \in 1 .. n THEN s[k - at] ELSE g[k]]
  BY <1>1 DEF Overwritten
<1>3. ASSUME NEW k \in 1 .. Len(g)
      PROVE  (IF k - at \in 1 .. n THEN s[k - at] ELSE g[k]) \in Bytes
  BY <1>1
<1> HIDE DEF o
<1>4. o \in [1 .. Len(g) -> Bytes]
  BY <1>2, <1>3
<1>5. o \in Seq(Bytes) /\ Len(o) = Len(g)
  BY <1>1, <1>2, <1>4, FunctionIsSequence
<1>6. ASSUME NEW k \in 1 .. Len(g), k <= at \/ at + n < k PROVE o[k] = g[k]
  <2>1. k - at \notin 1 .. n
    BY <1>1, <1>6
  <2> QED  BY <1>2, <2>1
<1> QED  BY <1>5, <1>6 DEF o

\* Chunks do not overlap.
LEMMA Apart ==
    ASSUME NEW c \in Nat, NEW d \in Nat, c < d, NEW n \in Nat
    PROVE  c * n \in Nat /\ d * n \in Nat /\ c * n + n <= d * n
<1>1. c + 1 \in Nat /\ c + 1 <= d
  OBVIOUS
<1>2. (c + 1) * n <= d * n
  BY <1>1, TimesMonotonic
<1>3. (c + 1) * n = c * n + n /\ c * n \in Nat /\ d * n \in Nat
  OBVIOUS
<1> QED  BY <1>2, <1>3

LEMMA ReceiveChunkStep ==
    ASSUME FileInv, NEW c \in Indices(info), NEW n \in 1 .. ChunkLength(info, c),
           NEW right \in BOOLEAN, ReceiveChunk(c, n, right)
    PROVE  FileInv' /\ stage' # "idle"
<1> DEFINE f == original.bytes
           m == ChunkLength(info, c)
           p == c * ChunkBytes
           sent == Slice(f, p, n)
           bytes == IF right THEN sent ELSE [k \in DOMAIN sent |-> Base - 1 - sent[k]]
<1>1. /\ stage = "receiving" /\ c \notin have
      /\ disk' = Overwritten(disk, FileOffset(info, c),
                    IF right THEN Slice(f, FileOffset(info, c), n)
                    ELSE [k \in DOMAIN Slice(f, FileOffset(info, c), n) |->
                             Base - 1 - Slice(f, FileOffset(info, c), n)[k]])
      /\ have' = IF n = m /\ Hash(ChunkOf(info, disk', c)) = info.chunks[c + 1]
                 THEN have \cup {c} ELSE have
      /\ stage' = stage /\ original' = original /\ info' = info /\ offset' = offset
  BY DEF ReceiveChunk
<1>2. /\ f \in Seq(Bytes) /\ f # <<>> /\ disk \in Seq(Bytes) /\ Len(disk) = Len(f)
      /\ LastChunk = LastOf(f) /\ LastChunk \in Nat /\ Len(f) \in Nat /\ have \subseteq 0 .. LastChunk
  BY <1>1, FileFacts
<1>3. info = Cut
  BY <1>1 DEF FileInv, WholeInfo
<1>4. c \in 0 .. LastChunk /\ c \in Nat
  <2>1. Indices(info) = 0 .. LastChunk
    BY <1>2, <1>3, CutFacts DEF Cut
  <2> QED  BY <1>2, <2>1
<1>5. /\ p \in Nat /\ m \in 1 .. ChunkBytes /\ p + m <= Len(f) /\ FileOffset(info, c) = p
  BY <1>2, <1>3, <1>4, PlaceFacts DEF Cut
<1>6. disk' = Overwritten(disk, p, bytes)
  BY <1>1, <1>5
<1>7. n \in Nat /\ n <= m
  BY <1>5
<1>8. DOMAIN bytes = 1 .. n /\ \A k \in 1 .. n : bytes[k] \in Bytes
  <2>1. p + n <= Len(f)
    <3>1. ASSUME NEW q \in Nat, NEW l \in Nat, q + l <= Len(f), n <= l PROVE q + n <= Len(f)
      BY <1>2, <1>7, <3>1
    <3>2. m \in Nat
      BY <1>5, InfoFacts
    <3> QED  BY <1>5, <1>7, <3>1, <3>2
  <2>2. /\ sent \in Seq(Bytes) /\ Len(sent) = n
    <3>1. PICK q \in Nat : q = p
      BY <1>5
    <3>2. /\ Slice(f, q, n) \in Seq(Bytes) /\ Len(Slice(f, q, n)) = n
      <4>1. Within(Bytes, f, q, n)
        BY <1>2, <1>7, <2>1, <3>1 DEF Within
      <4>2. IsPart(Slice(f, q, n), Bytes, f, q, n)
        BY <4>1, SliceIsPart
      <4> QED  BY <4>2 DEF IsPart
    <3> QED  BY <3>1, <3>2
  <2> HIDE DEF sent
  <2>3. DOMAIN sent = 1 .. n /\ \A k \in 1 .. n : sent[k] \in Bytes
    BY <2>2, <1>7
  <2>4. \A b \in Bytes : Base - 1 - b \in Bytes
    BY InfoFacts DEF Bytes
  <2> QED  BY <2>3, <2>4
<1> HIDE DEF p, m, bytes, f
<1>9. /\ disk' \in Seq(Bytes) /\ Len(disk') = Len(f)
      /\ \A k \in 1 .. Len(f) : k <= p \/ p + n < k => disk'[k] = disk[k]
  BY <1>2, <1>5, <1>6, <1>7, <1>8, OverwrittenFacts
<1>10. ASSUME NEW d \in 0 .. LastChunk, d # c
       PROVE  ChunkOf(Cut, disk', d) = ChunkOf(Cut, disk, d)
  <2>1. /\ d * ChunkBytes \in Nat /\ ChunkLength(Cut, d) \in 1 .. ChunkBytes
        /\ d * ChunkBytes + ChunkLength(Cut, d) <= Len(f)
    BY <1>2, PlaceFacts DEF Cut, f
  <2>2. PICK q \in Nat : q = d * ChunkBytes
    BY <2>1
  <2>3. q + ChunkBytes <= p \/ p + ChunkBytes <= q
    <3>1. d \in Nat /\ (d < c \/ c < d)
      BY <1>2, <1>4, <1>10
    <3> QED  BY <1>4, <2>2, <3>1, InfoFacts, Apart DEF p
  <2>4. ASSUME NEW j \in 1 .. ChunkLength(Cut, d)
        PROVE  disk'[d * ChunkBytes + j] = disk[d * ChunkBytes + j]
    <3>1. PICK l \in Nat : l = ChunkLength(Cut, d)
      BY <2>1, InfoFacts
    <3>2. l <= ChunkBytes /\ q + l <= Len(f) /\ j \in 1 .. l
      BY <2>1, <2>2, <3>1, InfoFacts
    <3>3. q + j \in 1 .. Len(f) /\ (q + j <= p \/ p + n < q + j)
      BY <1>2, <1>5, <1>7, <2>3, <3>2, InfoFacts
    <3>4. disk'[q + j] = disk[q + j]
      BY <1>9, <3>3
    <3> QED  BY <2>2, <3>4
  <2> QED  BY <1>2, <1>9, <2>4, RightFacts DEF Cut, f
<1>11. LastChunk' = LastChunk /\ Cut' = Cut
  BY <1>1 DEF LastChunk, Cut
<1>12. have' \subseteq 0 .. LastChunk
  BY <1>1, <1>2, <1>4
<1>13. HaveIsRight'
  <2> SUFFICES ASSUME NEW d \in have' PROVE ChunkOf(Cut, disk', d) = ChunkOf(Cut, f, d)
    BY <1>1, <1>3, <1>11 DEF HaveIsRight, Right, f
  <2>1. CASE d # c
    <3>1. d \in have /\ d \in 0 .. LastChunk
      BY <1>1, <1>12, <2>1
    <3>2. ChunkOf(Cut, disk, d) = ChunkOf(Cut, f, d)
      BY <1>1, <1>3, <3>1 DEF FileInv, HaveIsRight, Right, f
    <3> QED  BY <1>10, <2>1, <3>1, <3>2
  <2>2. CASE d = c
    <3>1. Hash(ChunkOf(Cut, disk', c)) = Cut.chunks[c + 1]
      BY <1>1, <1>3, <2>2
    <3>2. Cut.chunks[c + 1] = Hash(ChunkOf(Cut, f, c))
      BY <1>2, <1>4, ChunkFacts DEF Cut, f
    <3>3. ChunkOf(Cut, disk', c) = ChunkOf(Cut, f, c)
      BY <1>2, <1>4, <1>9, <3>1, <3>2, RightFacts DEF Cut, f
    <3> QED  BY <2>2, <3>3
  <2> QED  BY <2>1, <2>2
<1>14. FileIsThere'
  <2>1. \E k \in 0 .. LastChunk : offset = k * ChunkBytes
    BY <1>1 DEF FileInv, FileIsThere
  <2> QED  BY <1>1, <1>2, <1>9, <1>11, <1>12, <2>1 DEF FileIsThere, f
<1>15. WholeInfo'
  BY <1>1, <1>3, <1>11 DEF WholeInfo
<1> QED  BY <1>1, <1>13, <1>14, <1>15 DEF FileInv, HashedSoFar, CheckedSoFar
-----------------------------------------------------------------------------
(* What it says.                                                           *)

LEMMA TypeFollows == FileInv => FileTypeOK
<1> SUFFICES ASSUME FileInv PROVE FileTypeOK
  OBVIOUS
<1>1. CASE stage = "idle"
  <2>1. offset = 0 /\ disk = <<>> /\ have = {}
    BY <1>1 DEF FileInv, FileIsThere
  <2>2. Len(<<>>) = 0
    OBVIOUS
  <2> QED  BY <1>1, <2>1, <2>2 DEF FileTypeOK
<1>2. CASE stage # "idle"
  <2>1. /\ original.bytes \in Seq(Bytes) /\ original.bytes # <<>>
        /\ Len(disk) = Len(original.bytes) /\ Len(disk) \in Nat
        /\ LastChunk = LastOf(original.bytes) /\ LastChunk \in Nat /\ have \subseteq 0 .. LastChunk
        /\ stage \in {"hashing", "shared", "checking", "receiving"}
    BY <1>2, FileFacts
  <2>2. offset \in 0 .. Len(disk)
    <3>1. PICK c \in 0 .. LastChunk : offset = c * ChunkBytes
      BY <1>2 DEF FileInv, FileIsThere
    <3>2. c * ChunkBytes \in Nat /\ c * ChunkBytes < Len(original.bytes)
      BY <2>1, PlaceFacts
    <3> QED  BY <2>1, <3>1, <3>2
  <2>3. have \subseteq Indices(info)
    <3>1. CASE stage = "hashing"
      BY <3>1 DEF FileInv, HashedSoFar
    <3>2. CASE stage # "hashing"
      <4>1. info = Cut
        BY <2>1, <3>2 DEF FileInv, WholeInfo
      <4>2. Indices(Cut) = 0 .. LastChunk
        BY <2>1, CutFacts DEF Cut
      <4> QED  BY <2>1, <4>1, <4>2
    <3> QED  BY <3>1, <3>2
  <2> QED  BY <2>1, <2>2, <2>3 DEF FileTypeOK
<1> QED  BY <1>1, <1>2

LEMMA CutFollows == FileInv => CutAsRead
<1> SUFFICES ASSUME FileInv, stage \in {"shared", "checking", "receiving"}
             PROVE  /\ info.file_name = original.name
                    /\ Indices(info) # {}
                    /\ \A c \in Indices(info) :
                          /\ ChunkLength(info, c) \in 1 .. ChunkBytes
                          /\ info.chunks[c + 1] = Hash(ChunkOf(info, original.bytes, c))
                    /\ FileOffset(info, Len(info.chunks) - 1)
                          + ChunkLength(info, Len(info.chunks) - 1) = Len(original.bytes)
  BY DEF CutAsRead
<1>1. info = Cut
  BY DEF FileInv, WholeInfo
<1>2. /\ original.bytes \in Seq(Bytes) /\ original.bytes # <<>>
      /\ LastChunk = LastOf(original.bytes) /\ LastChunk \in Nat
  BY FileFacts
<1>3. /\ Cut.file_name = original.name /\ Len(Cut.chunks) = LastChunk + 1
      /\ Indices(Cut) = 0 .. LastChunk /\ Len(original.bytes) \in Nat
  BY <1>2, CutFacts DEF Cut
<1>4. \A c \in 0 .. LastChunk :
         /\ ChunkLength(Cut, c) \in 1 .. ChunkBytes
         /\ Cut.chunks[c + 1] = Hash(ChunkOf(Cut, original.bytes, c))
  BY <1>2, PlaceFacts, ChunkFacts DEF Cut
<1>5. LastChunk \in 0 .. LastChunk /\ Len(Cut.chunks) - 1 = LastChunk
  BY <1>2, <1>3
<1>6. /\ FileOffset(Cut, LastChunk) = LastChunk * ChunkBytes /\ LastChunk * ChunkBytes \in Nat
      /\ ChunkLength(Cut, LastChunk) = Len(original.bytes) - LastChunk * ChunkBytes
  BY <1>2, <1>5, PlaceFacts DEF Cut
<1>7. FileOffset(Cut, LastChunk) + ChunkLength(Cut, LastChunk) = Len(original.bytes)
  BY <1>3, <1>6
<1> QED  BY <1>1, <1>3, <1>4, <1>5, <1>7

\* Each byte lies in a chunk.
LEMMA CompleteFollows == FileInv => FileComplete
<1> SUFFICES ASSUME FileInv, stage = "receiving", have = Indices(info)
             PROVE  disk = original.bytes
  BY DEF FileComplete
<1> DEFINE f == original.bytes
<1>1. info = Cut /\ \A c \in have : Right(c, disk)
  BY DEF FileInv, WholeInfo, HaveIsRight
<1>2. /\ f \in Seq(Bytes) /\ f # <<>> /\ disk \in Seq(Bytes) /\ Len(disk) = Len(f)
      /\ LastChunk = LastOf(f) /\ LastChunk \in Nat /\ Len(f) \in Nat
  BY FileFacts
<1>3. Indices(Cut) = 0 .. LastChunk
  BY <1>2, CutFacts DEF Cut
<1> HIDE DEF f
<1>4. ASSUME NEW k \in 1 .. Len(f) PROVE disk[k] = f[k]
  <2> DEFINE c == (k - 1) \div ChunkBytes
  <2>1. k - 1 \in Nat
    OBVIOUS
  <2>2. c \in Nat /\ c * ChunkBytes <= k - 1 /\ k - 1 < (c + 1) * ChunkBytes
    BY <2>1, InfoFacts, QuotientFacts
  <2> HIDE DEF c
  <2>3. (c + 1) * ChunkBytes = c * ChunkBytes + ChunkBytes /\ c * ChunkBytes \in Nat
    BY <2>2, InfoFacts
  <2>4. c \in 0 .. LastChunk
    <3> SUFFICES ASSUME LastChunk < c PROVE FALSE
      BY <1>2, <2>2
    <3>1. LastChunk * ChunkBytes \in Nat /\ LastChunk * ChunkBytes + ChunkBytes <= c * ChunkBytes
      BY <1>2, <2>2, InfoFacts, Apart
    <3>2. ~(LastChunk * ChunkBytes + ChunkBytes < Len(f))
      <4>1. LastChunk \in 0 .. LastChunk /\ ~(LastChunk < LastChunk)
        BY <1>2
      <4> QED  BY <1>2, <4>1, PlaceFacts
    <3> QED  BY <1>2, <2>2, <2>3, <3>1, <3>2, InfoFacts
  <2>5. PICK p \in Nat : p = c * ChunkBytes
    BY <2>3
  <2>6. k - p \in 1 .. ChunkLength(Cut, c)
    <3>1. /\ c < LastChunk => ChunkLength(Cut, c) = ChunkBytes
          /\ c = LastChunk => ChunkLength(Cut, c) = Len(f) - c * ChunkBytes
      BY <1>2, <2>4, PlaceFacts DEF Cut, f
    <3>2. k - p \in 1 .. ChunkBytes /\ k - p <= Len(f) - p
      BY <1>2, <2>2, <2>3, <2>5, InfoFacts
    <3> QED  BY <1>2, <2>4, <2>5, <3>1, <3>2, InfoFacts
  <2>7. ChunkOf(Cut, disk, c) = ChunkOf(Cut, f, c)
    BY <1>1, <1>3, <2>4 DEF Right, f
  <2>8. \A j \in 1 .. ChunkLength(Cut, c) : disk[c * ChunkBytes + j] = f[c * ChunkBytes + j]
    BY <1>2, <2>4, <2>7, RightFacts DEF Cut, f
  <2>9. disk[p + (k - p)] = f[p + (k - p)]
    BY <2>5, <2>6, <2>8
  <2>10. p + (k - p) = k
    BY <2>5
  <2> QED  BY <2>9, <2>10
<1> QED  BY <1>2, <1>4, SeqEqual DEF f

LEMMA FileInvKept == FileInv /\ stage # "idle" /\ Share => FileInv' /\ stage' # "idle"
<1> SUFFICES ASSUME FileInv, Share PROVE FileInv' /\ stage' # "idle"
  OBVIOUS
<1>1. CASE HashFull
  BY <1>1, HashFullStep
<1>2. CASE HashRest
  BY <1>2, HashRestStep
<1>3. CASE CheckFull
  BY <1>3, CheckFullStep
<1>4. CASE CheckRest
  BY <1>4, CheckRestStep
<1>5. ASSUME NEW c \in Indices(info), NEW n \in 1 .. ChunkLength(info, c),
             NEW right \in BOOLEAN, ReceiveChunk(c, n, right)
      PROVE  FileInv' /\ stage' # "idle"
  BY <1>5, ReceiveChunkStep
<1>6. CASE Reopen
  BY <1>6, ReopenStep
<1> QED  BY <1>1, <1>2, <1>3, <1>4, <1>5, <1>6 DEF Share
-----------------------------------------------------------------------------
(* The program.                                                            *)

\* A file is only shared by a program that runs.
ProgramFollows ==
    /\ program \in {"starting", "running", "exited", "threw", "crashed", "asserted"}
    /\ program = "running" <=> stage # "idle"

ProgramInv == FileInv /\ ProgramFollows

LEMMA ProgramInitInv == Init => ProgramInv
<1> SUFFICES ASSUME Init PROVE ProgramInv
  OBVIOUS
<1>1. /\ stage = "idle" /\ info = NewInfo(<<>>, <<>>) /\ offset = 0 /\ disk = <<>>
      /\ have = {} /\ program = "starting"
  BY DEF Init, FileInit
<1> QED  BY <1>1 DEF ProgramInv, ProgramFollows, FileInv, FileIsThere, HashedSoFar, WholeInfo,
                     CheckedSoFar, HaveIsRight

LEMMA FileInvStays == FileInv /\ UNCHANGED sharing => FileInv' /\ stage' = stage
BY DEF sharing, FileInv, FileIsThere, HashedSoFar, WholeInfo, CheckedSoFar, HaveIsRight,
       Cut, LastChunk, Right

LEMMA ProgramNextInv == ProgramInv /\ [Next]_vars => ProgramInv'
<1> SUFFICES ASSUME ProgramInv, [Next]_vars PROVE ProgramInv'
  OBVIOUS
<1>1. CASE UNCHANGED vars
  BY <1>1, FileInvStays DEF vars, ProgramInv, ProgramFollows
<1>2. CASE ParseArguments
  BY <1>2, FileInvStays DEF ParseArguments, ProgramInv, ProgramFollows
<1>3. ASSUME program = "starting", NEW how \in {"exited", "threw", "crashed", "asserted"},
             End(how)
      PROVE  ProgramInv'
  BY <1>3, FileInvStays DEF End, ProgramInv, ProgramFollows
<1>4. CASE EndAtParser
  <2>1. CASE parsing = "done" /\ shouldExit /\ End("exited")
    BY <1>3, <1>4, <2>1 DEF EndAtParser
  <2>2. CASE parsing \in {"threw", "crashed"} /\ End(parsing)
    BY <1>3, <1>4, <2>2 DEF EndAtParser
  <2> QED  BY <1>4, <2>1, <2>2 DEF EndAtParser
<1>5. CASE LaunchSender
  <2>1. CASE End("asserted")
    BY <1>3, <1>5, <2>1 DEF LaunchSender, Launched
  <2>2. ASSUME NEW name \in Names, NEW f \in Contents, SendStart(name, f), program' = "running"
        PROVE  ProgramInv'
    BY <2>2, StartHashing DEF ProgramInv, ProgramFollows
  <2> QED  BY <1>5, <2>1, <2>2 DEF LaunchSender
<1>6. CASE LaunchReceiver
  <2>1. ASSUME NEW how \in {"threw", "asserted"}, End(how) PROVE ProgramInv'
    BY <1>3, <1>6, <2>1 DEF LaunchReceiver, Launched
  <2>2. ASSUME NEW name \in Names, NEW f \in Contents, NEW existed \in BOOLEAN,
               NEW left \in Contents, Open(name, f, existed, left), program' = "running"
        PROVE  ProgramInv'
    BY <2>2, OpenReceiver DEF ProgramInv, ProgramFollows
  <2> QED  BY <1>6, <2>1, <2>2 DEF LaunchReceiver
<1>7. CASE Run
  BY <1>7, FileInvKept DEF Run, ProgramInv, ProgramFollows
<1> QED  BY <1>1, <1>2, <1>4, <1>5, <1>6, <1>7 DEF Next

\* The parts of ProgramInv hold in every state.
THEOREM FileInvariance == Spec => []ProgramInv
BY ProgramInitInv, ProgramNextInv, PTL DEF Spec

\* The parser and the file have their types: in particular the loop ends just behind
\* the last argument, the place in the file stays within it, and its size never changes
\* once it is mapped (command_line.cpp 33-72, receive_start_sha1.cpp 80-112).
THEOREM TypeCorrect == Spec => []TypeOK
<1>1. IInv /\ ProgramInv => TypeOK
  BY TypeFollows DEF IInv, ParserTypeOK, ProgramInv, ProgramFollows, TypeOK
<1> QED  BY <1>1, Invariance, FileInvariance, PTL

\* The chunks a sender has hashed, and those that come out of the buffer at a receiver,
\* are the chunks that are read and written later, for files of every size
\* (send_start_sha1.cpp 34-43, ft_sha1_info.cpp 31-121, sha1.cpp 462, 568-575).
THEOREM CutsAsRead == Spec => []CutAsRead
<1>1. ProgramInv => CutAsRead
  BY CutFollows DEF ProgramInv
<1> QED  BY <1>1, FileInvariance, PTL

\* A receiver that has every chunk has the sender's file, whatever its file held
\* before (receive_start_sha1.cpp 80-112, sha1.cpp 462-485).
THEOREM GetsTheFile == Spec => []FileComplete
<1>1. ProgramInv => FileComplete
  BY CompleteFollows DEF ProgramInv
<1> QED  BY <1>1, FileInvariance, PTL

\* The check of an existing file finds exactly the chunks that are right in it
\* (receive_start_sha1.cpp 87, 95-112).
THEOREM KeepsCorrectData == Spec => FindsWhatIsRight
<1> DEFINE Found == stage = "checking" /\ stage' = "receiving" =>
                       have' = {c \in Indices(info) : Right(c, disk)}
<1>1. ProgramInv /\ [Next]_vars => [Found]_sharing
  <2> SUFFICES ASSUME ProgramInv, [Next]_vars, stage = "checking", stage' = "receiving"
               PROVE  have' = {c \in Indices(info) : Right(c, disk)}
    OBVIOUS
  <2>1. CheckRest
    <3>1. stage' # stage /\ program = "running"
      BY DEF ProgramInv, ProgramFollows
    <3>2. ~(UNCHANGED vars) /\ ~ParseArguments /\ ~EndAtParser /\ ~LaunchSender /\ ~LaunchReceiver
      BY <3>1 DEF vars, sharing, ParseArguments, EndAtParser, LaunchSender, LaunchReceiver, Launched
    <3>3. Share
      BY <3>2 DEF Next, Run
    <3> QED  BY <3>3 DEF Share, HashFull, HashRest, CheckFull, ReceiveChunk, Reopen
  <2>2. have' = {d \in 0 .. LastChunk : Right(d, disk)}
    BY <2>1, CheckRestFinds DEF ProgramInv
  <2>3. Indices(info) = 0 .. LastChunk
    <3>1. info = Cut
      BY CheckingFacts DEF ProgramInv
    <3>2. /\ original.bytes \in Seq(Bytes) /\ original.bytes # <<>>
          /\ LastChunk = LastOf(original.bytes)
      BY FileFacts DEF ProgramInv
    <3> QED  BY <3>1, <3>2, CutFacts DEF Cut
  <2> QED  BY <2>2, <2>3
<1>2. [][Found]_sharing => FindsWhatIsRight
  BY PTL DEF FindsWhatIsRight
<1> HIDE DEF Found
<1> QED  BY <1>1, <1>2, FileInvariance, PTL DEF Spec
==============================================================================
