-------------------------- MODULE SHA1DownloadLive --------------------------
(***************************************************************************)
(* Does the download finish?  For an arbitrary time the program and its    *)
(* peers do all that SHA1Download allows: offers come late, transfers are  *)
(* lost, data is wrong, the program is restarted.  Then the group becomes  *)
(* stable: a peer that has every chunk is there, offers are only made for  *)
(* chunks that are requested, ids are not used again within the ten        *)
(* seconds an entry lives, and transfers neither break nor carry wrong     *)
(* data.  Timers may still run out before an answer arrives, but not       *)
(* every time.                                                             *)
(***************************************************************************)
EXTENDS SHA1Download

VARIABLE stable  \* the group has become stable

liveVars == <<vars, stable>>

LiveInit == Init /\ stable = FALSE

Stabilise == ~stable /\ stable' = TRUE /\ UNCHANGED vars

\* A peer offers chunk c while the request for it is not given up.
Answer(c) ==
    /\ c \in DOMAIN requested
    /\ \E p \in Peers, t \in TransferIds :
          /\ \A r \in receiving : <<r.peer, r.id>> # <<p, t>>
          /\ ReceiveInit(p, t, HashOf[c])

\* The block b of chunk c arrives for a transfer that has an entry.  It is the right
\* one, but not for an entry of another chunk, which is left from the time before.
Deliver(c, b) ==
    \E x \in incoming :
        /\ x.chunk = c /\ x.next = b /\ Entry(x) # {}
        /\ ReceiveData(x, \A r \in Entry(x) : r.chunk = c)

\* A block arrives for a transfer that was given up.
DeliverStray == \E x \in incoming : Entry(x) = {} /\ ReceiveData(x, TRUE)

\* The main loop runs, time passes, and the stable peer can be asked.
Tick == \E delta \in Deltas \ {0} : Iterate(delta, TRUE)

StableNext ==
    \/ \E c \in Chunks : Answer(c)
    \/ \E c \in Chunks, b \in 0 .. BlocksPerChunk - 1 : Deliver(c, b)
    \/ DeliverStray
    \/ \E delta \in Deltas : Iterate(delta, TRUE)

LiveNext ==
    \/ ~stable /\ Next /\ UNCHANGED stable
    \/ Stabilise
    \/ stable /\ StableNext /\ UNCHANGED stable

Fairness ==
    /\ WF_liveVars(Stabilise)
    /\ WF_liveVars(stable /\ Tick /\ UNCHANGED stable)
    /\ WF_liveVars(stable /\ DeliverStray /\ UNCHANGED stable)
    /\ \A c \in Chunks :
          /\ SF_liveVars(stable /\ Answer(c) /\ UNCHANGED stable)
          /\ \A b \in 0 .. BlocksPerChunk - 1 :
                SF_liveVars(stable /\ Deliver(c, b) /\ UNCHANGED stable)

LiveSpec == LiveInit /\ [][LiveNext]_liveVars /\ Fairness

\* How many more times than needed chunks are queued, requested or being received.
Excess == Tokens - Cardinality(Missing(have))

\* An offer that comes when its chunk is queued again leaves an entry of a chunk that
\* will be there already, and such an entry takes a slot for good (sha1.cpp 118-120,
\* 263-274, 435-445).  While these entries are fewer than the slots, every chunk the
\* info lists is downloaded in the end, whatever late offers, losses, wrong data and
\* restarts came before (the retry paths of sha1.cpp 100-124 and 475-480, and the one
\* request per iteration, 263-278).
CompletesUnlessStarved == (stable /\ Excess < MaxIn) ~> []haveAll

\* Every chunk is downloaded in the end: "download the file from the group"
\* (README.md 14), without the premise.
Completes == <>[]haveAll
=============================================================================
