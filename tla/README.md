# Verification of tox_ngc_ft1_tool

TLA+ models of `tox_ngc_ft1_tool`, a program that shares one file between the
members of a Tox group. Members ask each other for the *info* (the file's name,
size and the SHA1 hash of each chunk) and then for the chunks, and hand out
what they have while they download. Paths below are relative to the
repository; `sha1.cpp` stands for `src/states/sha1.cpp` and so on.

## The system

The program is single-threaded. `main` calls `ToxClient::iterate` every 5 ms.
One step runs `tox_iterate`, `NGC_FT1_iterate` and the `iterate` of the current
state object, in that order (tox_client.cpp:198-239). toxcore and FT1 call back
into the program during their own step only; FT1's callbacks are forwarded to
the current state (tox_callbacks.cpp:53-87). So there is no data race here, and
what is hard lies elsewhere: every peer, every FT1 transfer and every timer acts
on its own time, FT1 and the program each keep a list of transfers and do not
tell each other when they give one up, and a repeated request may be answered
more than once.

| component | state | operations | modules |
|---|---|---|---|
| `CommandLine`, `main` | the options | parser, constructor; start and end of the program | `CommandLine`, `Startup`, `StartupProofs` |
| `FTInfoSHA1`, lookup table, `hash_sha1` | name, size, chunk hashes; hash -> first index | `toBuffer`, `fromBuffer`, `chunkIndex`, `chunkSize` | `FTInfoSHA1`; `ChunkTable` as the states see it |
| `States::SendStartSHA1` | file mapping, info | constructor, `nextState` | `SharedFile`, `StartupProofs` |
| `States::ReceiveStartSHA1` | one info transfer, buffer, request timer, `_done` | `iterate`, info callbacks, `nextState` | `ReceiveStartSHA1`; `nextState` is in `SharedFile`, and `Restart` of `SHA1Download`; `ReceiveStartSHA1Proofs` |
| `States::SHA1`, download | want queue, requests, receiving transfers, have flags and count, file mapping | constructor, `iterate`, `onFT1ReceiveInitSHA1Chunk`, `onFT1ReceiveDataSHA1Chunk` | `SHA1Download`, `VerifiedStore`, `SHA1DownloadLive`, `SHA1DownloadProofs` |
| `States::SHA1`, upload | info queue, chunk queue, sending transfers of both | `iterate`, `onFT1ReceiveRequestSHA1Info/Chunk`, `onFT1SendDataSHA1Info/Chunk` | `SHA1Upload`, `SHA1UploadProofs` |
| `States::SHA1`, both halves | all of these | all of these | `SHA1`, `SHA1Proofs` |
| `States::SHA1`, speeds and targets | ring buffers of received bytes per peer, targets and weights | `iterate`, data callback | `PeerSpeed`, `SlidingWindow`, `PeerSpeedProofs`, `Sums` |
| `ToxClient` | groups and their peers, chat to join, profile and its dirty flag, rejoin timer | `iterate`, tox callbacks | `ToxClient`, `ToxClientProofs` |
| callbacks, hex helpers | none of their own | forwarding, conversion | the actions of the modules |
| FT1, NGC ext, toxcore (submodules), mio, sha1 (vendored) | | | external |

How they interact: `ReceiveStartSHA1` or `SendStartSHA1` is the first state;
when its `iterate` returns true, `nextState` builds `States::SHA1` from the info
and the file. That state never ends. The states call FT1 through `ToxClient`
(`sendFT1RequestPrivate`, `sendFT1InitPrivate`); FT1 answers by callbacks:
request, init (an offer, which the program accepts or rejects), data, and send
data. There is no callback for a transfer that FT1 gives up.

What makes each part correct:

* download: a missing chunk is never forgotten; a chunk that is claimed to be
  there is in the file, and stays there; no two transfers write to one chunk; the
  count and the completion flag are right; there is always something to do; in the
  end everything is there.
* upload: only chunks that are there are handed out; a request takes one place in
  the queues; the slots of `-O` become free again; requests are served; no
  request ends the program.
* info: only an info with the right hash is used; data that is late is written
  inside the buffer; what was verified stays; in the end the info is there.
* speeds: a byte counts for the peer it came from, once and for ten seconds;
  every target can be chosen; a peer that falls silent is forgotten.
* info and file: what the sender hashes, what the receiver reads out of the
  buffer and what the transfers read and write are the same bytes; an existing
  file is neither trusted too far nor thrown away.
* command line: taken exactly when it is right; the last value of an option
  counts.
* ToxClient: `_groups` holds the peers that are there; the profile on disk
  follows every change and loses nothing; empty groups are reconnected.

Not all of this is true of the code. Where it is not, a run with `expect: violation`
shows how, or the end of "The runs" says it.

The behaviours that are hard to test are listed in `PROJECT.json` under
`hazards`, each at its line, with the properties that are about it.

## The modules

**ChunkTable** holds the constants of one shared file. A hash is an opaque
value and two chunks have the same hash exactly when they have the same bytes.
A chunk is a number of *blocks*, the pieces FT1 transfers it in. The lookup
table maps a hash to the first index that has it (sha1.cpp:37-41), hence
`ChunkIndex` and `RealIndices`.

**SHA1Download** is the downloading half of `States::SHA1`, one variable per
member:

| variable | member | | action | code |
|---|---|---|---|---|
| `want` | `_chunk_want_queue` | | `ReceiveInit` | `onFT1ReceiveInitSHA1Chunk` |
| `requested` | `_chunks_requested` | | `ReceiveData` | `onFT1ReceiveDataSHA1Chunk` |
| `receiving` | `_transfers_receiving_chunk` | | `Iterate` | `iterate`, lines 99-124 and 263-278 |
| `have`, `haveAll`, `haveCount` | the same | | `Restart` | kill, `nextState`, constructor |
| `file` | `_file_map` | | `LoseTransfer` | FT1 gives a transfer up (external) |
| `running` | the constructor's assertion held | | | |
| `incoming` | FT1's transfers (external) | | | |
| `asked` | requests that may still be answered (external) | | | |

`file` says which blocks of each chunk hold the right bytes. A block is written
when it arrives, right or wrong, and the chunk is verified with its last block,
as in the code. The code keeps the transfers in a vector; the model keeps a set,
and lets entries that time out together reach the queue in any order, which
includes the code's. The order in which expired requests are pushed to the front
is the code's (`PushedInTurn`).

Requests are answered by peers at any later time, or never, by any peer, also
after the request was given up; `asked` counts the answers that may still come.
Of the targets only whether there is one is kept: the answer may come from any
peer anyway. FT1 hands the blocks of a transfer over in order. Its own transfers
from a peer differ in their ids, but it knows nothing of the program's entries:
when it has lost a transfer, the next one may have the same id while the entry of
the first is still there. Then there is an entry of another chunk (or two entries
with one id), data of one chunk is written into the other, and any of the entries
may be the first in the code's vector (`Entry`, `ReceiveBlock`). The mapped file
survives the death of the process (not of the machine).

An offer states the size of its chunk. One that states less is an offer whose
transfer is lost before its last block. One that states more is left out, see
"Not modelled".

**VerifiedStore** is the abstract specification of the download: a file written
block by block and a set of chunks known to be right in it. A chunk joins the set
only when its bytes are right, is never written to from then on, and opening the
file again finds every right chunk. The queues, timers, transfers and late
answers of `SHA1Download` are the detail it leaves out; `StoreSpec` says that
`SHA1Download` implements it, with `file` and `have` standing for themselves. It
is what the uploading half relies on when it sends chunks out of the same
mapping, and what `GainChunk` of `SHA1Upload` stands for.

**SHA1DownloadLive** adds the moment from which the group is stable, for
liveness. `Excess` counts the entries of the queue, the requests and the transfers
that are more than one for each missing chunk; they are what late offers leave
behind (finding 2), each of them takes a slot for good, and
`CompletesUnlessStarved` is about a group in which they are fewer than the slots.

**SHA1Upload** is the uploading half: `infoQueue`, `chunkQueue`, `infoSending`
and `chunkSending` are `_queue_requested_info`, `_queue_requested_chunk`,
`_transfers_requested_info` and `_transfers_sending_chunk`, lists as in the code,
since it is the first entry with a transfer's id that is served (`EntryOf`).
`outgoing` are FT1's transfers, with the time since FT1 last took data. `GiveUp` is
FT1's `sending_give_up_after`, and every run has its default of 30 seconds
(command_line.hpp:64), three times the program's own limit: FT1 goes on with
transfers the program has forgotten. As on the way in, FT1 picks an id none of its
own transfers to the peer has, whatever entries are left (`FreeIds`). `GainChunk`
stands for the download half, which is the only thing of it the upload sees.

**SHA1** is the whole of `States::SHA1`: an instance of `SHA1Download` and one of
`SHA1Upload` that share `have` and `haveAll`. Each callback is an action of one
half and leaves the other alone; `Iterate` is both halves' part of `iterate`, the
upload first, which may end the program before the download is reached. What
`SHA1Upload` only assumed is played by the code here: `GainChunk` is the last
block of a download, and a restart finds the chunks that are right in the file.
That the download does nothing it would not do alone holds by the form of the
actions; that the upload does not (`UploadSpec`) is a fact about the download, and
with it what the runs and proofs of the halves show is true of the whole.
Only a connected peer offers or sends; the peer speeds are not composed in,
and whether there is a target is left open in each iteration.

**PeerSpeed** measures the peers: `bytes` and `index` are `_peer_in_bytes_array`
and its index, `speed`, `targets` and `weights` are `_peer_in_speed`,
`_peer_in_targets` and the distribution. `ReceiveData` counts a block, `Iterate`
is lines 200-261 of `iterate`, `ChangeLink` is toxcore. Speeds are kept as bytes per window and not
divided, since only the proportions of the weights count. **SlidingWindow** is
what this promises without a ring: the bytes of each peer by the age of the
interval, shifted when an interval ends. `WindowSpec` says that `PeerSpeed`
implements it, where the slot of an age is `(index - age) % Slots` and a peer
that is not in the map has zeros.

**CommandLine** is the parser, one option per step, over words: a word stands for
all words that are read alike, and what `from_chars` and `stof` make of a word is
given by sets. Below the parser is the grammar of the command line, stated
without one: `Places`, `Correct`, `Misuse`.

**FTInfoSHA1** has the info's conversion to bytes and back, and which bytes of a
file a chunk is made of. Its constants are the widths of the fields; a hash is
made of the bytes themselves. **SharedFile** follows one file through the
program: `HashFull` and `HashRest` are the loop of `SendStartSHA1` and its
switch; `Open`, `CheckFull` and `CheckRest` are
`ReceiveStartSHA1::nextState`; `ReceiveChunk` writes the first bytes of a chunk,
right or wrong, and verifies it with the last one; `Reopen` is a restart. It is
where the assumption of `ChunkTable` (chunks of one size, the last one not empty
and not longer) is shown to be what the loops produce. **Startup** is `main` and
the part of `ToxClient`'s constructor that makes the first state: the arguments
are parsed, and the program ends, fails, or becomes a sender or a receiver of a
`SharedFile`.

**ReceiveStartSHA1** is the state that gets the info. As in the other modules, FT1
is not told when the program gives a transfer up (`_transfer.reset()`,
receive_start_sha1.cpp:46, 177) and goes on with it. Its data is then written into
the buffer of another transfer, or finds none and `_transfer.value()` throws
(`phase` is `"threw"`), or reaches the assertion of `States::SHA1` after the switch
(`"asserted"`).

**ToxClient** models the object of that name without the state it runs. Each tox
callback is an action; `EndOfStep` is what `iterate` does after the callbacks and
the state: the rejoin timer, then `saveToxProfile`. `groups` is `_groups`, with
its `operator[]` that inserts (`Put`); `tox`, `present` and `linked` are
toxcore's own view. `disk` is the profile. The program may be killed at any
point (`Crash`), also in the middle of a save (`CrashInSave`), which leaves the
file empty, taken for a new profile, or cut off, which toxcore refuses. The
model is of a program with option `-F`; without it nothing is saved.

**MC...** modules bind the constants for TLC. Operators whose comment starts
with *Faulty* are variants of the operator below them, with a bug the code might
have had; nothing uses them. Each property was seen to fail when one of them
takes the place of the right one (`PROJECT.json`, `mutants`).

## The runs

Time is counted in units of five seconds: transfers time out after 2, requests
after 3, as in the code (10 and 15 seconds). An iteration takes 0 or 1 unit (the
real one takes 5 ms, but only sums of steps matter to the timers).

| run | instance | shows |
|---|---|---|
| `download` | 3 chunks of 2 blocks, the first and last equal, 2 peers with the same transfer id, 2 slots, ids that are used again, any leftover file, restarts | type invariant, `NoChunkLost`, `HaveIsOnDisk`, `OneWriterPerChunk`, `CountersAgree`, `VerifiedNeverLost`, `StoreSpec` |
| `download_live` | 3 different chunks of 1 block, a peer that has all, 2 slots, up to 2 leftover entries | `NeverStalls`, `StartsUp`, `CompletesUnlessStarved` |
| `upload` | 1 chunk, 2 peers, 2 slots, one transfer id, peers come and go, transfers get lost, FT1 gives up after 30 s | type invariant, `OneInfoPerPeer`, `OnePlaceInQueue`, `InfoServed` |
| `sha1` | 2 chunks and a hash of another file, 1 peer, 1 slot in and 2 out, one transfer id, FT1 gives up after 30 s | `HandsOutVerified`, `UploadSpec` |
| `peer_speed` | 2 peers, 4 slots, blocks of 2 bytes | type invariant, `EveryTargetAsked`, `SilentForgotten`, `WindowSpec` |
| `receive_start` | 2 peers, an info of 2 blocks | type invariant, `WritesInside`, `VerifiedStays`, `SwitchesOrEnds` |
| `tox_client` | 2 groups, one named by `-G`, 2 peers, 1 friend, kills | type invariant, `PeersKnown`, `DiskFollows`, `LostOnlyInSave`, `KnownGroupReconnected` |
| `startup` | all command lines of up to 4 of 15 words; all files of up to 5 bytes, chunks of 2, any leftover of up to 5 bytes | type invariant, `ParsesGrammar`, `LastValueWins`, `CutAsRead`, `FindsWhatIsRight`, `FileComplete` |

Bounds. Two peers are enough for two answers to one request and for equal
transfer ids of different peers; two blocks for a chunk that is half written and
for data after a timeout; three chunks for an equal pair and another. `AskBound`
caps the answers that may still come for one chunk at two, so that a late one
and a current one meet. `TokenBound` caps the entries of want queue, requests
and transfers together. A late offer that is accepted while the chunk is queued
leaves one more entry (finding 2), and nothing in the code bounds that; beyond
the bound such offers do not happen. `WrongBound` caps the wrong blocks of the
info.

One transfer id is the smallest number and the one that matters: every transfer of a
peer that FT1 starts has the id of the one before, so that each leftover entry is
met by it. More ids are met where a peer has several transfers at a time, in
`receive_start`, `upload_foreign` and `download_starved`.

`download_live` has three chunks and two slots, so that leftover entries can fill
all slots while a chunk is missing. That is the state the premise of
`CompletesUnlessStarved` excludes; from every state with fewer leftover entries,
whatever happened before, it is checked. The chunks have one block there, to keep
the run small: that a transfer can break or go wrong between two blocks is met by the
safety properties, in `download`.

In `sha1`, one peer is enough: it asks and offers at the same time, and two
peers of each half are met in `download` and `upload`. Two slots for uploads let a
transfer begin while an entry with its id is left over. `peer_speed` is run with a ring of 4 slots instead of 20,
and a `SlotBound` that holds one block an interval: weights below, within and above their
range occur, and the index wraps. In `startup` the widths of the fields are
small: a byte has two values, a name of two bytes fills its field, a file has
one to three chunks, with a last chunk that is full or not, and hashing takes
several pieces. The words of its command lines have an option of each type, `-P`
with its two parameters, a number that fits a port, one that does not, and the
empty word. It stops when the program has ended or every file is there, so it
does not check for deadlock.

The timers of `ToxClient` are counted in units of two minutes. In `download` a
step of time may also be longer than every timeout, as after the machine slept.

Four runs are expected to find a violation. Each checks what a comment or the
README of the repository says:

1. `download_stall` (`NeverStalls`) - with two equal chunks the download never
   completes. Only the first index of a hash is queued and only its flag is set
   (sha1.cpp:51-54, 483-485), but completion counts every index. Started again
   in that state, the program fails the assertion at sha1.cpp:59.
2. `download_starved` (`Completes`) - an offer accepted after its request timed
   out does not remove the chunk from the want queue. The leftover entry is
   requested for ever: every offer is rejected, every timeout puts it back at
   the front. With `-I 1` nothing else is requested; otherwise each such entry costs a slot,
   and as many of them as there are slots stop the download.
3. `upload_foreign` (`KeepsRunning`) - `haveChunk` is true for every hash once
   everything is there (sha1.cpp:578-580); a request for a chunk of another file
   reaches `exit(1)` (sha1.cpp:171-174).
4. `upload_blocked` (`StayingPeerServed`) - a peer that asks for the info and
   leaves stays at the front of the info queue, and everyone waits behind it.

What the passing runs say of unexpected behaviour:

* `ParsesGrammar` states exactly which command lines end the program other than
  by the help. The check "not enough parameters!" (command_line.cpp:41) compares
  with all arguments, not with those that are left: except for a lone `-P`, a
  value missing at the end is read from the null pointer. A time that is no
  number throws (command_line.cpp:65).
* `LastValueWins` counts only values that fit: `-p 70000` and `-I ""` are
  accepted and change nothing, since only the end of the number is looked at and
  not the error code of `from_chars` (command_line.cpp:56-57).
* `HandsOutVerified` is about what the program copies. When an entry with the id of a
  transfer is left over from an earlier one, it comes first, and the verified bytes
  that are handed out are of its chunk (sha1.cpp:497-511); the receiver finds that
  the hash does not match. Without an entry FT1's buffer is left as it was.
* `LostOnlyInSave` allows one loss, and then of everything: a kill in the middle of
  a save leaves the profile empty, or cut. An empty one is taken for a new profile
  (tox_client.cpp:61-62), which the next save makes final; a cut one keeps the
  program from starting (76-79).
* That no more than `-O` transfers are under way is no property here, as the code
  does not have it. What is counted are the program's entries (sha1.cpp:140). The
  entry of an idle transfer goes after 10 seconds (73-98), FT1's transfer after 30 by
  default. With `-O 1`: an info request is answered, the peer takes no data, two
  steps of five seconds pass, the peer asks again, and the second transfer begins
  while FT1 still has the first. `OneInfoPerPeer` is therefore about the program's
  queue and entries.
* `WritesInside` says where late data of an info transfer is written while there is a
  transfer. Without one, `_transfer.value()` throws (receive_start_sha1.cpp:168), which
  nothing catches and `SwitchesOrEnds` allows for; the block has been written before
  (165), which is outside of the buffer when a mismatch has cleared it (178).
* `VerifiedStays` needs that FT1 has no other transfer of the info when it is verified.
  When the transfer of one peer has timed out and another's was accepted, the late
  data of the first can complete the info, and a wrong block of the second is then
  written over it before the switch, or arrives after it, where the assertion "ft
  should have dropped this for us!" fails (sha1.cpp:350; a build with `NDEBUG` has no
  assertion and ignores the data). The program makes no call that would tell FT1 of a
  transfer it gives up, and FT1's source is not here.
* `KnownGroupReconnected` speaks of groups in `_groups` only. One that comes
  from the profile is there only once a peer appears in it, so that the rejoin
  timer passes over it while it is empty, if toxcore announces no join for it.

Differences between documents and code that need no model: README.md:16 gives 16
as the default of `-O`, command_line.hpp:72 has 8; command_line.hpp:73 documents
an option `-u` the parser does not know, so that `_udp_only` is always false; the
help offers the variants `sha2_single` and `sha2_info`, which are rejected, and
`id1` and `sha1_single`, which do the same as `sha1_info`; it gives
`tox_ngc_ft1_tool` as the default name, command_line.hpp:31 has
`tox_ngc_tf1_tool`; sha1.hpp:113-114 says speeds can get negative, no code
subtracts from them.

## Fairness

* `Tick`, and `Iterate` in the other modules, is weakly fair, with time passing
  and a peer there to talk to: `main` calls it in a loop.
* In `SHA1DownloadLive` everything may happen until the group becomes stable.
  From then on offers are made for requested chunks and data is right. Answers
  and deliveries are strongly fair per chunk and block: a timer may run out
  before an answer arrives, but not every time. Without it no download ends: a
  group whose answers always take more than 15 seconds transfers nothing.
  Ids are not used again within the ten seconds an entry lives, and data that meets
  an entry left from the time before is wrong for it, as its bytes are another
  chunk's.
* `InfoServed` has the premise that from some moment on every peer is connected. It
  assumes nothing of FT1 but that an init can be sent now and then; the slots become
  free by timers.
* `KnownGroupReconnected` and `SilentForgotten` assume only that the main loop
  runs and time passes.
* `SwitchesOrEnds` needs rounds of requests to be answered in time now and then,
  blocks that arrive in time now and then, that FT1 gives up at some time what the
  program has given up, and a program that is not restarted for ever.

## Proofs

`SHA1DownloadProofs` proves, for every chunk table (equal chunks included), any
finite sets of peers and transfer ids and any limits and timeouts:

* `TypeCorrect`, `NothingForgotten` (`NoChunkLost`), `HaveIsVerified`
  (`HaveIsOnDisk`), `ExclusiveWriters` (`OneWriterPerChunk`), `CountersCorrect`
  (`CountersAgree`);
* the action property `NothingLost` (`VerifiedNeverLost`);
* `ImplementsStore` (`StoreSpec`): the download implements `VerifiedStore`;
* `NeverStallsWhenDistinct` and `StartsWhenDistinct`: when no two chunks have the
  same hash, `NeverStalls` and `StartsUp` are invariants. Together with
  `download_stall` this says that equal chunks are the one way a download can
  stall.

The argument. All follow from one inductive invariant `IInv` (`Invariance`): the
type invariant, `NoChunkLost`, `HaveIsOnDisk`, `OneWriterPerChunk`
and `CountersAgree`. `HaveIsOnDisk` and `CountersAgree` are not inductive alone. A block may
be written only because the chunk of its entry is not yet claimed, which needs
`OneWriterPerChunk`; that the counter grows with the flags needs that the finished
chunk was not claimed, again `OneWriterPerChunk`. None of this asks which chunk the
data was offered for: an id that is used again leads data into the wrong chunk, but
only into one that is still to be verified. There is one lemma per action
(`InitInv`, `ReceiveInitInv`, `ReceiveDataInv`, `IterateInv`,
`LoseTransferInv`, `RestartInv`), and lemmas about the queues
(`ArrangementFacts`, `LastFirstFacts`, ...) on which they rest. For
`ImplementsStore` every step but a block that arrives and a restart is a stutter;
that the block is an allowed write is again `OneWriterPerChunk`. The assumptions
are the two of the modules, `ChunkTableAssumption` and `DownloadAssumption`; TLC
evaluates both in every run.

`SHA1Proofs` proves, for the program as a whole:

* `DownloadInvariance`: the invariant above holds while the program uploads.
  `SHA1DownloadProofs` is an instance there, and its theorem is cited;
  `SameDownload` says that the two instances of the download are the same, and
  `SHA1Assumption` provides the assumptions of both halves;
* `ImplementsUpload` (`UploadSpec`): every step is one of the upload or a
  stutter. It needs the invariant of the other half: the last block of a download
  is a `GainChunk` only because the chunk was not there before
  (`OneWriterPerChunk`) and the completion flag follows the flags
  (`CountersAgree`); a restart finds what was known because of `HaveIsOnDisk`;
* `UploadInvariance`: so the invariant of the upload, below, holds while the
  program downloads;
* `HandedOutIsVerified` (`HandsOutVerified`): a chunk that is handed out has the
  right bytes in the mapped file, which is being written to meanwhile. The upload
  has entries only of what is there (`OnlyWhatIsThere`), and what is there is right
  (`HaveIsOnDisk`).

`SHA1Assumption` is an `ASSUME` of `SHA1`, which TLC evaluates in the run `sha1`.

`SHA1UploadProofs` proves, for every chunk table, all peers and transfer ids, and
any limits and timeouts:

* `TypeCorrect`, `OnePlaceForInfo` (`OneInfoPerPeer`), `RequestsOnce`
  (`OnePlaceInQueue`), `SendsWhatIsThere` (`OnlyWhatIsThere`).

The argument. `IInv` is these four. They hold however FT1's timer and the program's
compare and whatever ids are used again. That queues hold a request once, and that
entries have a peer once, rests on what is left of a list when old members are
dropped or one is removed: a list whose members come from the old one, each from a
place of its own (`ComesFromFacts`, `StillWaitingFacts`, `WithoutFacts`; the places
of those that stay are ranked, and a finite set of numbers has one of every rank,
`RankedElements`).

`ReceiveStartSHA1Proofs` proves `TypeCorrect`, with the strengthening that `_transfer`
holds at most one entry, and `BufferHolds` (`WritesInside`): the buffer is only
cleared together with the entry, and an entry is only made together with the buffer.
Neither assumes anything of when data arrives. `StaysVerified` (`VerifiedStays`) rests
on `EntryHolds`: until the switch the entry of a verified info is there, and holds off
what would open the buffer again.

`ToxClientProofs` proves, for all groups, peers and friends and any interval of the
rejoin timer, `TypeCorrect`, `PeersAreKnown` (`PeersKnown`), `DiskIsFollowing`
(`DiskFollows`) and the action property `OnlySavesLose` (`LostOnlyInSave`). The
invariant needs that a group toxcore does not have has no peers there
(`PresentInGroups`), so that one that is joined starts empty in both maps; that a
program that does not run has reconnected nothing (`Quiet`); and, for the profile,
that a running program holds at least what is on disk (`DiskBehind`): it was loaded
from there, or the file, empty or missing, held nothing, and no callback removes a
group or a friend.

`PeerSpeedProofs` proves, for all peers, every size of the ring, every interval and
every range of weights, `TypeCorrect`, `TargetsAreAsked` (`EveryTargetAsked`) and
the refinement `ImplementsWindow` (`WindowSpec`). The invariant is the type
invariant, with its bounds, and `EveryTargetAsked`. The refinement rests on
`RingFacts`, which is arithmetic modulo the number of slots: the slots of all ages
are different ones, and with the next interval every slot but the one that is reset
is one interval older; and on `SumReordered`, as the sum over the ages is the sum
over the slots in another order. **Sums** has what is needed of sums: that a fold
of `+` over any finite domain is a number within bounds and does not depend on the
order. Its claims about all finite sets are shown by taking a smallest set they
fail of, which needs no induction rule.

`StartupProofs` proves, for arguments of any number and any words, `ParserIsRight`
(`ParsesGrammar`) and `LastOneCounts` (`LastValueWins`). `Places`, the set the
grammar is stated with, is a `CHOOSE`; `CutExists` shows that there is one, the
smallest closed set. The invariant says of a parser at work that its counter is at
a place of the grammar or just behind the last argument (`AtPlace`), that what was
read was correct and ended before the counter (`ReadIsCorrect`), and that members
and flags are what the options read say (`SettingsFollow`, `ExitFollows`).
`NextPlace` is the step: between an option and the next there is no other place.

About the file that is shared, the same module proves `CutsAsRead` (`CutAsRead`),
`GetsTheFile` (`FileComplete`), `KeepsCorrectData` (`FindsWhatIsRight`) and
`TypeCorrect` (`TypeOK`), for files and names of any size and any widths of the
fields. The invariant, `ProgramInv`, says that the place of the loops is at a chunk
(`FileIsThere`), that the sender's hashes are those of the chunks before it
(`HashedSoFar`), that a receiver's info is the one its sender made (`WholeInfo`),
that the check has found exactly what is right before its place (`CheckedSoFar`),
and that later every flag means a right chunk (`HaveIsRight`); a write changes one
chunk, which has no flag. It rests on three results. `RoundTrip`: what `toBuffer`
writes, `fromBuffer` reads, that is, a number that fits its field is the sum of its
digits (`DigitsFacts`), a name without a zero ends where it ended (`NameEnds`), and
hashes of one length are found again where they were put (`FlattenEven`).
`HashInjective`: different bytes have different hashes, as the hash is made of
them, however SHA1 is fed (`HashedIs`). `PlaceFacts`: the loops and `chunkSize` cut
a file at the same places, the last chunk is not empty, and only it may be shorter.
`Power` and `FlattenSeq` are recursive; what is needed of them is shown by taking
the least number it fails for.

The assumptions of all these are those of the modules, each evaluated by TLC in a
run: `ChunkTableAssumption`, `DownloadAssumption`, `UploadAssumption`,
`SHA1Assumption`, `ReceiveStartAssumption`, `ToxClientAssumption`, `SpeedAssumption`,
`CommandLineAssumption`, `InfoAssumption`, `SharedFileAssumption` (a name has no zero in
it and fits its field, a size fits its field). Each inductive invariant was checked with TLC, on the
instance of its run, before it was proved.

Only model-checked: liveness (`CompletesUnlessStarved`, `InfoServed`, `SwitchesOrEnds`,
`SilentForgotten`, `KnownGroupReconnected`), which the prover does not do.

## Not modelled

* The log output and its counters (`_bytes_down` and the like), formatting, the
  text of the help.
* SHA1, the conversion of hex, and the memory mapping: vendored or library code.
* The inside of toxcore, NGC ext and FT1, which are not in this repository. The
  forwarding of custom packets to NGC ext, the options of Tox, its nodes for
  bootstrap and its names keep no state the rest depends on.
* Offers that are longer than their chunk. `file_size` is never compared with the
  chunk's size (sha1.cpp:400), and the loop that writes the data has no bound
  (465-467): the rest goes into the next chunk, which may be verified, or past the
  end of the mapping. A peer that makes such an offer does not follow the protocol:
  both sides compute the size alike (`CutAsRead`). `HaveIsOnDisk`,
  `VerifiedNeverLost`, `StoreSpec` and `HandsOutVerified`, and the theorems of them,
  are about offers no longer than their chunk. `NoChunkLost`, `OneWriterPerChunk` and
  `CountersAgree` do not look at bytes. The same is left out of the info, whose buffer
  takes the size that is offered (receive_start_sha1.cpp:152).
* A swarm of several instances of `SHA1`. Each program sees of the others only
  requests, offers and data, at any time, late, lost or wrong, which the modules
  already allow; that the group as a whole completes is
  `CompletesUnlessStarved` for a group with a peer that has every chunk.

## The plan

The system is modelled but for what is listed above, and every invariant and action
property a passing run checks is proved. What is left is liveness, which stays with
TLC, and offers that are longer than their chunk, should the program ever check them.
