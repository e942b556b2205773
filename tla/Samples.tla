------------------------------ MODULE Samples ------------------------------
(***************************************************************************)
(* The sample cache of the daemon and the players that read from it:       *)
(* samples.c, the sample branches of players.c, the sample handlers of     *)
(* proto.c, the sample part of mix_players() and reset_daemon() (SIGHUP).  *)
(*                                                                         *)
(* Lists.  esd_samples_list and esd_players_list both grow at the head.    *)
(* Sample ids grow by one, so the samples list is the set `samples' in     *)
(* decreasing order; a new player takes a handle above every live one, so  *)
(* the players list is the set `players' in decreasing order.              *)
(*                                                                         *)
(* Pointers.  player.parent is the id of the sample object the C pointer   *)
(* designates, or Freed once that object has been given to free().         *)
(*                                                                         *)
(* Lengths are counted in frames and players run at the rate of the        *)
(* server; the streams on the list leave any number of frames to be mixed  *)
(* in one round, none at all included (the choice of `m' in Mix).  Of      *)
(* cached_length the model keeps whether it has reached sample_length.     *)
(***************************************************************************)
EXTENDS Integers, FiniteSets

CONSTANTS Clients,    \* connection slots: the addresses an esd_client_t may have
          Lengths,    \* values of sample_length a client may announce
          Funcs,      \* ESD_MASK_FUNC bits a client may give a sample
          BufLen,     \* buffer_length of a sample player
          MaxSample,  \* bound on sample ids
          MaxAgain,   \* bound on sample ids after a SIGHUP
          MaxPlayer,  \* bound on player handles
          MaxReset    \* bound on the number of SIGHUPs

ASSUME SamplesAssumption ==
    /\ Clients # {}
    /\ Lengths \subseteq Nat
    /\ Funcs \subseteq {"STOP", "PLAY", "LOOP"}
    /\ BufLen \in Nat \ {0}
    /\ MaxSample \in Nat
    /\ MaxAgain \in Nat
    /\ MaxPlayer \in Nat
    /\ MaxReset \in Nat

SampleIds == 1..MaxSample
Handles == 1..MaxPlayer

\* The parent pointer of a player whose sample has been freed.
Freed == 0

\* ESD_MASK_FUNC of a format: ESD_STOP, ESD_PLAY, ESD_LOOP.
Func == {"STOP", "PLAY", "LOOP"}

\* What the connection in a slot is doing.  "IDLE" is a slot without a client or
\* with one that may send a request (module Access has the difference),
\* "READING" the blocking read inside read_sample(), "CACHING_SAMPLE" the state
\* an interrupted read leaves behind.
ClientState == {"IDLE", "READING", "CACHING_SAMPLE"}

VARIABLES
    samples,          \* ids on esd_samples_list
    sample,           \* id -> esd_sample_t
    players,          \* handles of the ESD_SAMPLE players on esd_players_list
    player,           \* handle -> esd_player_t
    playing_samples,  \* esd_playing_samples
    next_sample_id,   \* esd_next_sample_id
    cstate,           \* slot -> client->state
    server,           \* what the daemon's only thread is doing
    resets            \* SIGHUPs handled so far

vars == <<samples, sample, players, player, playing_samples, next_sample_id,
          cstate, server, resets>>

SampleRec == [parent : Clients, func : Func, len : Nat, cached : BOOLEAN,
              ref_count : Int, erase_when_done : BOOLEAN]

PlayerRec == [parent : SampleIds \cup {Freed}, source_id : SampleIds \cup {0},
              func : Func, last_pos : Int, actual_length : Int]

\* Placeholders for the memory of objects that are not on a list.
NoSample == [parent |-> CHOOSE c \in Clients : TRUE, func |-> "STOP", len |-> 0,
             cached |-> FALSE, ref_count |-> 0, erase_when_done |-> FALSE]
NoPlayer == [parent |-> Freed, source_id |-> 0, func |-> "STOP", last_pos |-> 0,
             actual_length |-> 0]

PlayersOf(i) == {p \in players : player[p].parent = i}

Orphans == {p \in players : player[p].parent = Freed}

Init ==
    /\ samples = {}
    /\ sample = [i \in SampleIds |-> NoSample]
    /\ players = {}
    /\ player = [p \in Handles |-> NoPlayer]
    /\ playing_samples = 0
    /\ next_sample_id = 1
    /\ cstate = [c \in Clients |-> "IDLE"]
    /\ server = "running"
    /\ resets = 0

\* esd_comm_loop() is in poll_client_requests() or mix_players(), not stuck.
Running == server = "running"

----------------------------------------------------------------------------
(* Caching: esd_proto_sample_cache(), new_sample(), read_sample().         *)

\* The bound on ids.
IdLeft == next_sample_id \in SampleIds /\ (resets > 0 => next_sample_id <= MaxAgain)

\* Mutant: esd_next_sample_id is read and not incremented.
SampleCacheSameId(c, len, func) ==
    /\ Running
    /\ cstate[c] = "IDLE"
    /\ IdLeft
    /\ samples' = samples \cup {next_sample_id}
    /\ sample' = [sample EXCEPT ![next_sample_id] =
                    [NoSample EXCEPT !.parent = c, !.func = func, !.len = len]]
    /\ cstate' = [cstate EXCEPT ![c] = "READING"]
    /\ server' = "reading"
    /\ UNCHANGED <<next_sample_id, players, player, playing_samples, resets>>

\* new_sample() and add_sample(); the handler then blocks in read_sample().
SampleCache(c, len, func) ==
    /\ Running
    /\ cstate[c] = "IDLE"
    /\ IdLeft
    /\ samples' = samples \cup {next_sample_id}
    /\ sample' = [sample EXCEPT ![next_sample_id] =
                    [NoSample EXCEPT !.parent = c, !.func = func, !.len = len]]
    /\ next_sample_id' = next_sample_id + 1
    /\ cstate' = [cstate EXCEPT ![c] = "READING"]
    /\ server' = "reading"
    /\ UNCHANGED <<players, player, playing_samples, resets>>

\* new_sample() finds no memory for the data: the id is used up, the handler
\* returns 0 and the client is erased.
SampleCacheNoMem(c) ==
    /\ Running
    /\ cstate[c] = "IDLE"
    /\ IdLeft
    /\ next_sample_id' = next_sample_id + 1
    /\ UNCHANGED <<samples, sample, players, player, playing_samples, cstate,
                   server, resets>>

\* The sample at the head of esd_samples_list.
HeadSample == CHOOSE i \in samples : \A j \in samples : j <= i

\* cached_length < sample_length: the loop of read_sample() reads on.
DataMissing == ~sample[HeadSample].cached /\ sample[HeadSample].len > 0

\* While client c is in read_sample() the sample at the head is the one read.
\* All the data arrives.
ReadComplete(c) ==
    /\ server = "reading" /\ cstate[c] = "READING"
    /\ sample' = [sample EXCEPT ![HeadSample].cached = TRUE]
    /\ cstate' = [cstate EXCEPT ![c] = "IDLE"]
    /\ server' = "running"
    /\ UNCHANGED <<samples, players, player, playing_samples, next_sample_id,
                   resets>>

\* End of file or an error: read_sample() returns 0 before cached_length is
\* stored; the client is erased and the sample stays on the list.
ReadFailed(c) ==
    /\ server = "reading" /\ cstate[c] = "READING"
    /\ DataMissing
    /\ cstate' = [cstate EXCEPT ![c] = "IDLE"]
    /\ server' = "running"
    /\ UNCHANGED <<samples, sample, players, player, playing_samples,
                   next_sample_id, resets>>

\* A signal interrupts the read: the sample stays incomplete and the upload
\* goes on at a later poll.
ReadInterrupted(c) ==
    /\ server = "reading" /\ cstate[c] = "READING"
    /\ DataMissing
    /\ cstate' = [cstate EXCEPT ![c] = "CACHING_SAMPLE"]
    /\ server' = "running"
    /\ UNCHANGED <<samples, sample, players, player, playing_samples, next_sample_id,
                   resets>>

\* find_caching_sample() looks at the head only: its loop never advances.
CacheResume(c) ==
    /\ Running
    /\ cstate[c] = "CACHING_SAMPLE"
    /\ \/ /\ samples = {}
          /\ cstate' = [cstate EXCEPT ![c] = "IDLE"]
          /\ UNCHANGED server
       \/ /\ samples # {}
          /\ sample[HeadSample].parent = c
          /\ cstate' = [cstate EXCEPT ![c] = "READING"]
          /\ server' = "reading"
       \/ /\ samples # {}
          /\ sample[HeadSample].parent # c
          /\ server' = "spinning"
          /\ UNCHANGED cstate
    /\ UNCHANGED <<samples, sample, players, player, playing_samples,
                   next_sample_id, resets>>

----------------------------------------------------------------------------
(* Freeing: erase_sample(), esd_proto_sample_free().                       *)

\* A player whose sample has been freed.  What it reads from now on is not
\* defined, so only the id it was started for is tracked.
Orphaned(pl) == [NoPlayer EXCEPT !.source_id = pl.source_id]

\* The players after the sample objects `ids' have been given to free().
Orphan(ids) ==
    [p \in Handles |-> IF player[p].parent \in ids THEN Orphaned(player[p])
                                                     ELSE player[p]]

\* Mutant: erase_sample() without the ref_count test.
EraseSampleAtOnce(i) ==
    /\ samples' = samples \ {i}
    /\ sample' = [j \in SampleIds |-> IF j = i THEN NoSample ELSE sample[j]]
    /\ player' = Orphan({i})

\* erase_sample(id, 0): a sample with players is flagged, one without is
\* unlinked and freed, and an unknown id is ignored.
EraseSample(i) ==
    \/ /\ i \notin samples
       /\ UNCHANGED <<samples, sample, player>>
    \/ /\ i \in samples
       /\ sample[i].ref_count # 0
       /\ sample' = [sample EXCEPT ![i].erase_when_done = TRUE]
       /\ UNCHANGED <<samples, player>>
    \/ /\ i \in samples
       /\ sample[i].ref_count = 0
       /\ samples' = samples \ {i}
       /\ sample' = [sample EXCEPT ![i] = NoSample]
       /\ player' = Orphan({i})

SampleFree(i) ==
    /\ Running
    /\ EraseSample(i)
    /\ UNCHANGED <<players, playing_samples, next_sample_id, cstate, server,
                   resets>>

----------------------------------------------------------------------------
(* Playing: new_sample_player(), esd_proto_sample_play(), _loop, _stop.    *)

\* h makes a new player the head of the players list.
IsNextHandle(h) ==
    /\ \A q \in players : q < h
    /\ h # 1 => h - 1 \in players

\* Mutant: the new player is not counted in its sample.
NewSamplePlayerUncounted(h, i, loop) ==
    /\ players' = players \cup {h}
    /\ player' = [player EXCEPT ![h] =
                    [parent |-> i, source_id |-> i,
                     func |-> IF loop THEN "LOOP" ELSE sample[i].func,
                     last_pos |-> 0, actual_length |-> 0]]
    /\ playing_samples' = playing_samples + 1
    /\ UNCHANGED sample

\* A player with the format of the sample, at position 0, added at the head.
NewSamplePlayer(h, i, loop) ==
    /\ players' = players \cup {h}
    /\ player' = [player EXCEPT ![h] =
                    [parent |-> i, source_id |-> i,
                     func |-> IF loop THEN "LOOP" ELSE sample[i].func,
                     last_pos |-> 0, actual_length |-> 0]]
    /\ playing_samples' = playing_samples + 1
    /\ sample' = [sample EXCEPT ![i].ref_count = @ + 1]

\* play_sample() gets a player unless the id is unknown, the format has no mix
\* function or memory is short; the client is told the same in every case.
SamplePlay(i, loop) ==
    /\ Running
    /\ \/ /\ i \in samples
          /\ \E h \in Handles : IsNextHandle(h) /\ NewSamplePlayer(h, i, loop)
       \/ UNCHANGED <<players, player, playing_samples, sample>>
    /\ UNCHANGED <<samples, next_sample_id, cstate, server, resets>>

\* stop_sample(): the newest player with this source id loses its function.
StopSample(i) ==
    \/ /\ \A p \in players : player[p].source_id # i
       /\ UNCHANGED player
    \/ \E p \in players :
         /\ player[p].source_id = i
         /\ \A q \in players : player[q].source_id = i => q <= p
         /\ player' = [player EXCEPT ![p].func = "STOP"]

SampleStop(i) ==
    /\ Running
    /\ StopSample(i)
    /\ UNCHANGED <<samples, sample, players, playing_samples, next_sample_id,
                   cstate, server, resets>>

----------------------------------------------------------------------------
(* Mixing: the ESD_SAMPLE branch of read_player(), free_player() and the   *)
(* two passes of mix_players().                                            *)

\* Frames that the first copy of read_player() takes from the sample.
FirstCopy(p) ==
    LET left == sample[player[p].parent].len - player[p].last_pos
        space == BufLen - player[p].actual_length
    IN  IF left > space THEN space ELSE left

\* read_player() returns -1: nothing left, no room, or a sample whose own
\* format says ESD_STOP.
ReadEnds(p) ==
    \/ player[p].last_pos = 0 /\ sample[player[p].parent].func = "STOP"
    \/ FirstCopy(p) <= 0

\* Mutant: a looping player goes past the end of its sample.
ReadPlayerNoWrap(p) ==
    [player[p] EXCEPT !.last_pos = @ + BufLen - player[p].actual_length,
                      !.actual_length = BufLen]

\* Mutant: the test for ESD_LOOP after the first copy is lost.
ReadPlayerAlwaysLoops(p) ==
    LET filled == player[p].actual_length + FirstCopy(p)
    IN  [player[p] EXCEPT
            !.last_pos = IF filled = BufLen THEN @ + FirstCopy(p)
                         ELSE (BufLen - filled) % sample[player[p].parent].len,
            !.actual_length = BufLen]

\* read_player() otherwise: the first copy and, for a looping player that has
\* reached the end with room left, whole rounds until the buffer is full.
ReadPlayer(p) ==
    LET len == sample[player[p].parent].len
        filled == player[p].actual_length + FirstCopy(p)
    IN  IF filled = BufLen \/ player[p].func # "LOOP"
          THEN [player[p] EXCEPT !.last_pos = @ + FirstCopy(p),
                                 !.actual_length = filled]
          ELSE [player[p] EXCEPT !.last_pos = (BufLen - filled) % len,
                                 !.actual_length = BufLen]

\* The sample objects at which the players `done' point when free_player() takes
\* one from ref_count.  The object of an orphan has been freed: its memory may be
\* that of a sample cached since.
Aims(done) ==
    {aim \in [done -> samples \cup {Freed}] :
        \A p \in done \ Orphans : aim[p] = player[p].parent}

\* Cached samples that have the id of the freed one of an orphan in `done'.
Named(done) == {player[p].source_id : p \in done \cap Orphans} \cap samples

\* ref_count of sample i after the players have been freed.
RefsAfter(i, aim) ==
    sample[i].ref_count - Cardinality({p \in DOMAIN aim : aim[p] = i})

\* Mutant: free_player() without the deferred erase_sample().
LastPlayerKeeps(aim, said) == {}

\* Samples erased when players are freed: those to be erased when done whose
\* count reaches zero, and those among `said', the ids that erase_sample() is
\* called with because freed memory still says so, that have no player.
LastPlayerErases(aim, said) ==
    {i \in samples :
        \/ sample[i].erase_when_done /\ 0 \in RefsAfter(i, aim) .. sample[i].ref_count - 1
        \/ i \in said /\ 0 \in RefsAfter(i, aim) .. sample[i].ref_count}

\* Mutant: free_player() without esd_playing_samples--.
FreePlayersUncounted(aim, said) ==
    /\ samples' = samples \ LastPlayerErases(aim, said)
    /\ sample' = [i \in SampleIds |->
                    IF i \in LastPlayerErases(aim, said) THEN NoSample
                    ELSE [sample[i] EXCEPT !.ref_count = RefsAfter(i, aim)]]
    /\ UNCHANGED playing_samples

\* free_player() for the players that aim has, in the samples list.
FreePlayers(aim, said) ==
    /\ samples' = samples \ LastPlayerErases(aim, said)
    /\ sample' = [i \in SampleIds |->
                    IF i \in LastPlayerErases(aim, said) THEN NoSample
                    ELSE IF i \in samples
                      THEN [sample[i] EXCEPT !.ref_count = RefsAfter(i, aim),
                                             !.erase_when_done = @ \/ i \in said]
                      ELSE sample[i]]
    /\ playing_samples' = playing_samples - Cardinality(DOMAIN aim)

\* What is left of n frames when m are mixed: `min' may have forgotten a player
\* with fewer than m.
Left(n, m) == IF n > m THEN n - m ELSE 0

\* mix_players(): every player is read, finished ones are erased with what
\* they still held, and all others give up the same m frames.  An orphan is
\* read through a freed pointer: it may seem finished or not.
Mix ==
    /\ Running
    /\ players # {}
    /\ \E gone \in SUBSET Orphans, m \in 0..BufLen :
         LET done == gone \cup {p \in players \ Orphans : ReadEnds(p)}
             rest == players \ (done \cup Orphans)
         IN  \E aim \in Aims(done), said \in SUBSET Named(done) :
             /\ players' = players \ done
             /\ player' = [p \in Handles |->
                    IF p \in done THEN NoPlayer
                    ELSE IF p \in rest
                      THEN IF player[p].parent \in LastPlayerErases(aim, said)
                             THEN Orphaned(player[p])
                             ELSE [ReadPlayer(p) EXCEPT !.actual_length = Left(@, m)]
                      ELSE player[p]]
             /\ FreePlayers(aim, said)
    /\ UNCHANGED <<next_sample_id, cstate, server, resets>>

\* The other outcome of reading through a freed pointer: the daemon dies.
MixCrash ==
    /\ Running
    /\ Orphans # {}
    /\ server' = "crashed"
    /\ UNCHANGED <<samples, sample, players, player, playing_samples,
                   next_sample_id, cstate, resets>>

----------------------------------------------------------------------------
(* SIGHUP.                                                                 *)

\* reset_daemon(): every client is closed, every sample is erased by force
\* and ids start again.  Players, recorders and esd_playing_samples are left
\* as they are.  A read_sample() the signal interrupts goes on with freed
\* memory.
Reset ==
    /\ server # "crashed"
    /\ resets < MaxReset
    /\ resets' = resets + 1
    /\ cstate' = [c \in Clients |-> "IDLE"]
    /\ samples' = {}
    /\ sample' = [i \in SampleIds |-> NoSample]
    /\ player' = Orphan(samples)
    /\ next_sample_id' = 1
    /\ server' \in IF server = "reading" THEN {"running", "crashed"} ELSE {server}
    /\ UNCHANGED <<players, playing_samples>>

----------------------------------------------------------------------------
Next ==
    \/ \E c \in Clients :
         \/ \E len \in Lengths, func \in Funcs : SampleCache(c, len, func)
         \/ SampleCacheNoMem(c)
         \/ ReadComplete(c) \/ ReadFailed(c) \/ ReadInterrupted(c)
         \/ CacheResume(c)
    \/ \E i \in SampleIds :
         \/ SampleFree(i)
         \/ \E loop \in BOOLEAN : SamplePlay(i, loop)
         \/ SampleStop(i)
    \/ Mix \/ MixCrash \/ Reset

Spec == Init /\ [][Next]_vars

\* esd_comm_loop() does not wait while esd_playing_samples is not zero, so a
\* running daemon keeps mixing.
FairSpec == Spec /\ WF_vars(Mix)

----------------------------------------------------------------------------
(* Properties.                                                             *)

\* Every variable has the type its C declaration and use give it; an id on the
\* samples list has been handed out.
TypeOK ==
    /\ samples \subseteq SampleIds
    /\ sample \in [SampleIds -> SampleRec]
    /\ players \subseteq Handles
    /\ player \in [Handles -> PlayerRec]
    /\ playing_samples \in Int
    /\ next_sample_id \in 1..MaxSample + 1
    /\ \A i \in samples : i < next_sample_id
    /\ cstate \in [Clients -> ClientState]
    /\ server \in {"running", "reading", "spinning", "crashed"}
    /\ resets \in 0..MaxReset

\* ref_count of every cached sample is the number of players that read from it,
\* whatever the order of play, loop, stop, free and the end of players
\* (new_sample_player(), free_player()), unless a SIGHUP has freed samples: the
\* players it leaves behind count down what has got their sample's memory.
RefCountExact ==
    resets = 0 => \A i \in samples : sample[i].ref_count = Cardinality(PlayersOf(i))

\* esd_playing_samples, which decides whether esd_comm_loop() may sleep, is the
\* number of sample players on the list, across SIGHUP too.
PlayingExact == playing_samples = Cardinality(players)

\* Unless a SIGHUP has freed samples, no player points to a freed sample, and
\* the sample it points to is the one it was started for (erase_sample() waits
\* for the last player).
ParentAlive ==
    /\ resets = 0 => Orphans = {}
    /\ \A p \in players \ Orphans :
           player[p].parent \in samples /\ player[p].source_id = player[p].parent

\* A sample flagged erase_when_done still has a player that will erase it: an
\* uncache request is never forgotten on the list, unless a SIGHUP has freed
\* samples.
DeferredHasPlayer ==
    resets = 0 => \A i \in samples : sample[i].erase_when_done => PlayersOf(i) # {}

\* read_player() copies inside the sample and inside the player's buffer: both
\* cursors stay within bounds, for looping players too.
CursorsInBounds ==
    \A p \in players \ Orphans :
        /\ player[p].last_pos \in 0..sample[player[p].parent].len
        /\ player[p].actual_length \in 0..BufLen

\* A player that does not loop, or that stop_sample() has told to stop, leaves
\* the list, unless the daemon is blocked in read_sample(), spins in
\* find_caching_sample() or follows a freed pointer.
NonLoopEnds ==
    \A p \in Handles :
        (p \in players /\ player[p].func # "LOOP")
            ~> (p \notin players \/ p \in Orphans \/ ~Running)

\* "play a cached sample in a loop": a looping player of a sample that has data
\* and may be played leaves the list only after stop_sample().
LoopGoesOn ==
    [][\A p \in players \ Orphans :
          /\ player[p].func = "LOOP"
          /\ sample[player[p].parent].func # "STOP"
          /\ sample[player[p].parent].len > 0
          => p \in players']_vars

\* "track players for clean deletion": no player is ever left with a pointer to
\* a freed sample, SIGHUP included.
CleanDeletion == Orphans = {}
============================================================================
