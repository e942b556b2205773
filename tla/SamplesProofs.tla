--------------------------- MODULE SamplesProofs ---------------------------
(***************************************************************************)
(* Proofs about Samples, for any number of connections, samples, players,  *)
(* SIGHUPs and any lengths.                                                *)
(*                                                                         *)
(* None of the invariants is inductive alone: a reference count is exact   *)
(* because a new id has no player yet (ParentAlive), a sample is freed     *)
(* without leaving a player behind because the count is exact, a deferred  *)
(* erasure is carried out because the count reaches zero with the last     *)
(* player.  IInv is their conjunction.                                     *)
(***************************************************************************)
EXTENDS Samples, FiniteSetTheorems, TLAPS

IInv ==
    /\ TypeOK
    /\ RefCountExact
    /\ PlayingExact
    /\ ParentAlive
    /\ DeferredHasPlayer
    /\ CursorsInBounds

\* Every set of players is finite, and its cardinality is zero exactly when it
\* is empty (players of a sample, in RefCountExact and DeferredHasPlayer).
LEMMA FinitePlayers ==
    ASSUME TypeOK, NEW S \in SUBSET players
    PROVE  /\ IsFiniteSet(S)
           /\ Cardinality(S) \in Nat
           /\ Cardinality(S) = 0 <=> S = {}
<1>1. IsFiniteSet(1..MaxPlayer)
  BY FS_Interval, SamplesAssumption
<1>2. S \subseteq 1..MaxPlayer
  BY DEF TypeOK, Handles
<1>3. IsFiniteSet(S)
  BY <1>1, <1>2, FS_Subset
<1> QED BY <1>3, FS_EmptySet, FS_CardinalityType

\* The placeholders have the types of the records they stand for.
LEMMA Placeholders == NoSample \in SampleRec /\ NoPlayer \in PlayerRec
<1>1. (CHOOSE c \in Clients : TRUE) \in Clients
  BY SamplesAssumption
<1> QED BY <1>1 DEF NoSample, NoPlayer, SampleRec, PlayerRec, Func, Freed

\* A player whose sample is freed keeps its type and points to no sample.
LEMMA OrphanedIs ==
    ASSUME NEW pl \in PlayerRec
    PROVE  Orphaned(pl) \in PlayerRec /\ Orphaned(pl).parent = Freed
  BY DEF Orphaned, NoPlayer, PlayerRec, Func, Freed

\* Freeing sample objects in erase_sample() and reset_daemon() keeps player
\* records well typed.
LEMMA OrphanType ==
    ASSUME TypeOK, NEW ids \in SUBSET SampleIds
    PROVE  Orphan(ids) \in [Handles -> PlayerRec]
<1>1. ASSUME NEW pl \in PlayerRec PROVE Orphaned(pl) \in PlayerRec
  BY OrphanedIs
<1>2. \A p \in Handles : player[p] \in PlayerRec
  BY DEF TypeOK
<1> QED BY <1>1, <1>2 DEF Orphan

\* read_player() leaves both cursors of a player it does not end within the
\* sample and the buffer, for looping players too.
LEMMA ReadPlayerBounds ==
    ASSUME IInv, NEW p \in players \ Orphans, ~ReadEnds(p)
    PROVE  /\ ReadPlayer(p) \in PlayerRec
           /\ ReadPlayer(p).parent = player[p].parent
           /\ ReadPlayer(p).source_id = player[p].source_id
           /\ ReadPlayer(p).last_pos \in 0..sample[player[p].parent].len
           /\ ReadPlayer(p).actual_length \in 0..BufLen
<1> DEFINE len == sample[player[p].parent].len
           filled == player[p].actual_length + FirstCopy(p)
<1>1. /\ player[p] \in PlayerRec
      /\ player[p].parent \in samples
      /\ len \in Nat
      /\ player[p].last_pos \in 0..len
      /\ player[p].actual_length \in 0..BufLen
  BY DEF IInv, TypeOK, ParentAlive, CursorsInBounds, SampleRec
<1>2. /\ FirstCopy(p) \in Int
      /\ FirstCopy(p) > 0
      /\ player[p].last_pos + FirstCopy(p) \in 0..len
      /\ filled \in 0..BufLen
  BY <1>1, SamplesAssumption DEF ReadEnds, FirstCopy
<1>3. len > 0
  BY <1>1, <1>2
<1>4. (BufLen - filled) % len \in 0..len
  BY <1>1, <1>2, <1>3, SamplesAssumption
<1>5. \E x \in 0..len, y \in 0..BufLen :
         ReadPlayer(p) = [player[p] EXCEPT !.last_pos = x, !.actual_length = y]
  <2>1. CASE filled = BufLen \/ player[p].func # "LOOP"
    <3>1. ReadPlayer(p) = [player[p] EXCEPT !.last_pos = player[p].last_pos + FirstCopy(p),
                                            !.actual_length = filled]
      BY <1>1, <2>1 DEF ReadPlayer, PlayerRec
    <3> HIDE DEF filled, len
    <3> QED BY <1>2, <3>1
  <2>2. CASE ~(filled = BufLen \/ player[p].func # "LOOP")
    <3>1. ReadPlayer(p) = [player[p] EXCEPT !.last_pos = (BufLen - filled) % len,
                                            !.actual_length = BufLen]
      BY <2>2 DEF ReadPlayer
    <3>2. BufLen \in 0..BufLen
      BY SamplesAssumption
    <3> QED BY <1>4, <3>1, <3>2
  <2> QED BY <2>1, <2>2
<1>6. PICK x \in 0..len, y \in 0..BufLen :
         ReadPlayer(p) = [player[p] EXCEPT !.last_pos = x, !.actual_length = y]
  BY <1>5
<1>7. x \in Int /\ y \in Int
  BY <1>1, SamplesAssumption
<1>8. /\ ReadPlayer(p) \in PlayerRec
      /\ ReadPlayer(p).parent = player[p].parent
      /\ ReadPlayer(p).source_id = player[p].source_id
      /\ ReadPlayer(p).last_pos = x
      /\ ReadPlayer(p).actual_length = y
  <2> HIDE DEF filled, len
  <2>1. player[p] \in PlayerRec
    BY <1>1
  <2>2. ReadPlayer(p) = [player[p] EXCEPT !.last_pos = x, !.actual_length = y]
    BY <1>6
  <2> QED BY <1>7, <2>1, <2>2 DEF PlayerRec
<1> QED BY <1>6, <1>8

\* Initially both lists are empty and every count is zero.
LEMMA InitIInv == Init => IInv
<1> SUFFICES ASSUME Init PROVE IInv
  OBVIOUS
<1>1. TypeOK
  BY Placeholders, SamplesAssumption DEF Init, TypeOK, ClientState
<1>2. RefCountExact /\ DeferredHasPlayer
  BY DEF Init, RefCountExact, DeferredHasPlayer
<1>3. PlayingExact
  BY FS_EmptySet DEF Init, PlayingExact
<1>4. ParentAlive /\ CursorsInBounds
  BY DEF Init, ParentAlive, CursorsInBounds, Orphans
<1> QED BY <1>1, <1>2, <1>3, <1>4 DEF IInv

\* A step that leaves the player list alone, and of the samples changes at most
\* the flag `cached', preserves IInv.
LEMMA FrameIInv ==
    ASSUME IInv, TypeOK',
           UNCHANGED <<samples, players, player, playing_samples, resets>>,
           \A i \in samples : /\ sample'[i].ref_count = sample[i].ref_count
                              /\ sample'[i].erase_when_done = sample[i].erase_when_done
                              /\ sample'[i].len = sample[i].len
    PROVE  IInv'
<1>1. \A i : PlayersOf(i)' = PlayersOf(i)
  BY DEF PlayersOf
<1>2. Orphans' = Orphans
  BY DEF Orphans
<1>3. RefCountExact' /\ DeferredHasPlayer'
  BY <1>1 DEF IInv, RefCountExact, DeferredHasPlayer
<1>4. PlayingExact' /\ ParentAlive'
  BY <1>2 DEF IInv, PlayingExact, ParentAlive
<1>5. CursorsInBounds'
  BY <1>2 DEF IInv, ParentAlive, CursorsInBounds
<1> QED BY <1>3, <1>4, <1>5 DEF IInv

\* new_sample() hands out an id no player refers to.
LEMMA SampleCacheIInv ==
    ASSUME IInv, NEW c \in Clients, NEW len \in Lengths, NEW func \in Funcs,
           SampleCache(c, len, func)
    PROVE  IInv'
<1> DEFINE n == next_sample_id
<1>1. /\ n \in SampleIds
      /\ samples' = samples \cup {n}
      /\ sample' = [sample EXCEPT ![n] =
                      [NoSample EXCEPT !.parent = c, !.func = func, !.len = len]]
      /\ UNCHANGED <<players, player, playing_samples, resets>>
  BY DEF SampleCache, IdLeft
<1>2. n \notin samples
  BY DEF IInv, TypeOK
<1>3. TypeOK'
  <2>1. [NoSample EXCEPT !.parent = c, !.func = func, !.len = len] \in SampleRec
    BY Placeholders, SamplesAssumption DEF SampleRec, Func
  <2> QED BY <1>1, <2>1, SamplesAssumption
            DEF IInv, TypeOK, SampleCache, IdLeft, SampleIds, ClientState
<1>4. /\ \A i : PlayersOf(i)' = PlayersOf(i)
      /\ Orphans' = Orphans
  BY <1>1 DEF PlayersOf, Orphans
<1>5. PlayersOf(n) = {}
  BY <1>1, <1>2 DEF IInv, ParentAlive, PlayersOf, Orphans, SampleIds, Freed
<1>6. \A i \in samples : sample'[i] = sample[i]
  BY <1>1, <1>2 DEF IInv, TypeOK
<1>7. sample'[n].ref_count = 0 /\ ~sample'[n].erase_when_done
  BY <1>1 DEF IInv, TypeOK, NoSample
<1>8. RefCountExact'
  BY <1>1, <1>4, <1>5, <1>6, <1>7, FS_EmptySet DEF IInv, RefCountExact
<1>9. DeferredHasPlayer'
  BY <1>1, <1>4, <1>6, <1>7 DEF IInv, DeferredHasPlayer
<1>10. PlayingExact' /\ ParentAlive'
  BY <1>1, <1>4 DEF IInv, PlayingExact, ParentAlive
<1>11. CursorsInBounds'
  <2> SUFFICES ASSUME NEW p \in players \ Orphans
               PROVE  /\ player[p].last_pos \in 0..sample'[player[p].parent].len
                      /\ player[p].actual_length \in 0..BufLen
    BY <1>1, <1>4 DEF CursorsInBounds
  <2>1. sample'[player[p].parent] = sample[player[p].parent]
    BY <1>6 DEF IInv, ParentAlive
  <2> QED BY <2>1 DEF IInv, CursorsInBounds
<1> QED BY <1>3, <1>8, <1>9, <1>10, <1>11 DEF IInv

\* The steps of an upload touch neither reference counts nor players.
LEMMA UploadIInv ==
    ASSUME IInv, NEW c \in Clients,
           \/ SampleCacheNoMem(c) \/ ReadComplete(c) \/ ReadFailed(c)
           \/ ReadInterrupted(c) \/ CacheResume(c)
    PROVE  IInv'
<1>1. CASE SampleCacheNoMem(c)
  <2>1. TypeOK'
    BY <1>1, SamplesAssumption DEF IInv, TypeOK, SampleCacheNoMem, IdLeft, SampleIds
  <2> QED BY <1>1, <2>1, FrameIInv DEF SampleCacheNoMem
<1>2. CASE ReadComplete(c)
  <2>1. /\ sample' = [sample EXCEPT ![HeadSample].cached = TRUE]
        /\ UNCHANGED <<samples, players, player, playing_samples, resets>>
    BY <1>2 DEF ReadComplete
  <2>2. sample' \in [SampleIds -> SampleRec]
    BY <2>1 DEF IInv, TypeOK, SampleRec
  <2>3. TypeOK'
    BY <1>2, <2>2 DEF IInv, TypeOK, ReadComplete, ClientState
  <2>4. \A i \in samples : /\ sample'[i].ref_count = sample[i].ref_count
                           /\ sample'[i].erase_when_done = sample[i].erase_when_done
                           /\ sample'[i].len = sample[i].len
    BY <2>1 DEF IInv, TypeOK, SampleRec
  <2> QED BY <2>1, <2>3, <2>4, FrameIInv
<1>3. CASE ReadFailed(c)
  <2>1. TypeOK'
    BY <1>3 DEF IInv, TypeOK, ReadFailed, ClientState
  <2> QED BY <1>3, <2>1, FrameIInv DEF ReadFailed
<1>4. CASE ReadInterrupted(c)
  <2>1. TypeOK'
    BY <1>4 DEF IInv, TypeOK, ReadInterrupted, ClientState
  <2> QED BY <1>4, <2>1, FrameIInv DEF ReadInterrupted
<1>5. CASE CacheResume(c)
  <2>1. TypeOK'
    BY <1>5 DEF IInv, TypeOK, CacheResume, ClientState
  <2> QED BY <1>5, <2>1, FrameIInv DEF CacheResume
<1> QED BY <1>1, <1>2, <1>3, <1>4, <1>5

\* erase_sample() frees a sample only when no player reads from it.
LEMMA SampleFreeIInv ==
    ASSUME IInv, NEW i \in SampleIds, SampleFree(i)
    PROVE  IInv'
<1>1. UNCHANGED <<players, playing_samples, next_sample_id, cstate, server, resets>>
  BY DEF SampleFree
<1>2. CASE i \notin samples /\ UNCHANGED <<samples, sample, player>>
  <2>1. TypeOK'
    BY <1>1, <1>2 DEF IInv, TypeOK
  <2> QED BY <1>1, <1>2, <2>1, FrameIInv
<1>3. CASE /\ i \in samples
           /\ sample[i].ref_count # 0
           /\ sample' = [sample EXCEPT ![i].erase_when_done = TRUE]
           /\ UNCHANGED <<samples, player>>
  <2>1. sample' \in [SampleIds -> SampleRec]
    BY <1>3 DEF IInv, TypeOK, SampleRec
  <2>2. TypeOK'
    BY <1>1, <1>3, <2>1 DEF IInv, TypeOK
  <2>3. /\ \A j : PlayersOf(j)' = PlayersOf(j)
        /\ Orphans' = Orphans
    BY <1>1, <1>3 DEF PlayersOf, Orphans
  <2>4. \A j \in samples : /\ sample'[j].ref_count = sample[j].ref_count
                           /\ sample'[j].len = sample[j].len
                           /\ j # i => sample'[j] = sample[j]
    BY <1>3 DEF IInv, TypeOK, SampleRec
  <2>5. resets = 0 => PlayersOf(i) # {}
    BY <1>3, FS_EmptySet DEF IInv, RefCountExact
  <2>6. RefCountExact'
    BY <1>1, <1>3, <2>3, <2>4 DEF IInv, RefCountExact
  <2>7. DeferredHasPlayer'
    BY <1>1, <1>3, <2>3, <2>4, <2>5 DEF IInv, DeferredHasPlayer
  <2>8. PlayingExact' /\ ParentAlive'
    BY <1>1, <1>3, <2>3 DEF IInv, PlayingExact, ParentAlive
  <2>9. CursorsInBounds'
    BY <1>1, <1>3, <2>3, <2>4 DEF IInv, ParentAlive, CursorsInBounds
  <2> QED BY <2>2, <2>6, <2>7, <2>8, <2>9 DEF IInv
<1>4. CASE /\ i \in samples
           /\ sample[i].ref_count = 0
           /\ samples' = samples \ {i}
           /\ sample' = [sample EXCEPT ![i] = NoSample]
           /\ player' = Orphan({i})
  <2>1. TypeOK'
    BY <1>1, <1>4, OrphanType, Placeholders DEF IInv, TypeOK
  <2>2. ASSUME resets = 0 PROVE PlayersOf(i) = {}
    <3>1. PlayersOf(i) \subseteq players /\ Cardinality(PlayersOf(i)) = 0
      BY <1>4, <2>2 DEF IInv, RefCountExact, PlayersOf
    <3> QED BY <3>1, FinitePlayers DEF IInv
  <2>3. \A p \in players : IF player[p].parent = i THEN player'[p].parent = Freed
                                                 ELSE player'[p] = player[p]
    <3> SUFFICES ASSUME NEW p \in players
                 PROVE  IF player[p].parent = i THEN player'[p].parent = Freed
                                                ELSE player'[p] = player[p]
      OBVIOUS
    <3>1. p \in Handles /\ player[p] \in PlayerRec
      BY DEF IInv, TypeOK
    <3> QED BY <1>4, <3>1, OrphanedIs DEF Orphan
  <2>4. i # Freed /\ \A j \in samples' : j # i /\ j # Freed
    BY <1>4 DEF IInv, TypeOK, SampleIds, Freed
  <2>5. /\ \A j \in samples' : PlayersOf(j)' = PlayersOf(j)
        /\ Orphans' = Orphans \cup PlayersOf(i)
    <3>1. \A p \in players : /\ \A j \in samples' : player'[p].parent = j <=> player[p].parent = j
                             /\ player'[p].parent = Freed
                                   <=> player[p].parent = Freed \/ player[p].parent = i
      BY <2>3, <2>4
    <3> QED BY <1>1, <3>1 DEF PlayersOf, Orphans
  <2>6. \A j \in samples' : j \in samples /\ j # i /\ sample'[j] = sample[j]
    BY <1>4 DEF IInv, TypeOK
  <2>7. RefCountExact'
    BY <1>1, <2>5, <2>6 DEF IInv, RefCountExact
  <2>8. DeferredHasPlayer'
    BY <1>1, <2>5, <2>6 DEF IInv, DeferredHasPlayer
  <2>9. PlayingExact'
    BY <1>1 DEF IInv, PlayingExact
  <2>10. \A p \in players' \ Orphans' : p \in players \ Orphans /\ player'[p] = player[p]
                                       /\ player[p].parent # i
    BY <1>1, <2>3, <2>5 DEF PlayersOf
  <2>11. ParentAlive'
    BY <1>1, <1>4, <2>2, <2>5, <2>10 DEF IInv, ParentAlive
  <2>12. CursorsInBounds'
    BY <2>6, <2>10, <2>11 DEF IInv, ParentAlive, CursorsInBounds
  <2> QED BY <2>1, <2>7, <2>8, <2>9, <2>11, <2>12 DEF IInv
<1> QED BY <1>2, <1>3, <1>4 DEF SampleFree, EraseSample

\* new_sample_player() counts the new player in its sample and in
\* esd_playing_samples.
LEMMA NewPlayerIInv ==
    ASSUME IInv, NEW i \in samples, NEW loop \in BOOLEAN, NEW h \in Handles,
           IsNextHandle(h), NewSamplePlayer(h, i, loop),
           UNCHANGED <<samples, next_sample_id, cstate, server, resets>>
    PROVE  IInv'
<1> DEFINE new == [parent |-> i, source_id |-> i,
                   func |-> IF loop THEN "LOOP" ELSE sample[i].func,
                   last_pos |-> 0, actual_length |-> 0]
<1>1. /\ players' = players \cup {h}
      /\ player' = [player EXCEPT ![h] = new]
      /\ playing_samples' = playing_samples + 1
      /\ sample' = [sample EXCEPT ![i].ref_count = @ + 1]
  BY DEF NewSamplePlayer
<1>2. /\ i \in SampleIds /\ i # Freed
      /\ sample[i] \in SampleRec
      /\ sample[i].func \in Func
      /\ sample[i].ref_count \in Int
  BY DEF IInv, TypeOK, SampleIds, Freed, SampleRec
<1>3. h \notin players
  BY DEF IsNextHandle, Handles, IInv, TypeOK
<1>4. /\ new \in PlayerRec
      /\ new.parent = i /\ new.source_id = i
      /\ new.last_pos = 0 /\ new.actual_length = 0
  BY <1>2 DEF PlayerRec, Func
<1> HIDE DEF new
<1>5. sample' \in [SampleIds -> SampleRec]
  BY <1>1, <1>2 DEF IInv, TypeOK, SampleRec
<1>6. TypeOK'
  BY <1>1, <1>4, <1>5 DEF IInv, TypeOK
<1>7. /\ \A p \in players : p # h /\ player'[p] = player[p]
      /\ player'[h] = new
  BY <1>1, <1>3 DEF IInv, TypeOK
<1>8. /\ PlayersOf(i)' = PlayersOf(i) \cup {h}
      /\ \A j \in samples \ {i} : PlayersOf(j)' = PlayersOf(j)
      /\ Orphans' = Orphans
  BY <1>1, <1>2, <1>4, <1>7 DEF PlayersOf, Orphans
<1>9. \A j \in samples : /\ sample'[j].len = sample[j].len
                         /\ sample'[j].erase_when_done = sample[j].erase_when_done
                         /\ j # i => sample'[j].ref_count = sample[j].ref_count
                         /\ sample'[i].ref_count = sample[i].ref_count + 1
  BY <1>1, <1>2 DEF IInv, TypeOK, SampleRec
<1>10. RefCountExact'
  <2>1. IsFiniteSet(PlayersOf(i)) /\ h \notin PlayersOf(i)
    BY <1>3, FinitePlayers DEF IInv, PlayersOf
  <2>2. Cardinality(PlayersOf(i)') = Cardinality(PlayersOf(i)) + 1
    BY <1>8, <2>1, FS_AddElement
  <2> QED BY <1>8, <1>9, <2>2 DEF IInv, RefCountExact
<1>11. PlayingExact'
  <2>1. IsFiniteSet(players)
    BY FinitePlayers DEF IInv
  <2>2. Cardinality(players') = Cardinality(players) + 1
    BY <1>1, <1>3, <2>1, FS_AddElement
  <2> QED BY <1>1, <2>2 DEF IInv, PlayingExact
<1>12. ParentAlive'
  BY <1>1, <1>4, <1>7, <1>8 DEF IInv, ParentAlive
<1>13. DeferredHasPlayer'
  BY <1>8, <1>9 DEF IInv, DeferredHasPlayer
<1>14. CursorsInBounds'
  <2>1. sample'[i].len \in Nat
    BY <1>2, <1>9 DEF SampleRec
  <2> QED BY <1>1, <1>4, <1>7, <1>8, <1>9, <2>1, SamplesAssumption
            DEF IInv, ParentAlive, CursorsInBounds
<1> QED BY <1>6, <1>10, <1>11, <1>12, <1>13, <1>14 DEF IInv

\* stop_sample() changes the function of one player and nothing else.
LEMMA SampleStopIInv ==
    ASSUME IInv, NEW i \in SampleIds, SampleStop(i)
    PROVE  IInv'
<1>1. UNCHANGED <<samples, sample, players, playing_samples, next_sample_id,
                  cstate, server, resets>>
  BY DEF SampleStop
<1>2. CASE UNCHANGED player
  <2>1. TypeOK'
    BY <1>1, <1>2 DEF IInv, TypeOK
  <2> QED BY <1>1, <1>2, <2>1, FrameIInv
<1>3. ASSUME NEW p \in players, player' = [player EXCEPT ![p].func = "STOP"]
      PROVE  IInv'
  <2>1. player' \in [Handles -> PlayerRec]
    BY <1>3 DEF IInv, TypeOK, PlayerRec, Func
  <2>2. TypeOK'
    BY <1>1, <2>1 DEF IInv, TypeOK
  <2>3. \A q \in players : /\ player'[q].parent = player[q].parent
                           /\ player'[q].source_id = player[q].source_id
                           /\ player'[q].last_pos = player[q].last_pos
                           /\ player'[q].actual_length = player[q].actual_length
    BY <1>3 DEF IInv, TypeOK, PlayerRec
  <2>4. /\ \A j : PlayersOf(j)' = PlayersOf(j)
        /\ Orphans' = Orphans
    BY <1>1, <2>3 DEF PlayersOf, Orphans
  <2>5. RefCountExact' /\ DeferredHasPlayer'
    BY <1>1, <2>4 DEF IInv, RefCountExact, DeferredHasPlayer
  <2>6. PlayingExact' /\ ParentAlive'
    BY <1>1, <2>3, <2>4 DEF IInv, PlayingExact, ParentAlive
  <2>7. CursorsInBounds'
    BY <1>1, <2>3, <2>4 DEF IInv, CursorsInBounds
  <2> QED BY <2>2, <2>5, <2>6, <2>7 DEF IInv
<1> QED BY <1>2, <1>3 DEF SampleStop, StopSample

\* reset_daemon() frees every sample and leaves the players without one.
LEMMA ResetIInv ==
    ASSUME IInv, Reset
    PROVE  IInv'
<1>1. /\ samples' = {}
      /\ sample' = [i \in SampleIds |-> NoSample]
      /\ player' = Orphan(samples)
      /\ next_sample_id' = 1
      /\ resets < MaxReset /\ resets' = resets + 1
      /\ UNCHANGED <<players, playing_samples>>
  BY DEF Reset
<1>2. TypeOK'
  <2>1. player' \in [Handles -> PlayerRec]
    BY <1>1, OrphanType DEF IInv, TypeOK
  <2>2. sample' \in [SampleIds -> SampleRec]
    BY <1>1, Placeholders
  <2>3. /\ resets' \in 0..MaxReset
        /\ next_sample_id' \in 1..MaxSample + 1
    BY <1>1, SamplesAssumption DEF IInv, TypeOK
  <2>4. /\ cstate' \in [Clients -> ClientState]
        /\ server' \in {"running", "reading", "spinning", "crashed"}
    BY DEF IInv, TypeOK, Reset, ClientState
  <2> QED BY <1>1, <2>1, <2>2, <2>3, <2>4 DEF IInv, TypeOK
<1>3. Orphans' = players'
  <2>1. \A p \in players : player'[p].parent = Freed
    <3> SUFFICES ASSUME NEW p \in players PROVE player'[p].parent = Freed
      OBVIOUS
    <3>1. p \in Handles /\ player[p] \in PlayerRec
      BY DEF IInv, TypeOK
    <3>2. CASE player[p].parent \in samples
      BY <1>1, <3>1, <3>2, OrphanedIs DEF Orphan
    <3>3. CASE player[p].parent \notin samples
      BY <1>1, <3>1, <3>3 DEF Orphan, IInv, ParentAlive, Orphans
    <3> QED BY <3>2, <3>3
  <2> QED BY <1>1, <2>1 DEF Orphans
<1>4. RefCountExact' /\ DeferredHasPlayer'
  BY <1>1 DEF RefCountExact, DeferredHasPlayer
<1>5. PlayingExact'
  BY <1>1 DEF IInv, PlayingExact
<1>6. ParentAlive' /\ CursorsInBounds'
  BY <1>1, <1>3, SamplesAssumption DEF IInv, TypeOK, ParentAlive, CursorsInBounds
<1> QED BY <1>2, <1>4, <1>5, <1>6 DEF IInv

\* mix_players() frees finished players.  Before any SIGHUP each sample loses
\* exactly the players that are freed, and one whose last player goes is erased
\* if that was asked.  After one a count may be wrong and a sample erased under
\* its players, which are then orphans.
LEMMA MixIInv ==
    ASSUME IInv, Mix
    PROVE  IInv'
<1>1. PICK gone \in SUBSET Orphans, m \in 0..BufLen :
        LET done == gone \cup {p \in players \ Orphans : ReadEnds(p)}
            rest == players \ (done \cup Orphans)
        IN  \E aim \in Aims(done), said \in SUBSET Named(done) :
            /\ players' = players \ done
            /\ player' = [p \in Handles |->
                   IF p \in done THEN NoPlayer
                   ELSE IF p \in rest
                     THEN IF player[p].parent \in LastPlayerErases(aim, said)
                            THEN Orphaned(player[p])
                            ELSE [ReadPlayer(p) EXCEPT !.actual_length = Left(@, m)]
                     ELSE player[p]]
            /\ FreePlayers(aim, said)
  BY DEF Mix
<1> DEFINE done == gone \cup {p \in players \ Orphans : ReadEnds(p)}
           rest == players \ (done \cup Orphans)
<1>2. PICK aim \in Aims(done), said \in SUBSET Named(done) :
        /\ players' = players \ done
        /\ player' = [p \in Handles |->
               IF p \in done THEN NoPlayer
               ELSE IF p \in rest
                 THEN IF player[p].parent \in LastPlayerErases(aim, said)
                        THEN Orphaned(player[p])
                        ELSE [ReadPlayer(p) EXCEPT !.actual_length = Left(@, m)]
                 ELSE player[p]]
        /\ FreePlayers(aim, said)
  BY <1>1
<1> DEFINE erased == LastPlayerErases(aim, said)
           aimed(i) == {p \in DOMAIN aim : aim[p] = i}
<1>3. /\ done \subseteq players
      /\ \A p \in rest : p \in players \ Orphans /\ ~ReadEnds(p)
      /\ \A p \in players \ done : p \in rest \/ p \in Orphans
  BY DEF Orphans
<1>4. /\ DOMAIN aim = done
      /\ \A p \in done \ Orphans : aim[p] = player[p].parent
  BY DEF Aims
<1>5. /\ players' = players \ done
      /\ player' = [p \in Handles |->
                   IF p \in done THEN NoPlayer
                   ELSE IF p \in rest
                     THEN IF player[p].parent \in erased
                            THEN Orphaned(player[p])
                            ELSE [ReadPlayer(p) EXCEPT !.actual_length = Left(@, m)]
                     ELSE player[p]]
      /\ samples' = samples \ erased
      /\ sample' = [i \in SampleIds |->
                    IF i \in erased THEN NoSample
                    ELSE IF i \in samples
                      THEN [sample[i] EXCEPT !.ref_count = RefsAfter(i, aim),
                                             !.erase_when_done = @ \/ i \in said]
                      ELSE sample[i]]
      /\ playing_samples' = playing_samples - Cardinality(done)
  BY <1>2, <1>4 DEF FreePlayers
<1>6. UNCHANGED <<next_sample_id, cstate, server, resets>>
  BY DEF Mix
<1>7. \A i \in samples : RefsAfter(i, aim) \in Int
  <2> SUFFICES ASSUME NEW i \in samples PROVE RefsAfter(i, aim) \in Int
    OBVIOUS
  <2>1. aimed(i) \subseteq players
    BY <1>3, <1>4
  <2> HIDE DEF aimed
  <2>2. Cardinality(aimed(i)) \in Nat
    BY <2>1, FinitePlayers DEF IInv
  <2>3. sample[i].ref_count \in Int
    BY DEF IInv, TypeOK, SampleRec
  <2> QED BY <2>2, <2>3 DEF RefsAfter, aimed
<1>8. ASSUME resets = 0
      PROVE  /\ said = {}
             /\ \A i \in samples :
                   /\ RefsAfter(i, aim) = Cardinality(PlayersOf(i) \ done)
                   /\ RefsAfter(i, aim) \in Nat
                   /\ RefsAfter(i, aim) = 0 <=> PlayersOf(i) \ done = {}
  <2>1. Orphans = {}
    BY <1>8 DEF IInv, ParentAlive
  <2>2. said = {}
    BY <2>1 DEF Named
  <2>3. ASSUME NEW i \in samples
        PROVE  /\ RefsAfter(i, aim) = Cardinality(PlayersOf(i) \ done)
               /\ RefsAfter(i, aim) \in Nat
               /\ RefsAfter(i, aim) = 0 <=> PlayersOf(i) \ done = {}
    <3>1. aimed(i) = PlayersOf(i) \cap done
      BY <1>3, <1>4, <2>1 DEF PlayersOf
    <3>2. PlayersOf(i) \subseteq players /\ PlayersOf(i) \ done \subseteq players
      BY DEF PlayersOf
    <3>3. IsFiniteSet(PlayersOf(i))
      BY <3>2, FinitePlayers DEF IInv
    <3>4. Cardinality(PlayersOf(i) \ done)
            = Cardinality(PlayersOf(i)) - Cardinality(PlayersOf(i) \cap done)
      BY <3>3, FS_Difference
    <3>5. RefsAfter(i, aim) = Cardinality(PlayersOf(i) \ done)
      BY <1>8, <3>1, <3>4 DEF RefsAfter, IInv, RefCountExact
    <3>6. /\ Cardinality(PlayersOf(i) \ done) \in Nat
          /\ Cardinality(PlayersOf(i) \ done) = 0 <=> PlayersOf(i) \ done = {}
      BY <3>2, FinitePlayers DEF IInv
    <3> QED BY <3>5, <3>6
  <2> QED BY <2>2, <2>3
<1>9. \A p \in rest : player[p].parent \in samples
  BY <1>3 DEF IInv, ParentAlive
<1>10. ASSUME NEW p \in rest, resets = 0 PROVE player[p].parent \notin erased
  <2>1. player[p].parent \in samples
    BY <1>9
  <2>2. p \in PlayersOf(player[p].parent) \ done
    BY <1>3 DEF PlayersOf
  <2> DEFINE j == player[p].parent
  <2> HIDE DEF done, rest, j
  <2>3. RefsAfter(j, aim) \in Nat /\ RefsAfter(j, aim) # 0 /\ said = {}
    BY <1>8, <1>10, <2>1, <2>2 DEF j
  <2>4. ~(0 \in RefsAfter(j, aim) .. sample[j].ref_count - 1)
    BY <2>3
  <2> QED BY <2>3, <2>4 DEF LastPlayerErases, j, erased
<1>11. ASSUME NEW p \in rest, player[p].parent \notin erased
       PROVE  /\ player'[p] \in PlayerRec
              /\ player'[p].parent = player[p].parent
              /\ player'[p].source_id = player[p].source_id
              /\ player'[p].last_pos \in 0..sample[player[p].parent].len
              /\ player'[p].actual_length \in 0..BufLen
  <2>1. p \in Handles /\ p \notin done
    BY <1>3 DEF IInv, TypeOK
  <2>2. player'[p] = [ReadPlayer(p) EXCEPT !.actual_length = Left(@, m)]
    BY <1>5, <1>11, <2>1
  <2>3. /\ ReadPlayer(p) \in PlayerRec
        /\ ReadPlayer(p).parent = player[p].parent
        /\ ReadPlayer(p).source_id = player[p].source_id
        /\ ReadPlayer(p).last_pos \in 0..sample[player[p].parent].len
        /\ ReadPlayer(p).actual_length \in 0..BufLen
    BY <1>3, ReadPlayerBounds
  <2>4. Left(ReadPlayer(p).actual_length, m) \in 0..BufLen
    BY <2>3, SamplesAssumption DEF Left
  <2> HIDE DEF rest, done
  <2> QED BY <2>2, <2>3, <2>4, SamplesAssumption DEF PlayerRec
<1>12. ASSUME NEW p \in rest, player[p].parent \in erased
       PROVE  player'[p] \in PlayerRec /\ player'[p].parent = Freed
  <2>1. p \in Handles /\ p \notin done /\ player[p] \in PlayerRec
    BY <1>3 DEF IInv, TypeOK
  <2>2. player'[p] = Orphaned(player[p])
    BY <1>5, <1>12, <2>1
  <2> QED BY <2>1, <2>2, OrphanedIs
<1>13. \A p \in Orphans \ done : player'[p] = player[p]
  BY <1>5 DEF IInv, TypeOK, Orphans
<1>14. \A i \in samples' : /\ i \in samples
                           /\ sample'[i].len = sample[i].len
                           /\ sample'[i].erase_when_done
                                 = (sample[i].erase_when_done \/ i \in said)
                           /\ sample'[i].ref_count = RefsAfter(i, aim)
  BY <1>5 DEF IInv, TypeOK, SampleRec
<1>15. \A i \in samples' : PlayersOf(i)' = PlayersOf(i) \ done
  <2>1. \A i \in samples : i # Freed
    BY DEF IInv, TypeOK, SampleIds, Freed
  <2>2. \A i \in samples' : i \in samples /\ i \notin erased
    BY <1>5
  <2> HIDE DEF done, rest, erased
  <2>3. ASSUME NEW i \in samples', NEW p \in players \ done
        PROVE  player'[p].parent = i <=> player[p].parent = i
    BY <1>3, <1>11, <1>12, <1>13, <2>1, <2>2 DEF Orphans
  <2> QED BY <1>5, <2>3 DEF PlayersOf
<1>16. \A p \in players' \ Orphans' : p \in rest /\ player[p].parent \notin erased
  <2> HIDE DEF done, rest, erased
  <2> QED BY <1>3, <1>5, <1>12, <1>13 DEF Orphans
<1>17. ASSUME resets = 0 PROVE Orphans' = {}
  <2>1. \A p \in rest : player[p].parent # Freed
    BY <1>9 DEF IInv, TypeOK, SampleIds, Freed
  <2>2. players' = players \ done /\ Orphans = {}
    BY <1>5, <1>17 DEF IInv, ParentAlive
  <2> HIDE DEF done, rest, erased
  <2>3. ASSUME NEW p \in players \ done PROVE player'[p].parent # Freed
    <3>1. p \in rest
      BY <1>3, <2>2
    <3> QED BY <1>10, <1>11, <1>17, <2>1, <3>1
  <2> QED BY <2>2, <2>3 DEF Orphans
<1> HIDE DEF done, rest, erased, aimed
<1>18. TypeOK'
  <2>1. sample' \in [SampleIds -> SampleRec]
    <3>1. ASSUME NEW i \in samples
          PROVE  [sample[i] EXCEPT !.ref_count = RefsAfter(i, aim),
                                   !.erase_when_done = @ \/ i \in said] \in SampleRec
      <4> DEFINE e == sample[i].erase_when_done \/ i \in said
      <4>1. sample[i] \in SampleRec /\ e \in BOOLEAN
        BY DEF IInv, TypeOK, SampleRec
      <4>2. RefsAfter(i, aim) \in Int
        BY <1>7
      <4> HIDE DEF e
      <4>3. [sample[i] EXCEPT !.ref_count = RefsAfter(i, aim), !.erase_when_done = e]
              \in SampleRec
        BY <4>1, <4>2 DEF SampleRec
      <4> QED BY <4>3 DEF e
    <3> QED BY <1>5, <3>1, Placeholders DEF IInv, TypeOK
  <2>2. \A p \in Handles : player'[p] \in PlayerRec
    BY <1>3, <1>5, <1>11, <1>12, Placeholders DEF IInv, TypeOK
  <2>3. player' \in [Handles -> PlayerRec]
    BY <1>5, <2>2
  <2>4. playing_samples' \in Int
    <3>1. Cardinality(done) \in Nat
      BY <1>3, FinitePlayers DEF IInv
    <3>2. playing_samples' = playing_samples - Cardinality(done)
      BY <1>5, Zenon
    <3> QED BY <3>1, <3>2 DEF IInv, TypeOK
  <2> QED BY <1>5, <1>6, <2>1, <2>3, <2>4 DEF IInv, TypeOK
<1>19. RefCountExact'
  BY <1>6, <1>8, <1>14, <1>15 DEF RefCountExact
<1>20. PlayingExact'
  <2>1. IsFiniteSet(players) /\ players \cap done = done
    BY <1>3, FinitePlayers DEF IInv
  <2>2. Cardinality(players \ done) = Cardinality(players) - Cardinality(done)
    BY <2>1, FS_Difference
  <2> QED BY <1>5, <2>2 DEF IInv, PlayingExact
<1>21. ParentAlive'
  <2>1. ASSUME NEW p \in players' \ Orphans'
        PROVE  player'[p].parent \in samples' /\ player'[p].source_id = player'[p].parent
    <3>1. p \in rest /\ player[p].parent \notin erased /\ p \in players \ Orphans
      BY <1>3, <1>16
    <3>2. player'[p].parent = player[p].parent /\ player'[p].source_id = player[p].source_id
      BY <1>11, <3>1
    <3>3. player[p].parent \in samples' /\ player[p].source_id = player[p].parent
      BY <1>5, <3>1 DEF IInv, ParentAlive
    <3> QED BY <3>2, <3>3
  <2> QED BY <1>6, <1>17, <2>1 DEF ParentAlive
<1>22. DeferredHasPlayer'
  <2> SUFFICES ASSUME resets' = 0, NEW i \in samples', sample'[i].erase_when_done,
                      PlayersOf(i)' = {}
               PROVE  FALSE
    BY DEF DeferredHasPlayer
  <2>1. resets = 0 /\ said = {}
    BY <1>6, <1>8
  <2>2. i \in samples /\ sample[i].erase_when_done /\ PlayersOf(i) \ done = {}
    BY <1>14, <1>15, <2>1
  <2>3. PlayersOf(i) # {} /\ PlayersOf(i) \in SUBSET players
    BY <2>1, <2>2 DEF IInv, DeferredHasPlayer, PlayersOf
  <2>4. sample[i].ref_count \in Nat \ {0}
    BY <2>1, <2>2, <2>3, FinitePlayers DEF IInv, RefCountExact
  <2>5. RefsAfter(i, aim) = 0
    BY <1>8, <2>1, <2>2
  <2>6. i \in erased
    BY <2>2, <2>4, <2>5 DEF erased, LastPlayerErases
  <2> QED BY <1>5, <2>6
<1>23. CursorsInBounds'
  <2>1. ASSUME NEW p \in players' \ Orphans'
        PROVE  /\ player'[p].last_pos \in 0..sample'[player'[p].parent].len
               /\ player'[p].actual_length \in 0..BufLen
    <3>1. p \in rest /\ player[p].parent \in samples'
      BY <1>5, <1>9, <1>16
    <3> QED BY <1>11, <1>14, <1>16, <3>1
  <2> QED BY <2>1 DEF CursorsInBounds
<1> QED BY <1>18, <1>19, <1>20, <1>21, <1>22, <1>23 DEF IInv

\* IInv is inductive.
LEMMA NextIInv == IInv /\ [Next]_vars => IInv'
<1> SUFFICES ASSUME IInv, [Next]_vars PROVE IInv'
  OBVIOUS
<1>1. ASSUME NEW c \in Clients, NEW len \in Lengths, NEW func \in Funcs,
             SampleCache(c, len, func)
      PROVE  IInv'
  BY <1>1, SampleCacheIInv
<1>2. ASSUME NEW c \in Clients,
             \/ SampleCacheNoMem(c) \/ ReadComplete(c) \/ ReadFailed(c)
             \/ ReadInterrupted(c) \/ CacheResume(c)
      PROVE  IInv'
  BY <1>2, UploadIInv
<1>3. ASSUME NEW i \in SampleIds, SampleFree(i) PROVE IInv'
  BY <1>3, SampleFreeIInv
<1>4. ASSUME NEW i \in SampleIds, NEW loop \in BOOLEAN, SamplePlay(i, loop)
      PROVE  IInv'
  <2>1. UNCHANGED <<samples, next_sample_id, cstate, server, resets>>
    BY <1>4 DEF SamplePlay
  <2>2. CASE UNCHANGED <<players, player, playing_samples, sample>>
    <3>1. TypeOK'
      BY <2>1, <2>2 DEF IInv, TypeOK
    <3> QED BY <2>1, <2>2, <3>1, FrameIInv
  <2>3. CASE /\ i \in samples
             /\ \E h \in Handles : IsNextHandle(h) /\ NewSamplePlayer(h, i, loop)
    BY <2>1, <2>3, NewPlayerIInv
  <2> QED BY <1>4, <2>2, <2>3 DEF SamplePlay
<1>5. ASSUME NEW i \in SampleIds, SampleStop(i) PROVE IInv'
  BY <1>5, SampleStopIInv
<1>6. CASE Mix
  BY <1>6, MixIInv
<1>7. CASE MixCrash
  <2>1. TypeOK'
    BY <1>7 DEF IInv, TypeOK, MixCrash
  <2> QED BY <1>7, <2>1, FrameIInv DEF MixCrash
<1>8. CASE Reset
  BY <1>8, ResetIInv
<1>9. CASE UNCHANGED vars
  <2>1. TypeOK'
    BY <1>9 DEF IInv, TypeOK, vars
  <2> QED BY <1>9, <2>1, FrameIInv DEF vars
<1> QED BY <1>1, <1>2, <1>3, <1>4, <1>5, <1>6, <1>7, <1>8, <1>9 DEF Next

\* The conjunction of all invariants of the sample cache.
THEOREM AlwaysIInv == Spec => []IInv
  BY InitIInv, NextIInv, PTL DEF Spec

\* Every variable keeps its type, and an id on the samples list has been handed
\* out by new_sample().
THEOREM TypeCorrect == Spec => []TypeOK
<1>1. IInv => TypeOK
  BY DEF IInv
<1> QED BY <1>1, AlwaysIInv, PTL

\* Until a SIGHUP frees samples, ref_count of a cached sample is the number of
\* players that read from it.
THEOREM RefCountsAreExact == Spec => []RefCountExact
<1>1. IInv => RefCountExact
  BY DEF IInv
<1> QED BY <1>1, AlwaysIInv, PTL

\* esd_playing_samples is the number of sample players, across SIGHUP too.
THEOREM PlayingIsExact == Spec => []PlayingExact
<1>1. IInv => PlayingExact
  BY DEF IInv
<1> QED BY <1>1, AlwaysIInv, PTL

\* Without SIGHUP no player outlives its sample: erase_sample() frees a sample
\* only when its last player is gone.
THEOREM ParentsStayAlive == Spec => []ParentAlive
<1>1. IInv => ParentAlive
  BY DEF IInv
<1> QED BY <1>1, AlwaysIInv, PTL

\* Until a SIGHUP frees samples, one flagged erase_when_done has a player whose
\* end will erase it.
THEOREM DeferredErasureHappens == Spec => []DeferredHasPlayer
<1>1. IInv => DeferredHasPlayer
  BY DEF IInv
<1> QED BY <1>1, AlwaysIInv, PTL

\* read_player() never copies outside the sample or the player's buffer.
THEOREM CursorsStayInBounds == Spec => []CursorsInBounds
<1>1. IInv => CursorsInBounds
  BY DEF IInv
<1> QED BY <1>1, AlwaysIInv, PTL
============================================================================
