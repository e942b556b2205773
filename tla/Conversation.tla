---------------------------- MODULE Conversation ----------------------------
(***************************************************************************)
(* One connection: an application that makes calls of the client library   *)
(* one after the other, and poll_client_requests() of the daemon.  Either  *)
(* side reads what has arrived, which may be less than a field; the client *)
(* library gives up after a time-out, the daemon's answer comes when the   *)
(* daemon gets to it.  A piece is tagged with the call it belongs to: the  *)
(* tags are what the properties are about, the code does not see them.     *)
(***************************************************************************)
EXTENDS Protocol, FiniteSets

CONSTANTS Used,      \* library calls the application makes
          Mistaken,  \* what a request word that is none may be taken for
          MaxCalls,  \* bound on the calls on a connection
          MaxGarbled \* bound on the faults other than late answers

ASSUME ConversationAssumption ==
    /\ Used \subseteq DOMAIN Steps \ {"esd_send_auth"}
    /\ Mistaken \subseteq DOMAIN handler \cup {"INVALID"} /\ Mistaken # {}
    /\ MaxCalls \in Nat \ {0} /\ MaxGarbled \in Nat

VARIABLES
    calls,    \* the calls made so far, the last one being made
    step,     \* step of the last call; 0 when it has returned
    last,     \* the last word read by it, and the last positive id
    results,  \* call -> what it returned
    open,     \* the application has the socket
    sent,     \* pieces on the way to the daemon
    back,     \* pieces on the way to the client
    sv,       \* the daemon's client: state, request, proto_data_length, pieces
    fault     \* history: what has gone wrong

vars == <<calls, step, last, results, open, sent, back, sv, fault>>

Faults == {"late", "torn", "split", "keyless", "killed"}
Fail == [call |-> 0, word |-> 0, val |-> -1]

\* esd_open_sound() has a socket and calls esd_send_auth(); the daemon's client
\* waits for the data of ESD_PROTO_CONNECT.
Init ==
    /\ calls = <<"esd_send_auth">>
    /\ step = 1
    /\ last = Fail
    /\ results = <<>>
    /\ open = TRUE
    /\ sent = <<>> /\ back = <<>>
    /\ sv = [state |-> "NEEDS_REQDATA", request |-> "CONNECT", length |-> 0, got |-> <<>>]
    /\ fault = {}

Now == Len(calls)
Socket == [call |-> Now, word |-> 0, val |-> 1]
api == calls[Now]
Step == Steps[api][step]

\* A fault that may move the daemon out of step with the client.
Suffers(f) ==
    /\ Cardinality(fault \ {"late"}) < MaxGarbled
    /\ fault' = fault \cup {f}

\* A read of k pieces of a word; part of one may be all there is.
Splits(k, size, wire) ==
    IF k = size THEN UNCHANGED fault
    ELSE IF k = Len(wire) THEN fault' = fault \cup {"split"}
    ELSE Suffers("split")

\* Pieces of call n from position i on.
Pieces(n, i, k) == [j \in 1..k |-> [call |-> n, pos |-> i + j - 1]]

\* The pieces that call a writes before step s, and where the step's field starts
\* in the message of the call.
Written(a, s) ==
    LET fields == {i \in 1..(s - 1) : Steps[a][i].op = "write"}
    IN  Cardinality(UNION {{i} \X (1..Steps[a][i].size) : i \in fields})
Start == 1 + Written(api, step)

----------------------------------------------------------------------------
(* Client library.                                                         *)

\* The call returns r.  esd_open_sound() closes the socket unless the result of
\* esd_send_auth() is true, and true is what -1 is.
Returned(r, answer) ==
    /\ step' = 0
    /\ results' = Append(results, r)
    /\ open' = (open /\ (api = "esd_send_auth" => answer # 0))

\* The call goes on with step s, and returns when there is none.
GoOn(s, read) ==
    /\ last' = read
    /\ IF s \in DOMAIN Steps[api]
       THEN step' = s /\ UNCHANGED <<results, open>>
       ELSE Returned(read, read.val)

\* Mutant: the result is not looked at.
FailedIgnored ==
    /\ last' = Fail
    /\ step' = step + 1
    /\ UNCHANGED <<results, open>>

\* After a failure; esd_send_auth() returns 0, the others -1.
Failed ==
    /\ last' = Fail
    /\ IF Step.fail = 0 THEN Returned(Fail, 0)
       ELSE step' = Step.fail /\ UNCHANGED <<results, open>>

\* The next call.  After esd_sample_cache() comes the data, and nothing comes
\* after a stream was asked for, which has a connection of its own.
Call(a) ==
    /\ step = 0 /\ open
    /\ Now < MaxCalls
    /\ (a = "esd_confirm_sample_cache") <=> (api = "esd_sample_cache" /\ results[Now] # Fail)
    /\ a \in Streaming => Now = 1
    /\ api \notin Streaming
    /\ calls' = Append(calls, a)
    /\ step' = 1 /\ last' = Fail
    /\ UNCHANGED <<results, open, sent, back, sv, fault>>

\* esd_close().
Close ==
    /\ step = 0 /\ open
    /\ open' = FALSE
    /\ UNCHANGED <<calls, step, last, results, sent, back, sv, fault>>

Writing == step # 0 /\ Step.op = "write"
Reading == step # 0 /\ Step.op = "read"

\* write_timeout(), or write(): the whole field.
Write ==
    /\ Writing
    /\ sv.state # "NONE"
    /\ sent' = sent \o Pieces(Now, Start, Step.size)
    /\ GoOn(step + 1, IF step = Len(Steps[api]) THEN Socket ELSE last)
    /\ UNCHANGED <<calls, back, sv, fault>>

\* Nothing of the call has been sent: it fails as if it had not been made.  (The
\* data that esd_confirm_sample_cache() waits for belong to the call before.)
Unsent(k) == k = 0 /\ step = 1 /\ Step.fail = 0 /\ api # "esd_confirm_sample_cache"

\* Some of it is written, the rest cannot be in time.
WriteTimeout ==
    /\ Writing /\ ~ Step.wait
    /\ sv.state # "NONE"
    /\ \E k \in 0..(Step.size - 1) :
         /\ sent' = sent \o Pieces(Now, Start, k)
         /\ IF Unsent(k) THEN UNCHANGED fault ELSE Suffers("torn")
    /\ Failed
    /\ UNCHANGED <<calls, back, sv>>

\* SIGPIPE ends the application in the middle of the call.
Killed ==
    /\ fault' = fault \cup {"killed"}
    /\ open' = FALSE
    /\ UNCHANGED <<step, last, results>>

\* The daemon has closed the connection.  esdlib.c has a handler for SIGPIPE when
\* it writes, esdmgr.c has none: the application ends unless it ignores the signal.
WriteClosed ==
    /\ Writing /\ "killed" \notin fault
    /\ sv.state = "NONE"
    /\ \/ Failed /\ UNCHANGED fault
       \/ Step.wait /\ Killed
    /\ UNCHANGED <<calls, sent, back, sv>>

\* esd_send_auth() has no HOME, which is -1, or no authorization file, which is
\* 0; esd_lock() and the like do not care.
NoKey ==
    /\ \/ api = "esd_send_auth" /\ step = 1
       \/ api \in Keyed /\ step = 2
    /\ Suffers("keyless")
    /\ IF api \in Keyed THEN step' = Step.fail /\ UNCHANGED <<results, open>>
       ELSE \E answer \in {-1, 0} : Returned(Fail, answer)
    /\ UNCHANGED <<calls, last, sent, back, sv>>

\* A word, as far as the k pieces that were read make one.
Word(k) ==
    IF \A i \in 1..k : back[i] = [back[1] EXCEPT !.pos = i]
    THEN [call |-> back[1].call, word |-> back[1].word, val |-> back[1].val]
    ELSE [call |-> 0, word |-> 0, val |-> 1]

\* The step after a word was read.
AfterRead(w) == IF Step.more # 0 /\ last.val > 0 THEN Step.more ELSE step + 1

\* read_timeout(), or read(): one read, of what is there.
Read ==
    /\ Reading
    /\ back # <<>>
    /\ \E k \in 1..Step.size :
         /\ k <= Len(back)
         /\ back' = SubSeq(back, k + 1, Len(back))
         /\ IF k = Step.size THEN GoOn(AfterRead(Word(k)), Word(k)) ELSE Failed
         /\ Splits(k, Step.size, back)
    /\ UNCHANGED <<calls, sent, sv>>

\* Nothing has come within the time.
ReadTimeout ==
    /\ Reading /\ ~ Step.wait
    /\ back = <<>> /\ sv.state # "NONE"
    /\ Failed
    /\ fault' = fault \cup {"late"}
    /\ UNCHANGED <<calls, sent, back, sv>>

\* End of file.
ReadEnd ==
    /\ Reading
    /\ back = <<>> /\ sv.state = "NONE"
    /\ Failed
    /\ UNCHANGED <<calls, sent, back, sv, fault>>

----------------------------------------------------------------------------
(* poll_client_requests().                                                 *)

\* The call whose message is all that was read, 0 when there is no such call.
Owner(got) ==
    IF got # <<>> /\ got = Pieces(got[1].call, 1, Len(got)) THEN got[1].call ELSE 0

\* What is on the wire for the words of a reply to call n, the first of them
\* being the i-th.
Reply(n, i, words) ==
    [p \in 1..(IntSize * Len(words)) |->
       LET w == (p - 1) \div IntSize
       IN  [call |-> n, word |-> i + w, val |-> words[w + 1], pos |-> 1 + ((p - 1) % IntSize)]]

\* erase_client() closes the socket; what was sent is lost.
Erase ==
    /\ sv' = [state |-> "NONE", request |-> sv.request, length |-> 0, got |-> <<>>]
    /\ sent' = <<>>

\* The handler of request r, with the pieces got.
Handle(r, got) ==
    \E out \in handler[r] :
      /\ back' = back \o Reply(Owner(got), 1, out.words)
      /\ IF out.state = "NONE" THEN Erase
         ELSE /\ sv' = [state |-> out.state, request |-> r, got |-> <<>>,
                        length |-> IF out.state = "CACHING_SAMPLE" THEN 0
                                   ELSE data_length[r]]
              /\ sent' = SubSeq(sent, 1 + Len(got) - Len(sv.got), Len(sent))

\* Mutant: proto_data_length is not reset.
NeedsDataKept(r, got) ==
    /\ sv' = [state |-> "NEEDS_REQDATA", request |-> r, length |-> sv.length, got |-> got]
    /\ sent' = SubSeq(sent, 1 + Len(got), Len(sent))

\* The request needs data.
NeedsData(r, got) ==
    /\ sv' = [state |-> "NEEDS_REQDATA", request |-> r, length |-> 0, got |-> got]
    /\ sent' = SubSeq(sent, 1 + Len(got), Len(sent))

\* A request word was read, k pieces of it.  Whole, it is the call's request if
\* its pieces are one; otherwise the daemon sees some other number.
PollRequest ==
    /\ sv.state = "NEXT_REQUEST"
    /\ \E k \in 1..IntSize :
         /\ k <= Len(sent)
         /\ Splits(k, IntSize, sent)
         /\ LET got == SubSeq(sent, 1, k)
                n == Owner(got)
                whole == n # 0 /\ k = IntSize /\ calls[n] \in DOMAIN Requests
            IN  \E r \in (IF whole THEN {Requests[calls[n]]} ELSE Mistaken) :
                  IF r \in {"CONNECT", "INVALID"} THEN Erase /\ UNCHANGED back
                  ELSE IF data_length[r] = 0 THEN Handle(r, got)
                  ELSE NeedsData(r, got) /\ UNCHANGED back
    /\ UNCHANGED <<calls, step, last, results, open>>

Least(a, b) == IF a < b THEN a ELSE b
Insane == sv.length > data_length[sv.request]

\* Data of the request was read.
PollData ==
    /\ sv.state = "NEEDS_REQDATA"
    /\ sent # <<>>
    /\ IF Insane THEN Erase /\ UNCHANGED back
       ELSE LET k == Least(data_length[sv.request] - sv.length, Len(sent))
                got == sv.got \o SubSeq(sent, 1, k)
            IN  IF sv.length + k = data_length[sv.request] THEN Handle(sv.request, got)
                ELSE /\ sv' = [sv EXCEPT !.length = @ + k, !.got = got]
                     /\ sent' = SubSeq(sent, k + 1, Len(sent))
                     /\ UNCHANGED back
    /\ UNCHANGED <<calls, step, last, results, open, fault>>

\* read_sample(), then the second reply of esd_proto_sample_cache().
PollSample ==
    /\ sv.state = "CACHING_SAMPLE"
    /\ sent # <<>>
    /\ LET k == Least(DataSize - sv.length, Len(sent))
       IN  /\ sent' = SubSeq(sent, k + 1, Len(sent))
           /\ IF sv.length + k < DataSize
              THEN sv' = [sv EXCEPT !.length = @ + k] /\ UNCHANGED back
              ELSE /\ sv' = [sv EXCEPT !.state = "NEXT_REQUEST"]
                   /\ back' = back \o Reply(sent[1].call, 1, <<1>>)
    /\ UNCHANGED <<calls, step, last, results, open, fault>>

\* End of file: a client that is gone.
PollEnd ==
    /\ sv.state \notin {"NONE", "STREAMING_DATA"}
    /\ ~ open /\ sent = <<>>
    /\ Erase
    /\ UNCHANGED <<calls, step, last, results, open, back, fault>>

----------------------------------------------------------------------------
Client == Write \/ WriteTimeout \/ WriteClosed \/ NoKey \/ Read \/ ReadTimeout \/ ReadEnd
Server == PollRequest \/ PollData \/ PollSample \/ PollEnd
Next == (\E a \in Used : Call(a)) \/ Close \/ Client \/ Server

\* A library call runs until it returns.  The daemon owes nothing: another client
\* may hold up its only thread for ever.
Fairness == WF_vars(Client)

Spec == Init /\ [][Next]_vars /\ Fairness

----------------------------------------------------------------------------
(* Properties.                                                             *)

\* Every variable has its type; there is a result for every call but the one
\* being made.
TypeOK ==
    /\ calls \in Seq(DOMAIN Steps) /\ Now \in 1..MaxCalls
    /\ step \in 0..Len(Steps[api])
    /\ Len(results) = IF step = 0 THEN Now ELSE Now - 1
    /\ \A n \in DOMAIN results : results[n].call \in 0..n /\ results[n].val \in {-1, 0, 1}
    /\ last.call \in 0..Now /\ last.val \in {-1, 0, 1}
    /\ open \in BOOLEAN
    /\ sv.state \in {"NONE", "NEEDS_REQDATA", "NEXT_REQUEST", "CACHING_SAMPLE",
                     "STREAMING_DATA"}
    /\ sv.request \in DOMAIN handler /\ sv.length \in Int
    /\ \A i \in DOMAIN sent : sent[i].call \in 1..Now
    /\ \A i \in DOMAIN back : back[i].call \in 0..Now
    /\ fault \subseteq Faults

\* Something that moves the daemon out of step with the client: a field cut off
\* by a time-out, a request word read in parts, a key that was not sent, or an
\* upload that was given up because the id came late.
Garbled ==
    \/ fault \cap {"torn", "split", "keyless"} # {}
    \/ \E n \in DOMAIN results : /\ calls[n] = "esd_sample_cache" /\ results[n] = Fail
                                 /\ "late" \in fault

\* What the daemon has read of a request is the beginning of one call's message,
\* also after answers that came too late: a request is never put together from
\* two calls, and its parameters are never taken for a request.
Aligned == ~ Garbled /\ sv.got # <<>> => Owner(sv.got) # 0

\* A call returns the answer to its own request and reads all of it: both sides
\* agree how many words a request is answered with, refusals included.  After a
\* time-out it is at worst the answer to an earlier call, never something that is
\* no answer.
Matched ==
    /\ fault = {} =>
         /\ \A n \in DOMAIN results : results[n] # Fail => results[n].call = n
         /\ step = 0 => back = <<>>
    /\ ~ Garbled =>
         \A n \in DOMAIN results : results[n] # Fail => results[n].call \in 1..n

\* Whatever the daemon does, a call with time-outs returns.  If the daemon's loop
\* comes round to the client, the calls of esdmgr.c, which wait as long as it
\* takes, return too, or end the application on a connection that the daemon has
\* closed; they only hang once something has gone wrong on the connection.
CallReturns ==
    /\ step # 0 ~> step = 0 \/ Step.wait
    /\ WF_vars(Server) =>
         (step # 0 ~> step = 0 \/ "killed" \in fault \/ (Step.wait /\ fault # {}))
============================================================================
