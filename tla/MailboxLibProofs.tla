-------------------------- MODULE MailboxLibProofs --------------------------
(***************************************************************************)
(* Who gets a message, and in which order messages lie in the mailbox,     *)
(* for every number of processes, channels, sizes and places.              *)
(***************************************************************************)
EXTENDS MailboxLib, TLAPS

Part == {"request", "payload"}
Place == [id : Nat, channel : Channels, size : Nat, from : Procs, part : Part]
Call == [at : {"out", "payload", "polled", "second"}, id : Nat, channel : Channels, size : Nat]

Types ==
  /\ queue \in Seq(Place) /\ sent \in Nat
  /\ proc \in [Procs -> Call]
  /\ told \subseteq [to : Procs, id : Nat, size : Nat]

\* Numbers grow along the queue and none has been given out yet that is to come.
Numbered ==
  /\ \A i, j \in 1..Len(queue) : i < j => queue[i].id < queue[j].id
  /\ \A i \in 1..Len(queue) : queue[i].id <= sent
  /\ \A t \in told : t.id <= sent

Answered(p, i, j) == \E k \in (i + 1)..j : queue[k].part = "request" /\ queue[k].from = p

\* Between two messages of one process of which the first is a payload lies a request of
\* its own; and one that is about to write a payload has written its request after the
\* last payload.
Paired ==
  \A i \in 1..Len(queue) :
    queue[i].from \notin refused /\ queue[i].part = "payload" =>
      /\ \A j \in 1..Len(queue) :
           i < j /\ queue[j].from = queue[i].from => Answered(queue[i].from, i, j)
      /\ proc[queue[i].from].at = "payload" => Answered(queue[i].from, i, Len(queue))

Inv == Types /\ Numbered /\ ReportedIsGone /\ Paired

-----------------------------------------------------------------------------
\* A part of the queue that begins later is numbered and paired as the whole was.
LEMMA Shorter ==
  ASSUME Inv, NEW n \in 0..Len(queue), queue' = SubSeq(queue, n + 1, Len(queue)),
         refused' = refused, sent' = sent,
         \A p \in Procs : proc'[p].at = "payload" => proc[p].at = "payload"
  PROVE  /\ queue' \in Seq(Place) /\ Len(queue') = Len(queue) - n
         /\ \A i \in 1..Len(queue') : queue'[i] = queue[i + n]
         /\ \A i, j \in 1..Len(queue') : i < j => queue'[i].id < queue'[j].id
         /\ \A i \in 1..Len(queue') : queue'[i].id <= sent
         /\ Paired'
<1>1. queue \in Seq(Place) /\ Len(queue) \in Nat
  BY DEF Inv, Types
<1>2. queue' \in Seq(Place) /\ Len(queue') = Len(queue) - n
  BY <1>1
<1>3. \A i \in 1..Len(queue') : queue'[i] = queue[i + n] /\ i + n \in 1..Len(queue)
  BY <1>1, <1>2
<1>4. \A i, j \in 1..Len(queue') : i < j => queue'[i].id < queue'[j].id
  <2> SUFFICES ASSUME NEW i \in 1..Len(queue'), NEW j \in 1..Len(queue'), i < j
               PROVE  queue[i + n].id < queue[j + n].id
    BY <1>3
  <2>1. i + n < j + n /\ i + n \in 1..Len(queue) /\ j + n \in 1..Len(queue)
    BY <1>1, <1>2
  <2> QED BY <2>1 DEF Inv, Numbered
<1>5. \A i \in 1..Len(queue') : queue'[i].id <= sent
  BY <1>3 DEF Inv, Numbered
<1>6. Paired'
  <2>1. ASSUME NEW i \in 1..Len(queue'), NEW j \in 1..Len(queue'), NEW p,
               Answered(p, i + n, j + n)
        PROVE  Answered(p, i, j)'
    <3>1. PICK k \in (i + n + 1)..(j + n) : queue[k].part = "request" /\ queue[k].from = p
      BY <2>1 DEF Answered
    <3>2. k - n \in (i + 1)..j /\ k - n \in 1..Len(queue') /\ (k - n) + n = k
      BY <3>1, <1>1, <1>2
    <3>3. queue'[k - n] = queue[k]
      BY <3>2, <1>3
    <3> QED BY <3>1, <3>2, <3>3 DEF Answered
  <2> SUFFICES ASSUME NEW i \in 1..Len(queue'),
                      queue'[i].from \notin refused', queue'[i].part = "payload"
               PROVE  /\ \A j \in 1..Len(queue') :
                           i < j /\ queue'[j].from = queue'[i].from
                             => Answered(queue[i].from, i, j)'
                      /\ proc'[queue'[i].from].at = "payload"
                           => Answered(queue[i].from, i, Len(queue))'
    BY DEF Paired
  <2>2. /\ i + n \in 1..Len(queue) /\ queue'[i] = queue[i + n]
        /\ queue[i + n].from \notin refused /\ queue[i + n].part = "payload"
    BY <1>3
  <2>3. ASSUME NEW j \in 1..Len(queue'), i < j, queue'[j].from = queue'[i].from
        PROVE  Answered(queue[i].from, i, j)'
    <3>1. j + n \in 1..Len(queue) /\ i + n < j + n /\ queue[j + n].from = queue[i + n].from
      BY <2>2, <2>3, <1>1, <1>2, <1>3
    <3>2. Answered(queue[i + n].from, i + n, j + n)
      BY <3>1, <2>2 DEF Inv, Paired
    <3> QED BY <3>2, <2>1, <2>2
  <2>4. ASSUME proc'[queue'[i].from].at = "payload"
        PROVE  Answered(queue[i].from, i, Len(queue))'
    <3>1. queue[i + n].from \in Procs
      <4>1. queue[i + n] \in Place
        BY <2>2, <1>1
      <4> QED BY <4>1 DEF Place
    <3>2. proc[queue[i + n].from].at = "payload"
      BY <2>4, <2>2, <3>1
    <3>3. Answered(queue[i + n].from, i + n, Len(queue))
      BY <3>2, <2>2 DEF Inv, Paired
    <3>4. Len(queue') \in 1..Len(queue') /\ Len(queue') + n = Len(queue)
      BY <1>1, <1>2
    <3> QED BY <3>3, <3>4, <2>1, <2>2
  <2> QED BY <2>3, <2>4
<1> QED BY <1>2, <1>3, <1>4, <1>5, <1>6

\* One more message keeps the numbers growing, and the pairs when it is a request, or a
\* payload of one who has written the request to it.
LEMMA Longer ==
  ASSUME Inv, NEW m \in Place, queue' = Append(queue, m), m.id = sent + 1, sent' = sent + 1,
         told' = told, refused' = refused,
         m.part = "payload" => proc[m.from].at = "payload" /\ proc'[m.from].at # "payload",
         \A p \in Procs : p # m.from => proc'[p] = proc[p]
  PROVE  queue' \in Seq(Place) /\ Numbered' /\ ReportedIsGone' /\ Paired'
<1>1. queue \in Seq(Place) /\ Len(queue) \in Nat /\ sent \in Nat
  BY DEF Inv, Types
<1>2. queue' \in Seq(Place) /\ Len(queue') = Len(queue) + 1
  BY <1>1
<1>3. /\ \A i \in 1..Len(queue) : queue'[i] = queue[i] /\ i \in 1..Len(queue')
      /\ queue'[Len(queue) + 1] = m
  BY <1>1
<1>4. \A i \in 1..Len(queue') : i \in 1..Len(queue) \/ i = Len(queue) + 1
  BY <1>1, <1>2
<1>5. \A i \in 1..Len(queue) : queue[i].id \in Nat /\ queue[i].from \in Procs
  <2>1. \A i \in 1..Len(queue) : queue[i] \in Place
    BY <1>1
  <2> QED BY <2>1 DEF Place
<1>6. \A t \in told : t.id \in Nat
  BY DEF Inv, Types
<1>7. \A i \in 1..Len(queue) : queue[i].id <= sent
  BY DEF Inv, Numbered
<1>8. Numbered'
  <2>1. \A i, j \in 1..Len(queue') : i < j => queue'[i].id < queue'[j].id
    <3> SUFFICES ASSUME NEW i \in 1..Len(queue'), NEW j \in 1..Len(queue'), i < j
                 PROVE  queue'[i].id < queue'[j].id
      OBVIOUS
    <3>1. i \in 1..Len(queue)
      BY <1>1, <1>2
    <3>2. CASE j \in 1..Len(queue)
      BY <3>1, <3>2, <1>3 DEF Inv, Numbered
    <3>3. CASE j = Len(queue) + 1
      BY <3>1, <3>3, <1>1, <1>3, <1>5, <1>7
    <3> QED BY <3>2, <3>3, <1>4
  <2>2. \A i \in 1..Len(queue') : queue'[i].id <= sent'
    BY <1>1, <1>3, <1>4, <1>5, <1>7
  <2>3. \A t \in told' : t.id <= sent'
    BY <1>1, <1>6 DEF Inv, Numbered
  <2> QED BY <2>1, <2>2, <2>3 DEF Numbered
<1>9. ReportedIsGone'
  <2>1. \A t \in told : t.id <= sent
    BY DEF Inv, Numbered
  <2>2. \A t \in told : \A k \in 1..Len(queue') : queue'[k].id # t.id
    <3> SUFFICES ASSUME NEW t \in told, NEW k \in 1..Len(queue')
                 PROVE  queue'[k].id # t.id
      OBVIOUS
    <3>1. CASE k \in 1..Len(queue)
      BY <3>1, <1>1, <1>3 DEF Inv, ReportedIsGone
    <3>2. CASE k = Len(queue) + 1
      BY <3>2, <1>1, <1>3, <1>6, <2>1
    <3> QED BY <3>1, <3>2, <1>4
  <2>3. DOMAIN queue' = 1..Len(queue')
    BY <1>2
  <2> QED BY <2>2, <2>3 DEF Inv, ReportedIsGone
<1>10. Paired'
  <2>1. ASSUME NEW i \in 1..Len(queue), NEW j \in 1..Len(queue), NEW p, Answered(p, i, j)
        PROVE  Answered(p, i, j)' /\ Answered(p, i, Len(queue))'
    <3>1. PICK k \in (i + 1)..j : queue[k].part = "request" /\ queue[k].from = p
      BY <2>1 DEF Answered
    <3>2. k \in 1..Len(queue) /\ k \in (i + 1)..(Len(queue) + 1) /\ queue'[k] = queue[k]
      BY <3>1, <1>1, <1>3
    <3> QED BY <3>1, <3>2, <1>1, <1>2 DEF Answered
  <2> SUFFICES ASSUME NEW i \in 1..Len(queue'),
                      queue'[i].from \notin refused', queue'[i].part = "payload"
               PROVE  /\ \A j \in 1..Len(queue') :
                           i < j /\ queue'[j].from = queue'[i].from
                             => Answered(queue[i].from, i, j)'
                      /\ proc'[queue'[i].from].at = "payload"
                           => Answered(queue[i].from, i, Len(queue))'
    BY DEF Paired
  <2>2. CASE i = Len(queue) + 1
    BY <2>2, <1>1, <1>2, <1>3
  <2>3. CASE i \in 1..Len(queue)
    <3>1. /\ queue'[i] = queue[i] /\ queue[i].from \notin refused /\ queue[i].part = "payload"
          /\ Len(queue) \in 1..Len(queue)
      BY <2>3, <1>1, <1>3
    <3>2. ASSUME m.from = queue[i].from PROVE Answered(queue[i].from, i, Len(queue))'
      <4>1. CASE m.part = "request"
        <5>1. Len(queue) + 1 \in (i + 1)..(Len(queue) + 1)
          BY <2>3, <1>1
        <5> QED BY <5>1, <4>1, <3>1, <3>2, <1>2, <1>3 DEF Answered
      <4>2. CASE m.part = "payload"
        <5>1. Answered(queue[i].from, i, Len(queue))
          BY <4>2, <3>1, <3>2, <2>3 DEF Inv, Paired
        <5> QED BY <5>1, <3>1, <2>1, <2>3, <1>2
      <4> QED BY <4>1, <4>2 DEF Place, Part
    <3>3. ASSUME NEW j \in 1..Len(queue'), i < j, queue'[j].from = queue'[i].from
          PROVE  Answered(queue[i].from, i, j)'
      <4>1. CASE j \in 1..Len(queue)
        <5>1. Answered(queue[i].from, i, j)
          BY <4>1, <3>1, <3>3, <2>3, <1>3 DEF Inv, Paired
        <5> QED BY <5>1, <4>1, <3>1, <2>1, <2>3
      <4>2. CASE j = Len(queue) + 1
        BY <4>2, <3>1, <3>2, <3>3, <1>2, <1>3
      <4> QED BY <4>1, <4>2, <1>4
    <3>4. ASSUME proc'[queue'[i].from].at = "payload"
          PROVE  Answered(queue[i].from, i, Len(queue))'
      <4>1. CASE m.from = queue[i].from
        BY <4>1, <3>2
      <4>2. CASE m.from # queue[i].from
        <5>1. proc[queue[i].from].at = "payload"
          BY <4>2, <3>1, <3>4, <2>3, <1>5
        <5>2. Answered(queue[i].from, i, Len(queue))
          BY <5>1, <3>1, <2>3 DEF Inv, Paired
        <5> QED BY <5>2, <3>1, <2>1, <2>3, <1>2
      <4> QED BY <4>1, <4>2
    <3> QED BY <3>3, <3>4
  <2> QED BY <2>2, <2>3, <1>4
<1> QED BY <1>2, <1>8, <1>9, <1>10
\* What a write and a read do to the kernel's queue.
LEMMA EnqueueIs ==
  ASSUME NEW p, NEW channel, NEW size, NEW part, Enqueue(p, channel, size, part)
  PROVE  \/ queue' = queue /\ sent' = sent /\ refused' = refused \cup {p}
         \/ /\ queue' = Append(queue, [id |-> sent + 1, channel |-> channel, size |-> size,
                                       from |-> p, part |-> part])
            /\ sent' = sent + 1 /\ refused' = refused
  BY DEF Enqueue, Kernel!Put, Kernel!Others

LEMMA TakeIs ==
  ASSUME queue \in Seq(Place), NEW mask, Kernel!Take(mask)
  PROVE  \E k \in 1..Len(queue) :
           got' = queue[k] /\ queue' = SubSeq(queue, k + 1, Len(queue))
  BY DEF Kernel!Take

-----------------------------------------------------------------------------
\* A write by p, which meets a full mailbox or not.
LEMMA EnqueueKeeps ==
  ASSUME Inv, NEW p \in Procs, NEW channel \in Channels, NEW size \in Nat, NEW part \in Part,
         Enqueue(p, channel, size, part), told' = told, proc' \in [Procs -> Call],
         part = "payload" => proc[p].at = "payload" /\ proc'[p].at # "payload",
         \A q \in Procs : q # p => proc'[q] = proc[q]
  PROVE  Inv'
<1>1. queue \in Seq(Place) /\ sent \in Nat
  BY DEF Inv, Types
<1>2. CASE queue' = queue /\ sent' = sent /\ refused' = refused \cup {p}
  <2>1. refused' = refused \cup {p} /\ queue' = queue /\ sent' = sent
    BY <1>2
  <2>2. Types' /\ Numbered' /\ ReportedIsGone'
    BY <2>1 DEF Inv, Types, Numbered, ReportedIsGone
  <2>3. Paired'
    <3> SUFFICES ASSUME NEW i \in 1..Len(queue),
                        queue[i].from \notin refused', queue[i].part = "payload"
                 PROVE  /\ \A j \in 1..Len(queue) :
                             i < j /\ queue[j].from = queue[i].from
                               => Answered(queue[i].from, i, j)'
                        /\ proc'[queue[i].from].at = "payload"
                             => Answered(queue[i].from, i, Len(queue))'
      BY <2>1 DEF Paired
    <3>1. queue[i] \in Place
      BY <1>1
    <3>2. queue[i].from \in Procs /\ queue[i].from # p /\ queue[i].from \notin refused
      BY <3>1, <2>1 DEF Place
    <3>3. proc'[queue[i].from] = proc[queue[i].from]
      BY <3>2
    <3> QED BY <2>1, <3>2, <3>3 DEF Inv, Paired, Answered
  <2> QED BY <2>2, <2>3 DEF Inv
<1>3. CASE /\ queue' = Append(queue, [id |-> sent + 1, channel |-> channel, size |-> size,
                                      from |-> p, part |-> part])
           /\ sent' = sent + 1 /\ refused' = refused
  <2> DEFINE m == [id |-> sent + 1, channel |-> channel, size |-> size, from |-> p, part |-> part]
  <2>1. queue' = Append(queue, m) /\ sent' = sent + 1 /\ refused' = refused
    BY <1>3
  <2>2. m \in Place /\ m.id = sent + 1 /\ m.from = p /\ m.part = part
    BY <1>1 DEF Place
  <2> HIDE DEF m
  <2>3. queue' \in Seq(Place) /\ Numbered' /\ ReportedIsGone' /\ Paired'
    BY <2>1, <2>2, Longer
  <2>4. Types'
    BY <1>1, <2>1, <2>3 DEF Inv, Types
  <2> QED BY <2>3, <2>4 DEF Inv
<1> QED BY <1>2, <1>3, EnqueueIs

\* A read that takes the message at k, and may report it.
LEMMA DequeueKeeps ==
  ASSUME Inv, NEW p \in Procs, NEW k \in 1..Len(queue),
         queue' = SubSeq(queue, k + 1, Len(queue)),
         refused' = refused, sent' = sent, proc' \in [Procs -> Call],
         \A q \in Procs : proc'[q].at = "payload" => proc[q].at = "payload",
         \/ told' = told
         \/ /\ queue[k].size >= RecvReq
            /\ told' = told \cup {[to |-> p, id |-> queue[k].id, size |-> queue[k].size]}
  PROVE  Inv'
<1>1. queue \in Seq(Place) /\ Len(queue) \in Nat /\ sent \in Nat
  BY DEF Inv, Types
<1>2. queue' = SubSeq(queue, k + 1, Len(queue)) /\ k \in 0..Len(queue)
  BY <1>1
<1>3. /\ queue' \in Seq(Place) /\ Len(queue') = Len(queue) - k
      /\ \A i \in 1..Len(queue') : queue'[i] = queue[i + k]
      /\ \A i, j \in 1..Len(queue') : i < j => queue'[i].id < queue'[j].id
      /\ \A i \in 1..Len(queue') : queue'[i].id <= sent
      /\ Paired'
  BY <1>2, Shorter
<1>4. queue[k] \in Place
  BY <1>1
<1>5. \A i \in 1..Len(queue') : i + k \in 1..Len(queue) /\ k < i + k
  BY <1>1, <1>3
<1>6. queue[k].id \in Nat /\ queue[k].size \in Nat /\ queue[k].id <= sent
  BY <1>4 DEF Place, Inv, Numbered
<1>7. \A i \in 1..Len(queue) : queue[i].id \in Nat
  <2>1. \A i \in 1..Len(queue) : queue[i] \in Place
    BY <1>1
  <2> QED BY <2>1 DEF Place
<1>8. \A i \in 1..Len(queue') : queue'[i].id # queue[k].id
  <2> SUFFICES ASSUME NEW i \in 1..Len(queue') PROVE queue[k].id < queue[i + k].id
    BY <1>3, <1>5, <1>6, <1>7, SMTT(30)
  <2> QED BY <1>5 DEF Inv, Numbered
<1>9. \A t \in told : \A i \in 1..Len(queue) : queue[i].id # t.id
  BY <1>1 DEF Inv, ReportedIsGone
<1>10. \A t \in told : \A i \in 1..Len(queue') : queue'[i].id # t.id
  BY <1>3, <1>5, <1>9
<1>11. DOMAIN queue' = 1..Len(queue')
  BY <1>3
<1>12. CASE told' = told
  <2>1. Types' /\ Numbered'
    BY <1>1, <1>3, <1>12 DEF Inv, Types, Numbered
  <2>2. ReportedIsGone'
    BY <1>10, <1>11, <1>12 DEF Inv, ReportedIsGone
  <2> QED BY <1>3, <2>1, <2>2 DEF Inv
<1>13. CASE /\ queue[k].size >= RecvReq
            /\ told' = told \cup {[to |-> p, id |-> queue[k].id, size |-> queue[k].size]}
  <2> DEFINE u == [to |-> p, id |-> queue[k].id, size |-> queue[k].size]
  <2>1. u \in [to : Procs, id : Nat, size : Nat] /\ u.id = queue[k].id /\ u.size = queue[k].size
    BY <1>6
  <2>2. told' = told \cup {u} /\ u.size >= RecvReq
    BY <1>13
  <2> HIDE DEF u
  <2>3. Types'
    BY <1>1, <1>3, <2>1, <2>2 DEF Inv, Types
  <2>4. Numbered'
    BY <1>1, <1>3, <1>6, <2>1, <2>2 DEF Inv, Numbered
  <2>5. ReportedIsGone'
    <3>1. \A t \in told' : \A i \in DOMAIN queue' : queue'[i].id # t.id
      BY <1>8, <1>10, <1>11, <2>1, <2>2
    <3>2. \A t \in told : t.id # u.id
      BY <1>9, <2>1
    <3>3. \A t \in told' : t.size >= RecvReq
      BY <2>2 DEF Inv, ReportedIsGone
    <3>4. \A t, v \in told' : v.id = t.id => v.to = t.to
      BY <2>2, <3>2 DEF Inv, ReportedIsGone
    <3> QED BY <3>1, <3>3, <3>4 DEF ReportedIsGone
  <2> QED BY <1>3, <2>3, <2>4, <2>5 DEF Inv
<1> QED BY <1>12, <1>13
\* A step that only moves one process on, and not to the payload of a send.
LEMMA MovingOnKeeps ==
  ASSUME Inv, queue' = queue, sent' = sent, refused' = refused, told' = told,
         proc' \in [Procs -> Call],
         \A q \in Procs : proc'[q].at = "payload" => proc[q].at = "payload"
  PROVE  Inv'
<1>1. Types' /\ Numbered' /\ ReportedIsGone'
  BY DEF Inv, Types, Numbered, ReportedIsGone
<1>2. \A i \in 1..Len(queue) : queue[i].from \in Procs
  <2>1. \A i \in 1..Len(queue) : queue[i] \in Place
    BY DEF Inv, Types
  <2> QED BY <2>1 DEF Place
<1>3. Paired'
  BY <1>2 DEF Inv, Paired, Answered
<1> QED BY <1>1, <1>3 DEF Inv

LEMMA ReturnedIsCall == Returned \in Call
BY LibAssumption DEF Returned, Call

LEMMA ReturnKeeps ==
  ASSUME proc \in [Procs -> Call], NEW p \in Procs, Return(p)
  PROVE  /\ proc' \in [Procs -> Call] /\ proc'[p].at = "out"
         /\ \A q \in Procs : q # p => proc'[q] = proc[q]
BY ReturnedIsCall DEF Return, Returned

LEMMA SecondKeeps ==
  ASSUME proc \in [Procs -> Call], NEW p \in Procs, NEW id \in Nat,
         proc' = [proc EXCEPT ![p] = Second(id)]
  PROVE  /\ proc' \in [Procs -> Call] /\ proc'[p].at = "second"
         /\ \A q \in Procs : q # p => proc'[q] = proc[q]
<1>1. Second(id) \in Call /\ Second(id).at = "second"
  BY LibAssumption DEF Second, Call
<1> QED BY <1>1

LEMMA NextKeeps == ASSUME Inv, Next PROVE Inv'
<1> PICK p \in Procs :
      SendRequest(p) \/ SendPayload(p) \/ Poll(p) \/ FirstRead(p) \/ SecondRead(p) \/ Flush(p)
  BY DEF Next
<1>0. /\ proc \in [Procs -> Call] /\ queue \in Seq(Place) /\ DOMAIN queue = 1..Len(queue)
      /\ Len(queue) \in Nat
  BY DEF Inv, Types
<1>1. CASE SendRequest(p)
  <2>1. PICK channel \in Channels, size \in Sizes :
          /\ Enqueue(p, channel, 0, "request")
          /\ proc' = [proc EXCEPT ![p] =
               IF size = 0 THEN Returned
               ELSE [at |-> "payload", id |-> 0, channel |-> channel, size |-> size]]
    BY <1>1 DEF SendRequest
  <2>2. PICK c \in Call : proc' = [proc EXCEPT ![p] = c]
    <3>1. size \in Nat
      BY LibAssumption
    <3>2. [at |-> "payload", id |-> 0, channel |-> channel, size |-> size] \in Call
      BY <3>1 DEF Call
    <3> QED BY <2>1, <3>2, ReturnedIsCall
  <2>3. proc' \in [Procs -> Call] /\ \A q \in Procs : q # p => proc'[q] = proc[q]
    BY <1>0, <2>2
  <2>4. told' = told
    BY <1>1 DEF SendRequest
  <2> QED BY <2>1, <2>3, <2>4, EnqueueKeeps DEF Part
<1>2. CASE SendPayload(p)
  <2>1. /\ proc[p].at = "payload" /\ told' = told
        /\ proc' \in [Procs -> Call] /\ proc'[p].at = "out"
        /\ \A q \in Procs : q # p => proc'[q] = proc[q]
    BY <1>0, <1>2, ReturnKeeps DEF SendPayload
  <2>2. proc[p].size \in Nat
    BY <1>0 DEF Call
  <2>3. PICK channel \in Channels, size \in Nat : Enqueue(p, channel, size, "payload")
    <3>1. CASE proc[p].size < SendReq
      BY <1>2, <2>2, <3>1, LibAssumption DEF SendPayload
    <3>2. CASE ~(proc[p].size < SendReq)
      <4>1. proc[p].size - SendReq \in Nat
        BY <2>2, <3>2 DEF SendReq
      <4> QED BY <1>2, <3>2, <4>1 DEF SendPayload
    <3> QED BY <3>1, <3>2
  <2> QED BY <2>1, <2>3, EnqueueKeeps DEF Part
<1>3. CASE Poll(p)
  <2>1. proc' = [proc EXCEPT ![p].at = "polled"]
    BY <1>3 DEF Poll, At
  <2>2. /\ proc' \in [Procs -> Call] /\ proc'[p].at = "polled"
        /\ \A q \in Procs : q # p => proc'[q] = proc[q]
    BY <1>0, <2>1 DEF Call
  <2>3. \A q \in Procs : proc'[q].at = "payload" => proc[q].at = "payload"
    BY <2>2
  <2> QED BY <1>3, <2>2, <2>3, MovingOnKeeps DEF Poll, Kernel!Others
<1>4. CASE FirstRead(p)
  <2>1. PICK mask \in (SUBSET Channels) \ {{}} :
          \/ Found(p, mask)
          \/ /\ Return(p) \/ proc' = [proc EXCEPT ![p] = Second(0)]
             /\ Kernel!Others /\ UNCHANGED told
    BY <1>4 DEF FirstRead
  <2>2. refused' = refused /\ sent' = sent
    BY <1>4 DEF FirstRead
  <2>3. CASE Found(p, mask)
    <3>1. PICK k \in 1..Len(queue) :
            got' = queue[k] /\ queue' = SubSeq(queue, k + 1, Len(queue))
      BY <1>0, <2>3, TakeIs DEF Found
    <3>2. queue[k] \in Place
      BY <1>0
    <3>3. queue[k].size \in Nat /\ queue[k].id \in Nat
      BY <3>2 DEF Place
    <3>4. CASE queue[k].size < RecvReq
      <4>1. Return(p) /\ told' = told
        BY <2>3, <3>1, <3>4 DEF Found
      <4>2. /\ proc' \in [Procs -> Call]
            /\ \A q \in Procs : proc'[q].at = "payload" => proc[q].at = "payload"
        BY <1>0, <4>1, ReturnKeeps
      <4> QED BY <2>2, <3>1, <4>1, <4>2, DequeueKeeps
    <3>5. CASE ~(queue[k].size < RecvReq)
      <4>1. /\ proc' = [proc EXCEPT ![p] = Second(queue[k].id)]
            /\ told' = told \cup {[to |-> p, id |-> queue[k].id, size |-> queue[k].size]}
        BY <2>3, <3>1, <3>5 DEF Found
      <4>2. /\ proc' \in [Procs -> Call] /\ proc'[p].at = "second"
            /\ \A q \in Procs : q # p => proc'[q] = proc[q]
        BY <1>0, <3>3, <4>1, SecondKeeps
      <4>3. \A q \in Procs : proc'[q].at = "payload" => proc[q].at = "payload"
        BY <4>2
      <4>4. queue[k].size >= RecvReq
        BY <3>3, <3>5 DEF RecvReq
      <4> QED BY <2>2, <3>1, <4>1, <4>2, <4>3, <4>4, DequeueKeeps
    <3> QED BY <3>4, <3>5
  <2>4. CASE /\ Return(p) \/ proc' = [proc EXCEPT ![p] = Second(0)]
             /\ Kernel!Others /\ UNCHANGED told
    <3>1. queue' = queue /\ told' = told
      BY <2>4 DEF Kernel!Others
    <3>2. CASE Return(p)
      <4>1. /\ proc' \in [Procs -> Call]
            /\ \A q \in Procs : proc'[q].at = "payload" => proc[q].at = "payload"
        BY <1>0, <3>2, ReturnKeeps
      <4> QED BY <2>2, <3>1, <4>1, MovingOnKeeps
    <3>3. CASE proc' = [proc EXCEPT ![p] = Second(0)]
      <4>2. /\ proc' \in [Procs -> Call] /\ proc'[p].at = "second"
            /\ \A q \in Procs : q # p => proc'[q] = proc[q]
        BY <1>0, <3>3, SecondKeeps
      <4>3. \A q \in Procs : proc'[q].at = "payload" => proc[q].at = "payload"
        BY <4>2
      <4> QED BY <2>2, <3>1, <4>2, <4>3, MovingOnKeeps
    <3> QED BY <2>4, <3>2, <3>3
  <2> QED BY <2>1, <2>3, <2>4
<1>5. CASE SecondRead(p)
  <2>1. /\ Return(p) /\ UNCHANGED <<sent, refused, told>>
        /\ proc' \in [Procs -> Call]
        /\ \A q \in Procs : proc'[q].at = "payload" => proc[q].at = "payload"
    BY <1>0, <1>5, ReturnKeeps DEF SecondRead
  <2>2. CASE Kernel!Others
    BY <2>1, <2>2, MovingOnKeeps DEF Kernel!Others
  <2>3. ASSUME NEW mask \in SUBSET Channels, Kernel!Take(mask)
        PROVE  Inv'
    <3>1. PICK k \in 1..Len(queue) : queue' = SubSeq(queue, k + 1, Len(queue))
      BY <1>0, <2>3, TakeIs
    <3> QED BY <2>1, <3>1, DequeueKeeps
  <2> QED BY <1>5, <2>2, <2>3 DEF SecondRead
<1>6. CASE Flush(p)
  <2>1. queue' = <<>> /\ UNCHANGED <<sent, proc, refused, told>>
    BY <1>6 DEF Flush, Kernel!Flush
  <2>2. queue' \in Seq(Place) /\ Len(queue') = 0 /\ DOMAIN queue' = {}
    BY <2>1
  <2> QED BY <2>1, <2>2 DEF Inv, Types, Numbered, ReportedIsGone, Paired
<1> QED BY <1>1, <1>2, <1>3, <1>4, <1>5, <1>6

LEMMA InvHolds == Spec => []Inv
<1>1. Init => Inv
  <2> SUFFICES ASSUME Init PROVE Inv
    OBVIOUS
  <2>1. queue = <<>> /\ sent = 0 /\ told = {} /\ proc \in [Procs -> Call]
    BY ReturnedIsCall DEF Init, Kernel!Init
  <2>2. queue \in Seq(Place) /\ Len(queue) = 0
    BY <2>1
  <2> QED BY <2>1, <2>2 DEF Inv, Types, Numbered, ReportedIsGone, Paired
<1>2. Inv /\ [Next]_vars => Inv'
  <2> SUFFICES ASSUME Inv, [Next]_vars PROVE Inv'
    OBVIOUS
  <2>1. CASE UNCHANGED vars
    BY <2>1 DEF vars, Inv, Types, Numbered, ReportedIsGone, Paired, Answered
  <2> QED BY <2>1, NextKeeps
<1> QED BY <1>1, <1>2, PTL DEF Spec

\* A message that a receive or a peek reports is gone for everyone, was reported to one
\* process only, and has at least 24 bytes.
THEOREM ReportedOnce == Spec => []ReportedIsGone
<1>1. Inv => ReportedIsGone
  BY DEF Inv
<1> QED BY <1>1, InvHolds, PTL

\* Messages lie in the order of their numbers; between two payloads of one process lies a
\* request of its own, as long as no write of it was swallowed by a full mailbox.
THEOREM SendersKeepOrder == Spec => []OrderOfSender
<1>1. Inv => OrderOfSender
  <2> SUFFICES ASSUME Inv, NEW i \in DOMAIN queue, NEW j \in DOMAIN queue, i < j
               PROVE  /\ queue[i].id < queue[j].id
                      /\ \/ queue[i].from # queue[j].from \/ queue[i].from \in refused
                         \/ queue[i].part = "request"
                         \/ \E k \in (i + 1)..j : /\ queue[k].part = "request"
                                                     /\ queue[k].from = queue[i].from
    BY DEF OrderOfSender
  <2>1. DOMAIN queue = 1..Len(queue) /\ queue[i] \in Place
    BY DEF Inv, Types
  <2>2. queue[i].part \in {"request", "payload"}
    BY <2>1 DEF Place, Part
  <2> QED BY <2>1, <2>2 DEF Inv, Numbered, Paired, Answered
<1> QED BY <1>1, InvHolds, PTL
=============================================================================
