------------------------ MODULE SpecInformerProofs ------------------------
(***************************************************************************)
(* Theorems about SpecInformer, for every set of documents and collections *)
(* and every bound.                                                        *)
(***************************************************************************)
EXTENDS SpecInformer, TLAPS

(***************************************************************************)
(* The channel of a watcher: an error is its last event, sent by a         *)
(* listener that is gone, and it carries the collection's own documents.   *)
(***************************************************************************)
ChannelInv ==
    \A c \in Colls : \A i \in DOMAIN events[c] :
        IF events[c][i].kind = "error" THEN c \notin listening /\ i = Len(events[c])
                                       ELSE Home[events[c][i].doc] = c

\* A leader that has resigned leaves no reflector, and so no listener, behind.
TypeInv ==
    /\ TypeOK
    /\ ChannelInv
    /\ phase = "standby" => \A c \in Colls : reflector[c] = "off"

(***************************************************************************)
(* No revision overtakes another: on its way from the database through the *)
(* channel into the cache, a document only ever falls behind.              *)
(***************************************************************************)
AboutIn(s, d) == {i \in DOMAIN s : s[i].kind # "error" /\ s[i].doc = d}
Changes(d) == {i \in AboutIn(events[Home[d]], d) : events[Home[d]][i].kind = "changed"}
RevAt(d, i) == events[Home[d]][i].rev

\* No revision of the document is later than this.
Latest(d) == IF Absent(d) THEN rev ELSE RevOf(d)

Ordered(d) ==
    /\ cache[d] <= Latest(d) /\ Latest(d) <= rev
    /\ \A i \in Changes(d) : cache[d] <= RevAt(d, i) /\ RevAt(d, i) <= Latest(d)
    /\ \A i, j \in Changes(d) : i <= j => RevAt(d, i) <= RevAt(d, j)

OrderInv == \A d \in Docs : Ordered(d)

(***************************************************************************)
(* What the listener has seen is in the cache or on its way there, and     *)
(* what is cached has reached the controller or its queue.                 *)
(***************************************************************************)
Cached(d) == ~Absent(d) /\ cache[d] = RevOf(d) => d \in queued \/ acted[d] = RevOf(d)

\* The events about the document still on their way.
Coming(d) == AboutIn(events[Home[d]], d)

Conveyed(d) ==
    Home[d] \in listening /\ view[d] # NoDoc /\ view[d].good =>
        \/ Coming(d) = {} /\ cache[d] = view[d].rev
        \/ \E i \in Changes(d) : RevAt(d, i) = view[d].rev /\ \A j \in Coming(d) : j <= i

ConveyInv == \A d \in Docs : Cached(d) /\ Conveyed(d)

-----------------------------------------------------------------------------
(***************************************************************************)
(* Channels.                                                               *)
(***************************************************************************)
\* The fields an event has.
LEMMA EventFields ==
    ASSUME NEW e \in Events
    PROVE  /\ e.kind \in {"error", "changed", "removed"}
           /\ e.kind # "error" => e.doc \in Docs
           /\ e.kind = "changed" => e.rev \in Nat
  BY DEF Events, Broken

\* One event more at the end of a channel.
LEMMA AppendOne ==
    ASSUME NEW S, NEW s \in Seq(S), NEW e \in S
    PROVE  /\ s \o <<e>> \in Seq(S)
           /\ Len(s \o <<e>>) = Len(s) + 1
           /\ (s \o <<e>>)[Len(s) + 1] = e
           /\ \A i \in 1 .. Len(s) : (s \o <<e>>)[i] = s[i]
           /\ DOMAIN (s \o <<e>>) = 1 .. Len(s) + 1
  OBVIOUS

\* One event less at its head.
LEMMA TakeOne ==
    ASSUME NEW S, NEW s \in Seq(S), s # <<>>
    PROVE  /\ Head(s) = s[1] /\ Head(s) \in S
           /\ Tail(s) \in Seq(S)
           /\ Len(s) \in Nat \ {0}
           /\ Len(Tail(s)) = Len(s) - 1
           /\ \A i \in 1 .. Len(s) - 1 : Tail(s)[i] = s[i + 1]
           /\ DOMAIN Tail(s) = 1 .. Len(s) - 1
           /\ DOMAIN s = 1 .. Len(s)
  OBVIOUS

\* What a snapshot reports of a document is one event about it or none.
LEMMA ReportedOne ==
    ASSUME TypeOK, NEW d \in Docs
    PROVE  \/ Reported(d) = <<>>
           \/ \E e \in Events : /\ Reported(d) = <<e>>
                                /\ e.kind # "error" /\ e.doc = d
  <1>1. CASE Absent(d)
    <2>1. Removed(d) \in Events /\ Removed(d).kind # "error" /\ Removed(d).doc = d
      BY DEF Removed, Events
    <2> QED
      BY <1>1, <2>1 DEF Reported
  <1>2. CASE ~Absent(d)
    <2>1. spec[d].rev \in Nat
      BY <1>2 DEF TypeOK, Absent, Doc
    <2>2. Changed(d) \in Events /\ Changed(d).kind # "error" /\ Changed(d).doc = d
      BY <2>1 DEF Changed, Events
    <2> QED
      BY <1>2, <2>2 DEF Reported
  <1> QED
    BY <1>1, <1>2

-----------------------------------------------------------------------------
(***************************************************************************)
(* Type correctness.                                                       *)
(***************************************************************************)
\* A fault keeps the count within its bound.
LEMMA FaultType == TypeOK /\ Fault => faults' \in 0 .. MaxFaults
  BY Bounds DEF TypeOK, Fault

\* The revision of a document is a number.
LEMMA RevType == ASSUME TypeOK, NEW d \in Docs PROVE RevOf(d) \in Nat
  BY DEF TypeOK, RevOf, Absent, Doc

\* A snapshot adds at most one event, about the document it noticed.
LEMMA NoticeAdds ==
    ASSUME TypeOK, NEW d \in Docs, Notice(d)
    PROVE  /\ Home[d] \in listening /\ listening' = listening
           /\ Len(events[Home[d]]) < Buffer
           /\ \/ events' = events /\ Reported(d) = <<>>
              \/ \E e \in Events :
                    /\ events' = [events EXCEPT ![Home[d]] = events[Home[d]] \o <<e>>]
                    /\ Reported(d) = <<e>> /\ e.kind # "error" /\ e.doc = d
  <1> DEFINE c == Home[d]
  <1>1. c \in Colls
    BY Homes
  <1>2. /\ c \in listening /\ Len(events[c]) < Buffer
        /\ events' = [events EXCEPT ![c] = events[c] \o Reported(d)]
        /\ listening' = listening
    BY DEF Notice, HasRoom, Survives
  <1>3. events \in [Colls -> Seq(Events)] /\ events[c] \in Seq(Events)
    BY <1>1 DEF TypeOK
  <1>4. events[c] \o <<>> = events[c]
    BY <1>3
  <1>5. Reported(d) = <<>> => events' = events
    BY <1>2, <1>3, <1>4
  <1> QED
    BY <1>2, <1>5, ReportedOne

\* A broken stream adds the error.
LEMMA BreakAdds ==
    ASSUME TypeOK, NEW c \in Colls, Break(c)
    PROVE  /\ c \in listening /\ listening' = listening \ {c}
           /\ Len(events[c]) < Buffer
           /\ \E e \in Events : /\ events' = [events EXCEPT ![c] = events[c] \o <<e>>]
                                /\ e.kind = "error"
  <1>1. Broken \in Events /\ Broken.kind = "error"
    BY DEF Broken, Events
  <1>2. events' = [events EXCEPT ![c] = events[c] \o <<Broken>>]
    BY DEF Break, LastWords
  <1> QED
    BY <1>1, <1>2 DEF Break, HasRoom

\* The reflector takes the first event and leaves the others.
LEMMA HandleTakes ==
    ASSUME TypeOK, NEW c \in Colls, Handle(c)
    PROVE  /\ events[c] \in Seq(Events) /\ events[c] # <<>>
           /\ \A k \in Colls \ {c} : events'[k] = events[k]
           /\ DOMAIN events' = Colls
           /\ events'[c] = Tail(events[c])
  BY DEF Handle, TypeOK

\* The channels after one more or one fewer event, for the steps below.
LEMMA ChannelStep ==
    ASSUME TypeInv,
           \/ \E d \in Docs : Notice(d)
           \/ \E c \in Colls : Break(c) \/ Handle(c)
    PROVE  /\ events' \in [Colls -> Seq(Events)]
           /\ \A c \in Colls : Len(events'[c]) <= Buffer
           /\ ChannelInv'
  <1>1. ASSUME NEW c \in Colls, NEW e \in Events, Len(events[c]) < Buffer,
               events' = [events EXCEPT ![c] = events[c] \o <<e>>], c \in listening,
               \/ e.kind = "error" /\ listening' = listening \ {c}
               \/ e.kind # "error" /\ listening' = listening /\ Home[e.doc] = c
        PROVE  /\ events' \in [Colls -> Seq(Events)]
               /\ \A k \in Colls : Len(events'[k]) <= Buffer
               /\ ChannelInv'
    <2>0. /\ events \in [Colls -> Seq(Events)]
          /\ events[c] \in Seq(Events) /\ Len(events[c]) \in Nat
          /\ DOMAIN events[c] = 1 .. Len(events[c])
      BY DEF TypeInv, TypeOK
    <2>1. /\ events'[c] = events[c] \o <<e>>
          /\ events'[c] \in Seq(Events)
          /\ Len(events'[c]) = Len(events[c]) + 1
          /\ events'[c][Len(events[c]) + 1] = e
          /\ \A i \in 1 .. Len(events[c]) : events'[c][i] = events[c][i]
          /\ DOMAIN events'[c] = 1 .. Len(events[c]) + 1
      <3>1. events'[c] = events[c] \o <<e>>
        BY <1>1, <2>0
      <3> QED
        BY <2>0, <3>1, AppendOne
    <2>2. \A k \in Colls \ {c} : events'[k] = events[k]
      BY <1>1, <2>0
    <2>3. /\ events' \in [Colls -> Seq(Events)]
          /\ \A k \in Colls : Len(events'[k]) <= Buffer
      <3>1. events' \in [Colls -> Seq(Events)]
        BY <1>1, <2>0, <2>1
      <3>2. Len(events'[c]) <= Buffer
        BY <1>1, <2>0, <2>1, Bounds
      <3>3. \A k \in Colls \ {c} : Len(events'[k]) <= Buffer
        BY <2>2 DEF TypeInv, TypeOK
      <3> QED
        BY <3>1, <3>2, <3>3
    <2>4. \A i \in 1 .. Len(events[c]) : events[c][i].kind # "error" /\ Home[events[c][i].doc] = c
      BY <1>1, <2>0 DEF TypeInv, ChannelInv
    <2>5. \A i \in DOMAIN events'[c] :
              IF events'[c][i].kind = "error" THEN c \notin listening' /\ i = Len(events'[c])
                                              ELSE Home[events'[c][i].doc] = c
      <3> TAKE i \in DOMAIN events'[c]
      <3>1. i \in 1 .. Len(events[c]) \/ i = Len(events[c]) + 1
        BY <2>0, <2>1
      <3>2. CASE i \in 1 .. Len(events[c])
        BY <2>1, <2>4, <3>2
      <3>3. CASE i = Len(events[c]) + 1
        BY <1>1, <2>1, <3>3
      <3> QED
        BY <3>1, <3>2, <3>3
    <2>6. ASSUME NEW k \in Colls \ {c}, NEW i \in DOMAIN events'[k]
          PROVE  IF events'[k][i].kind = "error" THEN k \notin listening' /\ i = Len(events'[k])
                                                 ELSE Home[events'[k][i].doc] = k
      BY <1>1, <2>2, <2>6 DEF TypeInv, ChannelInv
    <2> QED
      BY <2>3, <2>5, <2>6 DEF ChannelInv
  <1>2. ASSUME NEW d \in Docs, Notice(d)
        PROVE  /\ events' \in [Colls -> Seq(Events)]
               /\ \A c \in Colls : Len(events'[c]) <= Buffer
               /\ ChannelInv'
    <2>1. Home[d] \in Colls
      BY Homes
    <2>2. CASE events' = events
      <3>1. listening' = listening
        BY <1>2, NoticeAdds DEF TypeInv
      <3> QED
        BY <2>2, <3>1 DEF TypeInv, TypeOK, ChannelInv
    <2>3. CASE events' # events
      <3>1. PICK e \in Events :
                /\ events' = [events EXCEPT ![Home[d]] = events[Home[d]] \o <<e>>]
                /\ e.kind # "error" /\ e.doc = d
        BY <1>2, <2>3, NoticeAdds DEF TypeInv
      <3> QED
        BY <1>1, <1>2, <2>1, <3>1, NoticeAdds DEF TypeInv
    <2> QED
      BY <2>2, <2>3
  <1>3. ASSUME NEW c \in Colls, Break(c)
        PROVE  /\ events' \in [Colls -> Seq(Events)]
               /\ \A k \in Colls : Len(events'[k]) <= Buffer
               /\ ChannelInv'
    <2>1. PICK e \in Events :
              events' = [events EXCEPT ![c] = events[c] \o <<e>>] /\ e.kind = "error"
      BY <1>3, BreakAdds DEF TypeInv
    <2> QED
      BY <1>1, <1>3, <2>1, BreakAdds DEF TypeInv
  <1>4. ASSUME NEW c \in Colls, Handle(c)
        PROVE  /\ events' \in [Colls -> Seq(Events)]
               /\ \A k \in Colls : Len(events'[k]) <= Buffer
               /\ ChannelInv'
    <2>1. /\ events[c] \in Seq(Events) /\ events[c] # <<>> /\ listening' = listening
          /\ \A k \in Colls \ {c} : events'[k] = events[k]
          /\ events' = [events EXCEPT ![c] = Tail(events[c])]
          /\ events'[c] = Tail(events[c])
      BY <1>4, HandleTakes DEF TypeInv, Handle
    <2>2. /\ events'[c] \in Seq(Events)
          /\ Len(events[c]) \in Nat \ {0} /\ Len(events'[c]) = Len(events[c]) - 1
          /\ \A i \in 1 .. Len(events[c]) - 1 : events'[c][i] = events[c][i + 1]
          /\ DOMAIN events'[c] = 1 .. Len(events[c]) - 1
          /\ DOMAIN events[c] = 1 .. Len(events[c])
      <3> DEFINE s == events[c]
      <3>1. s \in Seq(Events) /\ s # <<>> /\ events'[c] = Tail(s)
        BY <2>1
      <3> HIDE DEF s
      <3>2. /\ Tail(s) \in Seq(Events)
            /\ Len(s) \in Nat \ {0} /\ Len(Tail(s)) = Len(s) - 1
            /\ \A i \in 1 .. Len(s) - 1 : Tail(s)[i] = s[i + 1]
            /\ DOMAIN Tail(s) = 1 .. Len(s) - 1
            /\ DOMAIN s = 1 .. Len(s)
        BY <3>1, TakeOne
      <3> QED
        BY <3>1, <3>2 DEF s
    <2>3. events' \in [Colls -> Seq(Events)]
      BY <2>1, <2>2 DEF TypeInv, TypeOK
    <2>4. \A k \in Colls : Len(events'[k]) <= Buffer
      BY <2>1, <2>2, Bounds DEF TypeInv, TypeOK
    <2>5. ASSUME NEW k \in Colls, NEW i \in DOMAIN events'[k]
          PROVE  IF events'[k][i].kind = "error" THEN k \notin listening' /\ i = Len(events'[k])
                                                 ELSE Home[events'[k][i].doc] = k
      <3>1. CASE k = c
        <4>1. i + 1 \in DOMAIN events[c] /\ events'[c][i] = events[c][i + 1]
          BY <2>2, <2>5, <3>1
        <4>2. i + 1 = Len(events[c]) => i = Len(events'[c])
          BY <2>2, <2>5, <3>1
        <4> QED
          BY <2>1, <3>1, <4>1, <4>2 DEF TypeInv, ChannelInv
      <3>2. CASE k # c
        BY <2>1, <2>5, <3>2 DEF TypeInv, ChannelInv
      <3> QED
        BY <3>1, <3>2
    <2> QED
      BY <2>3, <2>4, <2>5 DEF ChannelInv
  <1> QED
    BY <1>2, <1>3, <1>4

\* The type invariant is inductive with the shape of the channels.
LEMMA TypeStep == TypeInv /\ [Next]_vars => TypeInv'
<1> SUFFICES ASSUME TypeInv, [Next]_vars
             PROVE  TypeInv'
  OBVIOUS
<1> USE DEF TypeInv
<1>1. ASSUME NEW d \in Docs, NEW good \in BOOLEAN, WriteSpec(d, good)
      PROVE  TypeInv'
  BY <1>1 DEF WriteSpec, watchVars, TypeOK, Doc, ChannelInv
<1>2. ASSUME NEW d \in Docs, DeleteSpec(d)
      PROVE  TypeInv'
  BY <1>2 DEF DeleteSpec, watchVars, TypeOK, ChannelInv
<1>3. ASSUME NEW d \in Docs, Notice(d)
      PROVE  TypeInv'
  BY <1>3, ChannelStep DEF Notice, Survives, dbVars, TypeOK
<1>4. ASSUME NEW d \in Docs, Resync(d)
      PROVE  TypeInv'
  BY <1>4 DEF Resync, dbVars, watchVars, TypeOK, ChannelInv
<1>5. ASSUME NEW d \in Docs, Sync(d)
      PROVE  TypeInv'
  BY <1>5, RevType DEF Sync, dbVars, watchVars, TypeOK, ChannelInv
<1>6. ASSUME NEW c \in Colls, List(c)
      PROVE  TypeInv'
  <2>1. cache' \in [Docs -> Nat] /\ shown' \in [Docs -> Nat] /\ queued' \subseteq Docs
    BY <1>6, RevType DEF List, Listed, DocsOf, TypeOK
  <2>2. events' \in [Colls -> Seq(Events)] /\ (\A k \in Colls : Len(events'[k]) <= Buffer)
    <3>1. <<>> \in Seq(Events) /\ Len(<<>>) = 0
      OBVIOUS
    <3> QED
      BY <1>6, <3>1, Bounds DEF List, TypeOK
  <2>3. ChannelInv'
    <3>1. ASSUME NEW k \in Colls, NEW i \in DOMAIN events'[k]
          PROVE  IF events'[k][i].kind = "error" THEN k \notin listening' /\ i = Len(events'[k])
                                                 ELSE Home[events'[k][i].doc] = k
      <4>1. k # c /\ events'[k] = events[k]
        BY <1>6, <3>1 DEF List, TypeOK
      <4> QED
        BY <1>6, <3>1, <4>1 DEF List, ChannelInv
    <3> QED
      BY <3>1 DEF ChannelInv
  <2> QED
    BY <1>6, <2>1, <2>2, <2>3 DEF List, dbVars, TypeOK
<1>7. ASSUME NEW c \in Colls, Break(c)
      PROVE  TypeInv'
  BY <1>7, ChannelStep, FaultType DEF Break, dbVars, TypeOK
<1>8. ASSUME NEW c \in Colls, Handle(c)
      PROVE  TypeInv'
  <2> DEFINE e == Head(events[c])
  <2>1. e \in Events /\ e = events[c][1] /\ 1 \in DOMAIN events[c]
    BY <1>8, HandleTakes, TakeOne
  <2>2. e.kind = "error" => c \notin listening
    BY <2>1 DEF ChannelInv
  <2>3. /\ e.kind # "error" => e.doc \in Docs
        /\ e.kind = "changed" => e.rev \in Nat
    BY <2>1, EventFields
  <2> HIDE DEF e
  <2>4. CASE /\ e.kind = "error"
             /\ reflector' = [reflector EXCEPT ![c] = "list"]
             /\ UNCHANGED <<cache, shown, queued>>
    BY <1>8, <2>2, <2>4, ChannelStep DEF Handle, dbVars, TypeOK
  <2>5. CASE /\ e.kind = "changed"
             /\ cache' = [cache EXCEPT ![e.doc] = e.rev]
             /\ shown' = [shown EXCEPT ![e.doc] = e.rev]
             /\ IF IsNews(e.doc, e.rev) THEN queued' = queued \cup {e.doc}
                                        ELSE MayQueue({e.doc})
             /\ UNCHANGED reflector
    <3>1. queued' \subseteq Docs /\ cache' \in [Docs -> Nat] /\ shown' \in [Docs -> Nat]
      BY <2>3, <2>5 DEF MayQueue, TypeOK
    <3> QED
      BY <1>8, <2>5, <3>1, ChannelStep DEF Handle, dbVars, TypeOK
  <2>6. CASE /\ e.kind = "removed"
             /\ cache' = [cache EXCEPT ![e.doc] = 0]
             /\ queued' = IF cache[e.doc] # 0 /\ c \in HearDeletes
                          THEN queued \cup {e.doc} ELSE queued
             /\ UNCHANGED <<reflector, shown>>
    <3>1. queued' \subseteq Docs /\ cache' \in [Docs -> Nat] /\ shown' \in [Docs -> Nat]
      BY <2>3, <2>6 DEF TypeOK
    <3> QED
      BY <1>8, <2>6, <3>1, ChannelStep DEF Handle, dbVars, TypeOK
  <2> QED
    BY <1>8, <2>4, <2>5, <2>6 DEF Handle, e
<1>9. CASE Lead
  BY <1>9 DEF Lead, dbVars, TypeOK, ChannelInv
<1>10. CASE StartControllers
  BY <1>10 DEF StartControllers, dbVars, watchVars, TypeOK, ChannelInv
<1>11. CASE Resign
  <2>1. faults' \in 0 .. MaxFaults
    BY <1>11, FaultType DEF Resign
  <2>2. <<>> \in Seq(Events) /\ Len(<<>>) = 0 /\ DOMAIN <<>> = {}
    OBVIOUS
  <2> QED
    BY <1>11, <2>1, <2>2, Bounds DEF Resign, dbVars, TypeOK, ChannelInv
<1>12. CASE UNCHANGED vars
  BY <1>12 DEF vars, TypeOK, ChannelInv
<1> QED
  BY <1>1, <1>2, <1>3, <1>4, <1>5, <1>6, <1>7, <1>8, <1>9, <1>10, <1>11, <1>12 DEF Next

LEMMA TypeInvariant == Spec => []TypeInv
<1>1. Init => TypeInv
  <2>1. <<>> \in Seq(Events) /\ Len(<<>>) = 0 /\ DOMAIN <<>> = {}
    OBVIOUS
  <2> QED
    BY <2>1, Bounds DEF Init, TypeInv, TypeOK, ChannelInv
<1> QED
  BY <1>1, TypeStep, PTL DEF Spec

\* Every variable keeps its type, no channel exceeds its capacity, and no listener
\* outlives the watch of its reflector.
THEOREM TypeCorrect == Spec => []TypeOK
  BY TypeInvariant, PTL DEF TypeInv

-----------------------------------------------------------------------------
(***************************************************************************)
(* The events about one document, after one event more or fewer.           *)
(***************************************************************************)
Appends(s, e, t) == t = s \o <<e>>
Takes(s, t) == s # <<>> /\ t = Tail(s)

LEMMA Appended ==
    ASSUME NEW s \in Seq(Events), NEW e \in Events, NEW d \in Docs, NEW t, Appends(s, e, t)
    PROVE  \E k \in Nat :
              /\ \A i \in AboutIn(s, d) : i \in Nat /\ i < k /\ t[i] = s[i]
              /\ \A i : i \in AboutIn(t, d) <=> \/ i \in AboutIn(s, d)
                                                \/ i = k /\ e.kind # "error" /\ e.doc = d
              /\ t[k] = e
  <1> DEFINE n == Len(s)
  <1>1. /\ n \in Nat /\ DOMAIN s = 1 .. n
        /\ DOMAIN t = 1 .. n + 1
        /\ t[n + 1] = e
        /\ \A i \in 1 .. n : t[i] = s[i]
    BY AppendOne DEF Appends
  <1> HIDE DEF n
  <1>2. \A i : i \in 1 .. n + 1 <=> i \in 1 .. n \/ i = n + 1
    BY <1>1
  <1>3. ~ (n + 1 \in 1 .. n) /\ n + 1 \in Nat /\ \A i \in 1 .. n : i \in Nat /\ i < n + 1
    BY <1>1
  <1>4. \A i \in AboutIn(s, d) : i \in Nat /\ i < n + 1 /\ t[i] = s[i]
    BY <1>1, <1>3 DEF AboutIn
  <1>5. \A i : i \in AboutIn(t, d) <=> \/ i \in AboutIn(s, d)
                                       \/ i = n + 1 /\ e.kind # "error" /\ e.doc = d
    BY <1>1, <1>2, <1>3 DEF AboutIn
  <1> QED
    BY <1>1, <1>3, <1>4, <1>5

LEMMA Taken ==
    ASSUME NEW s \in Seq(Events), NEW d \in Docs, NEW t, Takes(s, t)
    PROVE  /\ AboutIn(s, d) \subseteq Nat \ {0}
           /\ \A i : i \in AboutIn(t, d) <=> i \in Nat \ {0} /\ i + 1 \in AboutIn(s, d)
           /\ \A i \in AboutIn(t, d) : t[i] = s[i + 1]
           /\ 1 \in AboutIn(s, d) <=> s[1].kind # "error" /\ s[1].doc = d
           /\ s[1] \in Events /\ 1 \in DOMAIN s
  <1> DEFINE n == Len(s)
  <1>1. /\ s[1] \in Events
        /\ n \in Nat \ {0} /\ DOMAIN s = 1 .. n
        /\ DOMAIN t = 1 .. n - 1
        /\ \A i \in 1 .. n - 1 : t[i] = s[i + 1]
    BY TakeOne DEF Takes
  <1> HIDE DEF n
  <1>2. \A i \in Nat \ {0} : i \in 1 .. n - 1 <=> i + 1 \in 1 .. n
    BY <1>1
  <1>3. \A i : i \in 1 .. n - 1 => i \in Nat \ {0}
    BY <1>1
  <1>4. 1 \in 1 .. n /\ 1 .. n \subseteq Nat \ {0}
    BY <1>1
  <1> QED
    BY <1>1, <1>2, <1>3, <1>4 DEF AboutIn

-----------------------------------------------------------------------------
(***************************************************************************)
(* No revision overtakes another.                                          *)
(***************************************************************************)
\* A step moves the latest revision of a document forward or leaves it alone.
LEMMA LatestGrows ==
    ASSUME TypeInv, OrderInv, [Next]_vars, NEW d \in Docs
    PROVE  /\ Latest(d) \in Nat /\ Latest(d)' \in Nat
           /\ Latest(d) <= Latest(d)' /\ Latest(d)' <= rev'
  <1>1. Latest(d) \in Nat /\ Latest(d)' \in Nat
    <2>1. TypeInv'
      BY TypeStep
    <2> QED
      BY <2>1 DEF TypeInv, TypeOK, Latest, RevOf, Absent, Doc
  <1>2. Latest(d) <= rev /\ rev \in Nat
    BY DEF OrderInv, Ordered, TypeInv, TypeOK
  <1>3. CASE UNCHANGED dbVars
    BY <1>1, <1>2, <1>3 DEF dbVars, Latest, RevOf, Absent
  <1>4. ASSUME NEW e \in Docs, NEW good \in BOOLEAN, WriteSpec(e, good)
        PROVE  Latest(d) <= Latest(d)' /\ Latest(d)' <= rev'
    <2>1. CASE e = d
      BY <1>1, <1>2, <1>4, <2>1 DEF WriteSpec, TypeInv, TypeOK, Latest, RevOf, Absent
    <2>2. CASE e # d
      BY <1>1, <1>2, <1>4, <2>2 DEF WriteSpec, TypeInv, TypeOK, Latest, RevOf, Absent
    <2> QED
      BY <2>1, <2>2
  <1>5. ASSUME NEW e \in Docs, DeleteSpec(e)
        PROVE  Latest(d) <= Latest(d)' /\ Latest(d)' <= rev'
    <2>1. CASE e = d
      BY <1>1, <1>2, <1>5, <2>1 DEF DeleteSpec, TypeInv, TypeOK, Latest, RevOf, Absent
    <2>2. CASE e # d
      BY <1>1, <1>2, <1>5, <2>2 DEF DeleteSpec, TypeInv, TypeOK, Latest, RevOf, Absent
    <2> QED
      BY <2>1, <2>2
  <1>6. \/ UNCHANGED dbVars
        \/ \E e \in Docs : (\E good \in BOOLEAN : WriteSpec(e, good)) \/ DeleteSpec(e)
    BY DEF Next, Notice, Resync, Sync, List, Break, Handle, Lead, StartControllers, Resign,
           vars, dbVars
  <1> QED
    BY <1>1, <1>3, <1>4, <1>5, <1>6

\* The revisions on their way are numbers.
LEMMA RevAtType ==
    ASSUME TypeInv, NEW d \in Docs, NEW i \in Changes(d)
    PROVE  RevAt(d, i) \in Nat
  <1>1. /\ i \in DOMAIN events[Home[d]] /\ events[Home[d]][i].kind = "changed"
        /\ events[Home[d]] \in Seq(Events)
    BY Homes DEF Changes, AboutIn, TypeInv, TypeOK
  <1>2. events[Home[d]][i] \in Events
    BY <1>1
  <1> QED
    BY <1>1, <1>2, EventFields DEF RevAt

\* A step that leaves the changes of a document and its cache entry alone keeps its order.
LEMMA OrderKept ==
    ASSUME TypeInv, OrderInv, [Next]_vars, NEW d \in Docs, cache'[d] = cache[d],
           Changes(d)' = Changes(d),
           \A i \in Changes(d) : RevAt(d, i)' = RevAt(d, i)
    PROVE  Ordered(d)'
  <1>1. \A i \in Changes(d) : RevAt(d, i) \in Nat
    BY RevAtType
  <1>2. cache[d] \in Nat
    BY DEF TypeInv, TypeOK
  <1>3. Ordered(d)
    BY DEF OrderInv
  <1>4. \A i \in Changes(d)' : cache'[d] <= RevAt(d, i)' /\ RevAt(d, i)' <= Latest(d)'
    BY <1>1, <1>2, <1>3, LatestGrows DEF Ordered
  <1>5. cache'[d] <= Latest(d)' /\ Latest(d)' <= rev'
    BY <1>2, <1>3, LatestGrows DEF Ordered
  <1>6. \A i, j \in Changes(d)' : i <= j => RevAt(d, i)' <= RevAt(d, j)'
    BY <1>3 DEF Ordered
  <1> QED
    BY <1>4, <1>5, <1>6 DEF Ordered

LEMMA ChannelKept ==
    ASSUME NEW d \in Docs, events'[Home[d]] = events[Home[d]]
    PROVE  /\ Changes(d)' = Changes(d)
           /\ \A i \in Changes(d) : RevAt(d, i)' = RevAt(d, i)
  BY DEF Changes, AboutIn, RevAt

\* The changes of a document after one event more on its channel.
LEMMA AppendedChange ==
    ASSUME TypeInv, NEW c \in Colls, NEW e \in Events, e.kind # "error",
           NEW d \in Docs, Home[d] = c, Appends(events[c], e, events'[c])
    PROVE  \E k \in Nat :
              /\ \A i \in Changes(d) : i \in Nat /\ i < k /\ RevAt(d, i)' = RevAt(d, i)
              /\ \A i : i \in Changes(d)' <=> \/ i \in Changes(d)
                                              \/ i = k /\ e.kind = "changed" /\ e.doc = d
              /\ RevAt(d, k)' = e.rev
              /\ \A i \in Coming(d) : i \in Nat /\ i < k
              /\ \A i : i \in Coming(d)' <=> i \in Coming(d) \/ (i = k /\ e.doc = d)
  <1>1. events[c] \in Seq(Events)
    BY DEF TypeInv, TypeOK
  <1>2. PICK k \in Nat :
            /\ \A i \in AboutIn(events[c], d) :
                  i \in Nat /\ i < k /\ events'[c][i] = events[c][i]
            /\ \A i : i \in AboutIn(events'[c], d)
                          <=> \/ i \in AboutIn(events[c], d)
                              \/ i = k /\ e.kind # "error" /\ e.doc = d
            /\ events'[c][k] = e
    BY <1>1, Appended
  <1>3. /\ \A i : i \in Changes(d) <=> /\ i \in AboutIn(events[c], d)
                                       /\ events[c][i].kind = "changed"
        /\ \A i : i \in Changes(d)' <=> /\ i \in AboutIn(events'[c], d)
                                        /\ events'[c][i].kind = "changed"
        /\ \A i : RevAt(d, i) = events[c][i].rev /\ RevAt(d, i)' = events'[c][i].rev
    BY DEF Changes, RevAt
  <1>4. Coming(d) = AboutIn(events[c], d) /\ Coming(d)' = AboutIn(events'[c], d)
    BY DEF Coming
  <1> QED
    BY <1>2, <1>3, <1>4

\* A snapshot queues the latest revision behind the ones before it.
LEMMA NoticeOrder ==
    ASSUME TypeInv, OrderInv, [Next]_vars, NEW n \in Docs, Notice(n), NEW d \in Docs
    PROVE  Ordered(d)'
  <1>1. cache'[d] = cache[d] /\ spec' = spec /\ rev' = rev
    BY DEF Notice, dbVars
  <1>2. CASE events'[Home[d]] = events[Home[d]]
    BY <1>1, <1>2, ChannelKept, OrderKept
  <1>3. CASE events'[Home[d]] # events[Home[d]]
    <2>1. Home[n] \in Colls /\ Home[d] \in Colls
      BY Homes
    <2>2. PICK e \in Events :
              /\ events' = [events EXCEPT ![Home[n]] = events[Home[n]] \o <<e>>]
              /\ Reported(n) = <<e>> /\ e.kind # "error" /\ e.doc = n
      BY <1>3, NoticeAdds DEF TypeInv
    <2>3. Home[n] = Home[d]
      BY <1>3, <2>1, <2>2 DEF TypeInv, TypeOK
    <2>4. PICK k \in Nat :
              /\ \A i \in Changes(d) : i \in Nat /\ i < k /\ RevAt(d, i)' = RevAt(d, i)
              /\ \A i : i \in Changes(d)' <=> \/ i \in Changes(d)
                                              \/ i = k /\ e.kind = "changed" /\ e.doc = d
              /\ RevAt(d, k)' = e.rev
      <3>1. Appends(events[Home[d]], e, events'[Home[d]])
        BY <2>1, <2>2, <2>3 DEF TypeInv, TypeOK, Appends
      <3>2. e.kind # "error"
        BY <2>2
      <3> QED
        BY <2>1, <3>1, <3>2, AppendedChange
    <2>6. CASE d = n /\ e.kind = "changed"
      <3>1. e.rev = Latest(d)
        <4>1. ~Absent(d) /\ e = Changed(d)
          <5>1. Removed(n).kind = "removed"
            BY DEF Removed
          <5>2. \A x, y : <<x>> = <<y>> => x = y
            OBVIOUS
          <5>3. \A x : <<x>> # <<>>
            OBVIOUS
          <5>4. CASE Absent(n)
            <6>1. Reported(n) = <<>> \/ Reported(n) = <<Removed(n)>>
              BY <5>4 DEF Reported
            <6> QED
              BY <2>2, <2>6, <5>1, <5>2, <5>3, <6>1
          <5>5. CASE ~Absent(n)
            <6>1. Reported(n) = <<>> \/ Reported(n) = <<Changed(n)>>
              BY <5>5 DEF Reported
            <6> QED
              BY <2>2, <2>6, <5>2, <5>3, <5>5, <6>1
          <5> QED
            BY <5>4, <5>5
        <4>2. Changed(d).rev = spec[d].rev
          BY DEF Changed
        <4> QED
          BY <4>1, <4>2 DEF Latest, RevOf
      <3>3. \A i : i \in Changes(d)' <=> i \in Changes(d) \/ i = k
        BY <2>2, <2>4, <2>6
      <3>4. Latest(d)' = Latest(d)
        BY <1>1 DEF Latest, RevOf, Absent
      <3>5. RevAt(d, k)' = Latest(d) /\ Latest(d) \in Nat /\ cache[d] \in Nat
        BY <2>4, <3>1, LatestGrows DEF TypeInv, TypeOK
      <3>6. \A i \in Changes(d) : RevAt(d, i) \in Nat
        BY RevAtType
      <3>7. Ordered(d)
        BY DEF OrderInv
      <3>8. \A i \in Changes(d)' : cache'[d] <= RevAt(d, i)' /\ RevAt(d, i)' <= Latest(d)'
        BY <1>1, <2>4, <3>3, <3>4, <3>5, <3>6, <3>7 DEF Ordered
      <3>9. \A i, j \in Changes(d)' : i <= j => RevAt(d, i)' <= RevAt(d, j)'
        <4> SUFFICES ASSUME NEW i \in Changes(d)', NEW j \in Changes(d)', i <= j
                     PROVE  RevAt(d, i)' <= RevAt(d, j)'
          OBVIOUS
        <4>1. CASE j = k
          BY <3>4, <3>5, <3>8, <4>1
        <4>2. CASE j # k
          <5>1. j \in Changes(d) /\ i \in Changes(d)
            BY <2>4, <3>3, <4>2
          <5> QED
            BY <2>4, <3>7, <5>1 DEF Ordered
        <4> QED
          BY <4>1, <4>2
      <3>10. cache'[d] <= Latest(d)' /\ Latest(d)' <= rev'
        BY <1>1, <3>4, <3>7 DEF Ordered
      <3> QED
        BY <3>8, <3>9, <3>10 DEF Ordered
    <2>7. CASE ~(d = n /\ e.kind = "changed")
      <3>1. Changes(d)' = Changes(d)
        <4>1. \A i : i \in Changes(d)' <=> i \in Changes(d)
          BY <2>2, <2>4, <2>7
        <4> QED
          BY <4>1 DEF Changes
      <3> QED
        BY <1>1, <2>4, <3>1, OrderKept
    <2> QED
      BY <2>6, <2>7
  <1> QED
    BY <1>2, <1>3

\* A List replaces the cache by what the database holds and empties the channel.
LEMMA ListOrder ==
    ASSUME TypeInv, OrderInv, [Next]_vars, NEW c \in Colls, List(c), NEW d \in Docs
    PROVE  Ordered(d)'
  <1>1. CASE Home[d] # c
    <2>1. events'[Home[d]] = events[Home[d]] /\ cache'[d] = cache[d]
      BY <1>1, Homes DEF List, Listed, DocsOf, TypeInv, TypeOK
    <2> QED
      BY <2>1, ChannelKept, OrderKept
  <1>2. CASE Home[d] = c
    <2>1. events'[Home[d]] = <<>>
      BY <1>2 DEF List, TypeInv, TypeOK
    <2>2. Changes(d)' = {}
      <3>1. DOMAIN <<>> = {}
        OBVIOUS
      <3> QED
        BY <2>1, <3>1 DEF Changes, AboutIn
    <2>3. cache'[d] = RevOf(d) /\ spec' = spec /\ rev' = rev
      BY <1>2 DEF List, Listed, DocsOf, dbVars
    <2>4. cache'[d] <= Latest(d)'
      BY <2>3, RevType DEF Latest, RevOf, Absent, TypeInv, TypeOK
    <2> QED
      BY <2>2, <2>4, LatestGrows DEF Ordered
  <1> QED
    BY <1>1, <1>2

\* Handing the first event to the cache leaves the later ones behind it.
LEMMA HandleOrder ==
    ASSUME TypeInv, OrderInv, [Next]_vars, NEW c \in Colls, Handle(c), NEW d \in Docs
    PROVE  Ordered(d)'
  <1> DEFINE e == events[c][1]
  <1>1. events[c] \in Seq(Events) /\ Takes(events[c], events'[c])
    BY HandleTakes DEF TypeInv, Takes
  <1>2. /\ e \in Events /\ e = Head(events[c])
        /\ e.kind # "error" => Home[e.doc] = c /\ e.doc \in Docs
    <2>1. e \in Events /\ e = Head(events[c]) /\ 1 \in DOMAIN events[c]
      BY HandleTakes, TakeOne DEF TypeInv
    <2> QED
      BY <2>1, EventFields DEF TypeInv, ChannelInv
  <1>3. CASE Home[d] # c
    <2>1. events'[Home[d]] = events[Home[d]]
      BY <1>3, Homes, HandleTakes DEF TypeInv
    <2>2. cache'[d] = cache[d]
      <3>1. \/ cache' = cache
            \/ /\ e.kind # "error"
               /\ \E r : cache' = [cache EXCEPT ![e.doc] = r]
        BY <1>2 DEF Handle
      <3> QED
        BY <1>2, <1>3, <3>1 DEF TypeInv, TypeOK
    <2> QED
      BY <2>1, <2>2, ChannelKept, OrderKept
  <1>4. CASE Home[d] = c
    <2>1. /\ Changes(d) \subseteq Nat \ {0}
          /\ \A i \in Changes(d)' : /\ i \in Nat \ {0} /\ i + 1 \in Changes(d)
                                    /\ RevAt(d, i)' = RevAt(d, i + 1)
          /\ e.kind = "changed" /\ e.doc = d => 1 \in Changes(d) /\ RevAt(d, 1) = e.rev
      <3>1. /\ AboutIn(events[c], d) \subseteq Nat \ {0}
            /\ \A i : i \in AboutIn(events'[c], d)
                          <=> i \in Nat \ {0} /\ i + 1 \in AboutIn(events[c], d)
            /\ \A i \in AboutIn(events'[c], d) : events'[c][i] = events[c][i + 1]
            /\ 1 \in AboutIn(events[c], d) <=> e.kind # "error" /\ e.doc = d
        BY <1>1, Taken
      <3>2. /\ \A i : i \in Changes(d) <=> /\ i \in AboutIn(events[c], d)
                                           /\ events[c][i].kind = "changed"
            /\ \A i : i \in Changes(d)' <=> /\ i \in AboutIn(events'[c], d)
                                            /\ events'[c][i].kind = "changed"
            /\ \A i : RevAt(d, i) = events[c][i].rev /\ RevAt(d, i)' = events'[c][i].rev
        BY <1>4 DEF Changes, RevAt
      <3> QED
        BY <3>1, <3>2
    <2>2. \/ cache'[d] = 0
          \/ cache'[d] = cache[d]
          \/ 1 \in Changes(d) /\ cache'[d] = RevAt(d, 1)
      BY <1>2, <2>1 DEF Handle, TypeInv, TypeOK
    <2>3. cache[d] \in Nat /\ \A i \in Changes(d) : RevAt(d, i) \in Nat
      BY RevAtType DEF TypeInv, TypeOK
    <2>4. Ordered(d)
      BY DEF OrderInv
    <2>5. cache'[d] \in Nat /\ cache'[d] <= Latest(d)
      BY <2>2, <2>3, <2>4, LatestGrows DEF Ordered
    <2>6. cache'[d] <= Latest(d)' /\ Latest(d)' <= rev'
      BY <2>5, LatestGrows
    <2>7. ASSUME NEW i \in Changes(d)'
          PROVE  cache'[d] <= RevAt(d, i)' /\ RevAt(d, i)' <= Latest(d)'
      <3>1. /\ i \in Nat \ {0} /\ i + 1 \in Changes(d)
            /\ RevAt(d, i)' = RevAt(d, i + 1)
        BY <2>1, <2>7
      <3>2. 1 \in Changes(d) => RevAt(d, 1) <= RevAt(d, i + 1)
        BY <2>4, <3>1 DEF Ordered
      <3>3. cache[d] <= RevAt(d, i + 1) /\ RevAt(d, i + 1) <= Latest(d)
        BY <2>4, <3>1 DEF Ordered
      <3>4. RevAt(d, i + 1) \in Nat
        BY <2>3, <3>1
      <3> QED
        BY <2>2, <3>1, <3>2, <3>3, <3>4, LatestGrows
    <2>8. ASSUME NEW i \in Changes(d)', NEW j \in Changes(d)', i <= j
          PROVE  RevAt(d, i)' <= RevAt(d, j)'
      <3>1. /\ i \in Nat /\ j \in Nat /\ i + 1 \in Changes(d) /\ j + 1 \in Changes(d)
            /\ RevAt(d, i)' = RevAt(d, i + 1) /\ RevAt(d, j)' = RevAt(d, j + 1)
        BY <2>1, <2>8
      <3> QED
        BY <2>4, <2>8, <3>1 DEF Ordered
    <2> QED
      BY <2>6, <2>7, <2>8 DEF Ordered
  <1> QED
    BY <1>3, <1>4

\* The other steps leave channels and cache alone, or empty both.
LEMMA QuietOrder ==
    ASSUME TypeInv, OrderInv, [Next]_vars, NEW d \in Docs,
           UNCHANGED <<events, cache>> \/ (\E c \in Colls : Break(c)) \/ Resign
    PROVE  Ordered(d)'
  <1>1. CASE UNCHANGED <<events, cache>>
    BY <1>1, ChannelKept, OrderKept
  <1>2. ASSUME NEW c \in Colls, Break(c)
        PROVE  Ordered(d)'
    <2>1. cache' = cache
      BY <1>2 DEF Break
    <2>2. CASE c # Home[d]
      <3>1. events'[Home[d]] = events[Home[d]]
        BY <1>2, <2>2, Homes DEF Break, TypeInv, TypeOK
      <3> QED
        BY <2>1, <3>1, ChannelKept, OrderKept
    <2>3. CASE c = Home[d]
      <3>1. /\ Appends(events[c], Broken, events'[c])
            /\ Broken \in Events /\ Broken.kind = "error"
            /\ events[c] \in Seq(Events)
        BY <1>2, <2>3 DEF Break, LastWords, Appends, Broken, Events, TypeInv, TypeOK
      <3>2. /\ \A i \in AboutIn(events[c], d) : events'[c][i] = events[c][i]
            /\ \A i : i \in AboutIn(events'[c], d) <=> i \in AboutIn(events[c], d)
        BY <3>1, Appended
      <3>3. /\ \A i : i \in Changes(d) <=> /\ i \in AboutIn(events[c], d)
                                           /\ events[c][i].kind = "changed"
            /\ \A i : i \in Changes(d)' <=> /\ i \in AboutIn(events'[c], d)
                                            /\ events'[c][i].kind = "changed"
            /\ \A i : RevAt(d, i) = events[c][i].rev /\ RevAt(d, i)' = events'[c][i].rev
        BY <2>3 DEF Changes, RevAt
      <3>4. /\ \A i : i \in Changes(d)' <=> i \in Changes(d)
            /\ \A i \in Changes(d) : RevAt(d, i)' = RevAt(d, i)
        BY <3>2, <3>3
      <3>5. Changes(d)' = Changes(d)
        BY <3>4 DEF Changes
      <3> QED
        BY <2>1, <3>4, <3>5, OrderKept
    <2> QED
      BY <2>2, <2>3
  <1>3. CASE Resign
    <2>1. cache'[d] = 0 /\ events'[Home[d]] = <<>>
      BY <1>3, Homes DEF Resign
    <2>2. Changes(d)' = {}
      <3>1. DOMAIN <<>> = {}
        OBVIOUS
      <3> QED
        BY <2>1, <3>1 DEF Changes, AboutIn
    <2> QED
      BY <2>1, <2>2, LatestGrows DEF Ordered
  <1> QED
    BY <1>1, <1>2, <1>3

LEMMA OrderStep ==
    ASSUME TypeInv, OrderInv, [Next]_vars
    PROVE  OrderInv'
  <1> SUFFICES ASSUME NEW d \in Docs
               PROVE  Ordered(d)'
    BY DEF OrderInv
  <1>1. ASSUME NEW n \in Docs, Notice(n)
        PROVE  Ordered(d)'
    BY <1>1, NoticeOrder
  <1>2. ASSUME NEW c \in Colls, List(c)
        PROVE  Ordered(d)'
    BY <1>2, ListOrder
  <1>3. ASSUME NEW c \in Colls, Handle(c)
        PROVE  Ordered(d)'
    BY <1>3, HandleOrder
  <1>4. CASE UNCHANGED <<events, cache>> \/ (\E c \in Colls : Break(c)) \/ Resign
    BY <1>4, QuietOrder
  <1>5. \/ UNCHANGED <<events, cache>> \/ (\E c \in Colls : Break(c)) \/ Resign
        \/ \E n \in Docs : Notice(n)
        \/ \E c \in Colls : List(c) \/ Handle(c)
    BY DEF Next, WriteSpec, DeleteSpec, Resync, Sync, Lead, StartControllers, vars, watchVars
  <1> QED
    BY <1>1, <1>2, <1>3, <1>4, <1>5

LEMMA OrderInvariant == Spec => []OrderInv
<1>1. Init => OrderInv
  <2> SUFFICES ASSUME Init, NEW d \in Docs
               PROVE  Ordered(d)
    BY DEF OrderInv
  <2>1. Changes(d) = {}
    <3>1. DOMAIN <<>> = {}
      OBVIOUS
    <3> QED
      BY <3>1, Homes DEF Init, Changes, AboutIn
  <2> QED
    BY <2>1 DEF Init, Ordered, Latest, RevOf, Absent
<1>2. TypeInv /\ OrderInv /\ [Next]_vars => OrderInv'
  BY OrderStep
<1> QED
  BY <1>1, <1>2, TypeInvariant, PTL DEF Spec

\* The cache moves from one revision of a document to a later one, never back to one
\* that a List or the stream had already overtaken.
THEOREM CacheMovesForward == Spec => CacheForward
<1> DEFINE Forward(d) == cache'[d] # 0 /\ cache[d] # 0 => cache'[d] >= cache[d]
<1>1. ASSUME TypeInv, OrderInv, [Next]_vars, NEW d \in Docs
      PROVE  Forward(d)
  <2>0. Ordered(d) /\ cache[d] \in Nat
    BY <1>1 DEF OrderInv, TypeInv, TypeOK
  <2>1. CASE cache'[d] = cache[d] \/ cache'[d] = 0
    BY <2>0, <2>1
  <2>2. ASSUME NEW c \in Colls, List(c)
        PROVE  Forward(d)
    <3>1. cache'[d] = RevOf(d) \/ cache'[d] = cache[d]
      BY <2>2 DEF List, Listed
    <3>2. Absent(d) => RevOf(d) = 0
      BY DEF RevOf
    <3>3. ~Absent(d) => Latest(d) = RevOf(d)
      BY DEF Latest
    <3>4. RevOf(d) \in Nat
      BY <1>1, RevType DEF TypeInv
    <3> QED
      BY <2>0, <3>1, <3>2, <3>3, <3>4 DEF Ordered
  <2>3. ASSUME NEW c \in Colls, Handle(c)
        PROVE  Forward(d)
    <3> DEFINE e == events[c][1]
    <3>1. events[c] \in Seq(Events) /\ e = Head(events[c]) /\ e \in Events
          /\ Takes(events[c], events'[c]) /\ 1 \in DOMAIN events[c]
      BY <1>1, <2>3, HandleTakes, TakeOne DEF TypeInv, Takes
    <3>2. e.kind # "error" => Home[e.doc] = c /\ e.doc \in Docs
      BY <1>1, <3>1, EventFields DEF TypeInv, ChannelInv
    <3>3. \/ cache'[d] = 0 \/ cache'[d] = cache[d]
          \/ e.kind = "changed" /\ e.doc = d /\ cache'[d] = e.rev
      BY <1>1, <2>3, <3>1, <3>2 DEF Handle, TypeInv, TypeOK
    <3>4. CASE e.kind = "changed" /\ e.doc = d /\ cache'[d] = e.rev
      <4>1. 1 \in Changes(d) /\ RevAt(d, 1) = e.rev
        BY <3>1, <3>2, <3>4 DEF Changes, AboutIn, RevAt
      <4>2. cache[d] <= RevAt(d, 1) /\ RevAt(d, 1) \in Nat
        BY <1>1, <2>0, <4>1, RevAtType DEF Ordered
      <4> QED
        BY <2>0, <3>4, <4>1, <4>2
    <3> QED
      BY <2>0, <3>3, <3>4
  <2>4. \/ cache'[d] = cache[d] \/ cache'[d] = 0
        \/ \E c \in Colls : List(c) \/ Handle(c)
    BY <1>1 DEF Next, WriteSpec, DeleteSpec, Notice, Resync, Sync, Break, Lead,
                StartControllers, Resign, vars
  <2> QED
    BY <2>1, <2>2, <2>3, <2>4
<1>2. TypeInv /\ OrderInv /\ [Next]_vars => [\A d \in Docs : Forward(d)]_vars
  BY <1>1
<1> QED
  BY <1>2, TypeInvariant, OrderInvariant, PTL DEF Spec, CacheForward

-----------------------------------------------------------------------------
(***************************************************************************)
(* What has been read is not forgotten.                                    *)
(***************************************************************************)
\* A revision in the cache is queued or has been acted on, after any step.
LEMMA CachedStep ==
    ASSUME TypeInv, OrderInv, [Next]_vars, NEW d \in Docs, Cached(d)
    PROVE  Cached(d)'
  <1>1. CASE UNCHANGED <<spec, cache, acted>> /\ queued \subseteq queued'
    BY <1>1 DEF Cached, Absent, RevOf
  <1>2. ASSUME NEW e \in Docs, NEW good \in BOOLEAN, WriteSpec(e, good)
        PROVE  Cached(d)'
    <2>1. CASE e = d
      <3>1. spec'[d].rev = rev + 1 /\ cache'[d] = cache[d]
        BY <1>2, <2>1 DEF WriteSpec, TypeInv, TypeOK
      <3>2. cache[d] <= rev /\ cache[d] \in Nat /\ rev \in Nat
        BY LatestGrows DEF OrderInv, Ordered, TypeInv, TypeOK
      <3> QED
        BY <3>1, <3>2 DEF Cached, Absent, RevOf
    <2>2. CASE e # d
      BY <1>2, <2>2 DEF WriteSpec, TypeInv, TypeOK, Cached, Absent, RevOf
    <2> QED
      BY <2>1, <2>2
  <1>3. ASSUME NEW e \in Docs, DeleteSpec(e)
        PROVE  Cached(d)'
    BY <1>3 DEF DeleteSpec, TypeInv, TypeOK, Cached, Absent, RevOf
  <1>4. ASSUME NEW e \in Docs, Sync(e)
        PROVE  Cached(d)'
    BY <1>4 DEF Sync, dbVars, TypeInv, TypeOK, Cached, Absent, RevOf
  <1>5. ASSUME NEW c \in Colls, List(c)
        PROVE  Cached(d)'
    <2>1. spec' = spec /\ acted' = acted /\ queued \subseteq queued'
      BY <1>5 DEF List, Listed, dbVars
    <2>2. CASE Home[d] # c \/ Absent(d) \/ ~IsNews(d, RevOf(d))
      BY <1>5, <2>1, <2>2 DEF List, Listed, DocsOf, IsNews, Cached, Absent, RevOf
    <2>3. CASE Home[d] = c /\ ~Absent(d) /\ IsNews(d, RevOf(d))
      <3>1. d \in queued'
        BY <1>5, <2>3 DEF List, Listed, DocsOf
      <3> QED
        BY <3>1 DEF Cached
    <2> QED
      BY <2>2, <2>3
  <1>6. ASSUME NEW c \in Colls, Handle(c)
        PROVE  Cached(d)'
    <2> DEFINE e == Head(events[c])
    <2>1. e \in Events
      BY <1>6, HandleTakes, TakeOne DEF TypeInv
    <2>2. e.kind # "error" => e.doc \in Docs
      BY <2>1, EventFields
    <2>3. spec' = spec /\ acted' = acted /\ queued \subseteq queued'
      BY <1>6 DEF Handle, MayQueue, dbVars
    <2>4. \/ cache'[d] = cache[d]
          \/ cache'[d] = 0
          \/ d \in queued'
      BY <1>6, <2>2 DEF Handle, IsNews, TypeInv, TypeOK
    <2>5. ~Absent(d) => RevOf(d) # 0
      BY DEF TypeInv, TypeOK, Absent, RevOf, Doc
    <2> QED
      BY <2>3, <2>4, <2>5 DEF Cached, Absent, RevOf
  <1>7. CASE Resign
    <2>1. cache'[d] = 0 /\ spec' = spec
      BY <1>7 DEF Resign, dbVars
    <2>2. ~Absent(d) => RevOf(d) # 0
      BY DEF TypeInv, TypeOK, Absent, RevOf, Doc
    <2> QED
      BY <2>1, <2>2 DEF Cached, Absent, RevOf
  <1>8. \/ UNCHANGED <<spec, cache, acted>> /\ queued \subseteq queued'
        \/ \E e \in Docs : (\E good \in BOOLEAN : WriteSpec(e, good)) \/ DeleteSpec(e) \/ Sync(e)
        \/ \E c \in Colls : List(c) \/ Handle(c)
        \/ Resign
    BY DEF Next, Notice, Resync, Break, Lead, StartControllers, vars, dbVars
  <1> QED
    BY <1>1, <1>2, <1>3, <1>4, <1>5, <1>6, <1>7, <1>8

\* A step that leaves the listener, the events about a document and its cache entry
\* alone keeps what is on its way.
LEMMA ConveyedKept ==
    ASSUME NEW d \in Docs, Conveyed(d),
           Home[d] \in listening' => Home[d] \in listening,
           view'[d] = view[d], cache'[d] = cache[d], events'[Home[d]] = events[Home[d]]
    PROVE  Conveyed(d)'
  BY DEF Conveyed, Coming, Changes, AboutIn, RevAt

\* What a snapshot adds is the last event about its document, and what it shows.
LEMMA NoticeConveys ==
    ASSUME TypeInv, NEW n \in Docs, Notice(n), NEW d \in Docs, Conveyed(d)
    PROVE  Conveyed(d)'
  <1>1. /\ cache' = cache /\ spec' = spec /\ listening' = listening
        /\ view' = [view EXCEPT ![n] = spec[n]]
    BY DEF Notice, Survives, dbVars
  <1>2. Home[n] \in Colls /\ Home[d] \in Colls
    BY Homes
  <1>3. CASE d # n
    <2>1. view'[d] = view[d]
      BY <1>1, <1>3
    <2>2. CASE events'[Home[d]] = events[Home[d]]
      BY <1>1, <2>1, <2>2, ConveyedKept
    <2>3. CASE events'[Home[d]] # events[Home[d]]
      <3>1. PICK e \in Events :
                /\ events' = [events EXCEPT ![Home[n]] = events[Home[n]] \o <<e>>]
                /\ e.kind # "error" /\ e.doc = n
        BY <2>3, NoticeAdds DEF TypeInv
      <3>2. Appends(events[Home[d]], e, events'[Home[d]])
        BY <1>2, <2>3, <3>1 DEF TypeInv, TypeOK, Appends
      <3>3. e.kind # "error" /\ e.doc # d
        BY <1>3, <3>1
      <3>4. /\ \A i \in Changes(d) : RevAt(d, i)' = RevAt(d, i)
            /\ \A i : i \in Changes(d)' <=> i \in Changes(d)
            /\ \A i : i \in Coming(d)' <=> i \in Coming(d)
        BY <1>2, <3>2, <3>3, AppendedChange
      <3>5. Coming(d)' = Coming(d)
        BY <3>4 DEF Coming, AboutIn
      <3> QED
        BY <1>1, <2>1, <3>4, <3>5 DEF Conveyed
    <2> QED
      BY <2>2, <2>3
  <1>4. CASE d = n
    <2>1. view'[d] = spec[d]
      BY <1>1, <1>4 DEF TypeInv, TypeOK
    <2>2. CASE Decodes(d)
      <3>1. Reported(d) = <<Changed(d)>>
        BY <2>2 DEF Reported, Decodes
      <3>2. PICK e \in Events :
                /\ events' = [events EXCEPT ![Home[d]] = events[Home[d]] \o <<e>>]
                /\ Reported(d) = <<e>> /\ e.kind # "error" /\ e.doc = d
        <4>1. \A x : <<x>> # <<>>
          OBVIOUS
        <4> QED
          BY <1>4, <3>1, <4>1, NoticeAdds DEF TypeInv
      <3>3. e = Changed(d)
        <4>1. \A x, y : <<x>> = <<y>> => x = y
          OBVIOUS
        <4> QED
          BY <3>1, <3>2, <4>1
      <3>4. e.kind = "changed" /\ e.rev = spec[d].rev
        BY <3>3 DEF Changed
      <3>5. Appends(events[Home[d]], e, events'[Home[d]])
        BY <1>2, <3>2 DEF TypeInv, TypeOK, Appends
      <3>6. e.kind # "error" /\ e.doc = d
        BY <3>2
      <3>7. PICK k \in Nat :
                /\ k \in Changes(d)' /\ RevAt(d, k)' = e.rev
                /\ \A i \in Coming(d)' : i <= k
        BY <1>2, <3>4, <3>5, <3>6, AppendedChange
      <3>8. RevAt(d, k)' = view'[d].rev
        BY <2>1, <3>4, <3>7
      <3> QED
        BY <3>7, <3>8 DEF Conveyed
    <2>3. CASE ~Decodes(d)
      <3>1. ~(view'[d] # NoDoc /\ view'[d].good)
        BY <2>1, <2>3 DEF Decodes, Absent
      <3> QED
        BY <3>1 DEF Conveyed
    <2> QED
      BY <2>2, <2>3
  <1> QED
    BY <1>3, <1>4

\* What the reflector takes from the channel is in the cache.
LEMMA HandleConveys ==
    ASSUME TypeInv, NEW c \in Colls, Handle(c), NEW d \in Docs, Conveyed(d)
    PROVE  Conveyed(d)'
  <1> DEFINE e == events[c][1]
  <1>1. events[c] \in Seq(Events) /\ Takes(events[c], events'[c])
    BY HandleTakes DEF TypeInv, Takes
  <1>2. /\ e \in Events /\ e = Head(events[c]) /\ 1 \in DOMAIN events[c]
        /\ e.kind # "error" => Home[e.doc] = c /\ e.doc \in Docs
    <2>1. e \in Events /\ e = Head(events[c]) /\ 1 \in DOMAIN events[c]
      BY HandleTakes, TakeOne DEF TypeInv
    <2> QED
      BY <2>1, EventFields DEF TypeInv, ChannelInv
  <1>3. listening' = listening /\ view' = view
    BY DEF Handle
  <1>4. CASE Home[d] # c
    <2>1. events'[Home[d]] = events[Home[d]]
      BY <1>4, Homes, HandleTakes DEF TypeInv
    <2>2. cache'[d] = cache[d]
      <3>1. \/ cache' = cache
            \/ /\ e.kind # "error"
               /\ \E r : cache' = [cache EXCEPT ![e.doc] = r]
        BY <1>2 DEF Handle
      <3> QED
        BY <1>2, <1>4, <3>1 DEF TypeInv, TypeOK
    <2> QED
      BY <1>3, <2>1, <2>2, ConveyedKept
  <1>5. CASE Home[d] = c
    <2>1. /\ Coming(d) \subseteq Nat \ {0}
          /\ \A i : i \in Coming(d)' <=> i \in Nat \ {0} /\ i + 1 \in Coming(d)
          /\ \A i : i \in Changes(d)' <=> i \in Nat \ {0} /\ i + 1 \in Changes(d)
          /\ \A i \in Changes(d)' : RevAt(d, i)' = RevAt(d, i + 1)
          /\ 1 \in Coming(d) <=> e.kind # "error" /\ e.doc = d
          /\ 1 \in Changes(d) => e.kind = "changed" /\ RevAt(d, 1) = e.rev
      <3>1. /\ AboutIn(events[c], d) \subseteq Nat \ {0}
            /\ \A i : i \in AboutIn(events'[c], d)
                          <=> i \in Nat \ {0} /\ i + 1 \in AboutIn(events[c], d)
            /\ \A i \in AboutIn(events'[c], d) : events'[c][i] = events[c][i + 1]
            /\ 1 \in AboutIn(events[c], d) <=> e.kind # "error" /\ e.doc = d
        BY <1>1, Taken
      <3>2. /\ \A i : i \in Changes(d) <=> /\ i \in AboutIn(events[c], d)
                                           /\ events[c][i].kind = "changed"
            /\ \A i : i \in Changes(d)' <=> /\ i \in AboutIn(events'[c], d)
                                            /\ events'[c][i].kind = "changed"
            /\ \A i : RevAt(d, i) = events[c][i].rev /\ RevAt(d, i)' = events'[c][i].rev
        BY <1>5 DEF Changes, RevAt
      <3>3. Coming(d) = AboutIn(events[c], d) /\ Coming(d)' = AboutIn(events'[c], d)
        BY <1>5 DEF Coming
      <3> QED
        BY <3>1, <3>2, <3>3
    <2> SUFFICES ASSUME Home[d] \in listening, view[d] # NoDoc, view[d].good
                 PROVE  \/ Coming(d)' = {} /\ cache'[d] = view[d].rev
                        \/ \E i \in Changes(d)' : /\ RevAt(d, i)' = view[d].rev
                                                  /\ \A j \in Coming(d)' : j <= i
      BY <1>3 DEF Conveyed
    <2>2. 1 \notin Coming(d) => cache'[d] = cache[d]
      BY <1>2, <2>1 DEF Handle, TypeInv, TypeOK
    <2>3. CASE Coming(d) = {} /\ cache[d] = view[d].rev
      <3>1. Coming(d)' = {}
        <4>1. \A i : i \notin Coming(d)'
          BY <2>1, <2>3
        <4> QED
          BY <4>1 DEF Coming
      <3> QED
        BY <2>2, <2>3, <3>1
    <2>4. ASSUME NEW i \in Changes(d), RevAt(d, i) = view[d].rev,
                 \A j \in Coming(d) : j <= i
          PROVE  \/ Coming(d)' = {} /\ cache'[d] = view[d].rev
                 \/ \E k \in Changes(d)' : /\ RevAt(d, k)' = view[d].rev
                                           /\ \A j \in Coming(d)' : j <= k
      <3>1. i \in Coming(d) /\ i \in Nat \ {0}
        BY <2>1, <2>4 DEF Changes, Coming
      <3>2. CASE i = 1
        <4>1. e.kind = "changed" /\ e.doc = d /\ e.rev = view[d].rev
          BY <2>1, <2>4, <3>1, <3>2
        <4>2. cache'[d] = view[d].rev
          BY <1>2, <4>1 DEF Handle, TypeInv, TypeOK
        <4>3. Coming(d)' = {}
          <5>1. \A j : j \notin Coming(d)'
            BY <2>1, <2>4, <3>2
          <5> QED
            BY <5>1 DEF Coming
        <4> QED
          BY <4>2, <4>3
      <3>3. CASE i # 1
        <4>1. i - 1 \in Nat \ {0} /\ (i - 1) + 1 = i
          BY <3>1, <3>3
        <4>2. i - 1 \in Changes(d)' /\ RevAt(d, i - 1)' = view[d].rev
          BY <2>1, <2>4, <4>1
        <4>3. \A j \in Coming(d)' : j <= i - 1
          BY <2>1, <2>4, <3>1
        <4> QED
          BY <4>2, <4>3
      <3> QED
        BY <3>2, <3>3
    <2> QED
      BY <2>3, <2>4 DEF Conveyed
  <1> QED
    BY <1>4, <1>5

LEMMA ConveyStep ==
    ASSUME TypeInv, OrderInv, ConveyInv, [Next]_vars
    PROVE  ConveyInv'
  <1> SUFFICES ASSUME NEW d \in Docs
               PROVE  Cached(d)' /\ Conveyed(d)'
    BY DEF ConveyInv
  <1>1. Cached(d) /\ Conveyed(d)
    BY DEF ConveyInv
  <1>2. Cached(d)'
    BY <1>1, CachedStep
  <1>3. CASE UNCHANGED <<events, cache, view, listening>>
    BY <1>1, <1>2, <1>3, ConveyedKept
  <1>4. ASSUME NEW n \in Docs, Notice(n)
        PROVE  Conveyed(d)'
    BY <1>1, <1>4, NoticeConveys
  <1>5. ASSUME NEW c \in Colls, Handle(c)
        PROVE  Conveyed(d)'
    BY <1>1, <1>5, HandleConveys
  <1>6. ASSUME NEW c \in Colls, List(c)
        PROVE  Conveyed(d)'
    <2>1. CASE Home[d] = c
      <3>1. view'[d] = NoDoc
        BY <1>6, <2>1 DEF List, DocsOf
      <3> QED
        BY <3>1 DEF Conveyed
    <2>2. CASE Home[d] # c
      <3>1. /\ view'[d] = view[d] /\ cache'[d] = cache[d]
            /\ events'[Home[d]] = events[Home[d]]
            /\ Home[d] \in listening' => Home[d] \in listening
        BY <1>6, <2>2, Homes DEF List, Listed, DocsOf, TypeInv, TypeOK
      <3> QED
        BY <1>1, <3>1, ConveyedKept
    <2> QED
      BY <2>1, <2>2
  <1>7. ASSUME NEW c \in Colls, Break(c)
        PROVE  Conveyed(d)'
    <2>1. CASE Home[d] = c
      <3>1. Home[d] \notin listening'
        BY <1>7, <2>1 DEF Break
      <3> QED
        BY <3>1 DEF Conveyed
    <2>2. CASE Home[d] # c
      <3>1. /\ view'[d] = view[d] /\ cache'[d] = cache[d]
            /\ events'[Home[d]] = events[Home[d]]
            /\ Home[d] \in listening' => Home[d] \in listening
        BY <1>7, <2>2, Homes DEF Break, TypeInv, TypeOK
      <3> QED
        BY <1>1, <3>1, ConveyedKept
    <2> QED
      BY <2>1, <2>2
  <1>8. CASE Resign
    BY <1>2, <1>8 DEF Resign, Conveyed
  <1>9. \/ UNCHANGED <<events, cache, view, listening>> \/ Resign
        \/ \E n \in Docs : Notice(n)
        \/ \E c \in Colls : List(c) \/ Break(c) \/ Handle(c)
    BY DEF Next, WriteSpec, DeleteSpec, Resync, Sync, Lead, StartControllers, vars, watchVars
  <1> QED
    BY <1>2, <1>3, <1>4, <1>5, <1>6, <1>7, <1>8, <1>9

LEMMA ConveyInvariant == Spec => []ConveyInv
<1>1. Init => ConveyInv
  BY DEF Init, ConveyInv, Cached, Conveyed, Absent
<1>2. TypeInv /\ OrderInv /\ ConveyInv /\ [Next]_vars => ConveyInv'
  BY ConveyStep
<1> QED
  BY <1>1, <1>2, TypeInvariant, OrderInvariant, PTL DEF Spec

\* Once the listener has seen the last revision of a document and the channel holds
\* nothing more about it, its controller has acted on that revision or its key is
\* queued: neither the cooldown gate nor the cache's comparison drops one.
THEOREM ReadMeansQueued == Spec => []CaughtUp
<1>1. ConveyInv => CaughtUp
  <2> SUFFICES ASSUME ConveyInv, NEW d \in Docs, Home[d] \in listening, Decodes(d),
                      view[d] = spec[d], About(Home[d], d) = {}
               PROVE  d \in queued \/ acted[d] = RevOf(d)
    BY DEF CaughtUp
  <2>1. Cached(d) /\ Conveyed(d)
    BY DEF ConveyInv
  <2>2. ~Absent(d) /\ view[d] # NoDoc /\ view[d].good /\ view[d].rev = RevOf(d)
    BY DEF Decodes, Absent, RevOf
  <2>3. Coming(d) = {} /\ Changes(d) = {}
    <3>1. Coming(d) = About(Home[d], d) /\ Changes(d) \subseteq Coming(d)
      BY DEF Coming, Changes, AboutIn, About
    <3> QED
      BY <3>1
  <2>4. cache[d] = RevOf(d)
    BY <2>1, <2>2, <2>3 DEF Conveyed
  <2> QED
    BY <2>1, <2>2, <2>4 DEF Cached
<1> QED
  BY <1>1, ConveyInvariant, PTL

-----------------------------------------------------------------------------
(***************************************************************************)
(* What a removal has dropped does not come back.  The places of a         *)
(* document are its cache entry, number 0, and its changes on the channel; *)
(* it is dropped behind a removal, or already.                             *)
(***************************************************************************)
Removals(d) == {i \in Coming(d) : events[Home[d]][i].kind = "removed"}
Drops(d) == Removals(d) \cup {i \in {0} : cache[d] = 0}
Places(d) == Changes(d) \cup {0}
HeldAt(d, i) == IF i = 0 THEN shown[d] ELSE RevAt(d, i)

\* What is behind a drop, in the channel and in the database, is later than what is
\* before it.
Final(d) ==
    /\ cache[d] \in {0, shown[d]} /\ shown[d] <= Latest(d)
    /\ \A j \in Changes(d) : shown[d] <= RevAt(d, j)
    /\ \A g \in Drops(d), i \in Places(d) : i <= g =>
          /\ ~Absent(d) => HeldAt(d, i) < RevOf(d)
          /\ \A j \in Changes(d) : g < j => HeldAt(d, i) < RevAt(d, j)

FinalInv == \A d \in Docs : Final(d)

\* The places of a document are numbered along the channel, and hold no revision later
\* than its latest.
LEMMA PlacesInOrder ==
    ASSUME TypeInv, OrderInv, NEW d \in Docs, Final(d)
    PROVE  /\ Changes(d) \subseteq Nat \ {0} /\ Drops(d) \subseteq Nat
           /\ \A i \in Places(d) : i \in Nat /\ HeldAt(d, i) \in Nat /\ HeldAt(d, i) <= Latest(d)
           /\ \A j \in Changes(d) : HeldAt(d, j) = RevAt(d, j) /\ j # 0
           /\ HeldAt(d, 0) = shown[d]
  <1>1. Coming(d) \subseteq Nat \ {0}
    <2>1. events[Home[d]] \in Seq(Events)
      BY Homes DEF TypeInv, TypeOK
    <2>2. DOMAIN events[Home[d]] \subseteq Nat \ {0}
      BY <2>1
    <2> QED
      BY <2>2 DEF Coming, AboutIn
  <1>2. Changes(d) \subseteq Coming(d) /\ Removals(d) \subseteq Coming(d)
    BY DEF Changes, Coming, Removals
  <1>3. \A j \in Changes(d) : RevAt(d, j) \in Nat /\ RevAt(d, j) <= Latest(d)
    BY RevAtType DEF OrderInv, Ordered
  <1>4. shown[d] \in Nat /\ shown[d] <= Latest(d)
    BY DEF TypeInv, TypeOK, Final
  <1> QED
    BY <1>1, <1>2, <1>3, <1>4 DEF Drops, Places, HeldAt

\* A document that is there after a step is as it was, or later than anything before.
LEMMA PresentLater ==
    ASSUME TypeInv, OrderInv, [Next]_vars, NEW d \in Docs, ~Absent(d)'
    PROVE  \/ ~Absent(d) /\ RevOf(d)' = RevOf(d)
           \/ Latest(d) < RevOf(d)'
  <1>1. Latest(d) <= rev /\ rev \in Nat /\ Latest(d) \in Nat
    BY LatestGrows DEF OrderInv, Ordered, TypeInv, TypeOK
  <1>2. CASE spec'[d] = spec[d]
    BY <1>2 DEF Absent, RevOf
  <1>3. ASSUME NEW e \in Docs, NEW good \in BOOLEAN, WriteSpec(e, good), spec'[d] # spec[d]
        PROVE  Latest(d) < RevOf(d)'
    <2>1. spec'[d].rev = rev + 1
      BY <1>3 DEF WriteSpec, TypeInv, TypeOK
    <2> QED
      BY <1>1, <2>1 DEF RevOf, Absent
  <1>4. ASSUME NEW e \in Docs, DeleteSpec(e), spec'[d] # spec[d]
        PROVE  FALSE
    BY <1>4 DEF DeleteSpec, TypeInv, TypeOK, Absent
  <1>5. \/ spec' = spec
        \/ \E e \in Docs : (\E good \in BOOLEAN : WriteSpec(e, good)) \/ DeleteSpec(e)
    BY DEF Next, Notice, Resync, Sync, List, Break, Handle, Lead, StartControllers, Resign,
           vars, dbVars
  <1> QED
    BY <1>2, <1>3, <1>4, <1>5

\* A step that leaves the places of a document alone, and adds no drop, keeps them so.
LEMMA FinalKept ==
    ASSUME TypeInv, OrderInv, [Next]_vars, NEW d \in Docs, Final(d),
           cache'[d] = cache[d], shown'[d] = shown[d],
           Changes(d)' = Changes(d), Drops(d)' \subseteq Drops(d),
           \A i \in Changes(d) : RevAt(d, i)' = RevAt(d, i)
    PROVE  Final(d)'
  <1>1. /\ Places(d)' = Places(d)
        /\ \A i \in Places(d) : HeldAt(d, i)' = HeldAt(d, i)
    BY DEF Places, HeldAt
  <1>2. \A i \in Places(d) : HeldAt(d, i) \in Nat /\ HeldAt(d, i) <= Latest(d)
    BY PlacesInOrder
  <1>3. /\ cache'[d] \in {0, shown'[d]}
        /\ \A j \in Changes(d)' : shown'[d] <= RevAt(d, j)'
    BY DEF Final
  <1>4. shown'[d] <= Latest(d)'
    BY LatestGrows DEF Final, TypeInv, TypeOK
  <1>5. ASSUME NEW g \in Drops(d)', NEW i \in Places(d)', i <= g
        PROVE  /\ ~Absent(d)' => HeldAt(d, i)' < RevOf(d)'
               /\ \A j \in Changes(d)' : g < j => HeldAt(d, i)' < RevAt(d, j)'
    <2>1. /\ g \in Drops(d) /\ i \in Places(d) /\ HeldAt(d, i)' = HeldAt(d, i)
          /\ HeldAt(d, i) \in Nat /\ HeldAt(d, i) <= Latest(d)
      BY <1>1, <1>2, <1>5
    <2>2. /\ ~Absent(d) => HeldAt(d, i) < RevOf(d)
          /\ \A j \in Changes(d) : g < j => HeldAt(d, i) < RevAt(d, j)
      BY <1>5, <2>1 DEF Final
    <2>3. ASSUME ~Absent(d)'
          PROVE  HeldAt(d, i) < RevOf(d)'
      <3>1. RevOf(d)' \in Nat /\ Latest(d) \in Nat
        <4>1. TypeInv'
          BY TypeStep
        <4> QED
          BY <4>1, LatestGrows DEF TypeInv, TypeOK, RevOf, Absent, Doc
      <3> QED
        BY <2>1, <2>2, <2>3, <3>1, PresentLater
    <2> QED
      BY <2>1, <2>2, <2>3
  <1> QED
    BY <1>3, <1>4, <1>5 DEF Final

\* An empty channel holds no place but the cache.
LEMMA FinalEmpty ==
    ASSUME NEW d \in Docs, TypeInv', cache'[d] \in {0, shown'[d]}, shown'[d] <= Latest(d)',
           events'[Home[d]] = <<>>,
           cache'[d] = 0 /\ ~Absent(d)' => shown'[d] < RevOf(d)'
    PROVE  Final(d)'
  <1>1. Coming(d)' = {}
    <2>1. DOMAIN <<>> = {}
      OBVIOUS
    <2> QED
      BY <2>1 DEF Coming, AboutIn
  <1>2. Changes(d)' = {} /\ Removals(d)' = {}
    BY <1>1 DEF Changes, Removals, Coming
  <1>3. Places(d)' = {0} /\ Drops(d)' \subseteq {0} /\ HeldAt(d, 0)' = shown'[d]
    BY <1>2 DEF Places, Drops, HeldAt
  <1>4. \A g \in Drops(d)' : cache'[d] = 0
    BY <1>2 DEF Drops
  <1> QED
    BY <1>2, <1>3, <1>4 DEF Final

\* The places of a document, and its removals, after one event more on its channel.
LEMMA AppendedPlace ==
    ASSUME TypeInv, NEW c \in Colls, NEW e \in Events,
           NEW d \in Docs, Home[d] = c, Appends(events[c], e, events'[c])
    PROVE  \E k \in Nat :
              /\ \A i \in Coming(d) : i \in Nat /\ i < k
              /\ \A i \in Changes(d) : RevAt(d, i)' = RevAt(d, i)
              /\ \A i : i \in Changes(d)' <=> \/ i \in Changes(d)
                                              \/ i = k /\ e.kind = "changed" /\ e.doc = d
              /\ \A i : i \in Removals(d)' <=> \/ i \in Removals(d)
                                               \/ i = k /\ e.kind = "removed" /\ e.doc = d
              /\ RevAt(d, k)' = e.rev
  <1>1. events[c] \in Seq(Events)
    BY DEF TypeInv, TypeOK
  <1>2. PICK k \in Nat :
            /\ \A i \in AboutIn(events[c], d) :
                  i \in Nat /\ i < k /\ events'[c][i] = events[c][i]
            /\ \A i : i \in AboutIn(events'[c], d)
                          <=> \/ i \in AboutIn(events[c], d)
                              \/ i = k /\ e.kind # "error" /\ e.doc = d
            /\ events'[c][k] = e
    BY <1>1, Appended
  <1>3. /\ \A i : i \in Changes(d) <=> /\ i \in AboutIn(events[c], d)
                                       /\ events[c][i].kind = "changed"
        /\ \A i : i \in Changes(d)' <=> /\ i \in AboutIn(events'[c], d)
                                        /\ events'[c][i].kind = "changed"
        /\ \A i : RevAt(d, i) = events[c][i].rev /\ RevAt(d, i)' = events'[c][i].rev
    BY DEF Changes, RevAt
  <1>4. /\ \A i : i \in Removals(d) <=> /\ i \in AboutIn(events[c], d)
                                        /\ events[c][i].kind = "removed"
        /\ \A i : i \in Removals(d)' <=> /\ i \in AboutIn(events'[c], d)
                                         /\ events'[c][i].kind = "removed"
    BY DEF Removals, Coming
  <1>5. Coming(d) = AboutIn(events[c], d)
    BY DEF Coming
  <1> QED
    BY <1>2, <1>3, <1>4, <1>5

\* A snapshot reports what the database holds.
LEMMA ReportedNow ==
    ASSUME NEW d \in Docs, NEW e, Reported(d) = <<e>>
    PROVE  /\ e.kind = "changed" => ~Absent(d) /\ e.rev = RevOf(d)
           /\ e.kind = "removed" => Absent(d)
  <1>1. /\ Removed(d).kind = "removed" /\ Changed(d).kind = "changed"
        /\ Changed(d).rev = spec[d].rev
    BY DEF Removed, Changed
  <1>2. \A x, y : <<x>> = <<y>> => x = y
    OBVIOUS
  <1>3. \A x : <<x>> # <<>>
    OBVIOUS
  <1>4. CASE Absent(d)
    <2>1. Reported(d) = <<>> \/ Reported(d) = <<Removed(d)>>
      BY <1>4 DEF Reported
    <2>2. e = Removed(d)
      BY <1>2, <1>3, <2>1
    <2> QED
      BY <1>1, <1>4, <2>2
  <1>5. CASE ~Absent(d)
    <2>1. Reported(d) = <<>> \/ Reported(d) = <<Changed(d)>>
      BY <1>5 DEF Reported
    <2>2. e = Changed(d)
      BY <1>2, <1>3, <2>1
    <2> QED
      BY <1>1, <1>5, <2>2 DEF RevOf
  <1> QED
    BY <1>4, <1>5

\* A snapshot reports a removal of what is gone, and a revision behind all others.
LEMMA NoticeFinal ==
    ASSUME TypeInv, OrderInv, [Next]_vars, NEW n \in Docs, Notice(n), NEW d \in Docs, Final(d)
    PROVE  Final(d)'
  <1>1. cache' = cache /\ shown' = shown /\ spec' = spec /\ rev' = rev
    BY DEF Notice, dbVars
  <1>2. CASE events'[Home[d]] = events[Home[d]]
    <2>1. Drops(d)' = Drops(d)
      BY <1>1, <1>2 DEF Drops, Removals, Coming
    <2> QED
      BY <1>1, <1>2, <2>1, ChannelKept, FinalKept
  <1>3. CASE events'[Home[d]] # events[Home[d]]
    <2>1. Home[n] \in Colls /\ Home[d] \in Colls
      BY Homes
    <2>2. PICK e \in Events :
              /\ events' = [events EXCEPT ![Home[n]] = events[Home[n]] \o <<e>>]
              /\ Reported(n) = <<e>> /\ e.kind # "error" /\ e.doc = n
      BY <1>3, NoticeAdds DEF TypeInv
    <2>3. Home[n] = Home[d]
      BY <1>3, <2>1, <2>2 DEF TypeInv, TypeOK
    <2>4. Appends(events[Home[d]], e, events'[Home[d]])
      BY <2>1, <2>2, <2>3 DEF TypeInv, TypeOK, Appends
    <2>5. PICK k \in Nat :
              /\ \A i \in Coming(d) : i \in Nat /\ i < k
              /\ \A i \in Changes(d) : RevAt(d, i)' = RevAt(d, i)
              /\ \A i : i \in Changes(d)' <=> \/ i \in Changes(d)
                                              \/ i = k /\ e.kind = "changed" /\ e.doc = d
              /\ \A i : i \in Removals(d)' <=> \/ i \in Removals(d)
                                               \/ i = k /\ e.kind = "removed" /\ e.doc = d
              /\ RevAt(d, k)' = e.rev
      BY <2>1, <2>4, AppendedPlace
    <2>6. CASE d # n
      <3>1. \A i : /\ i \in Changes(d)' <=> i \in Changes(d)
                   /\ i \in Removals(d)' <=> i \in Removals(d)
        BY <2>2, <2>5, <2>6
      <3>2. Changes(d)' = Changes(d) /\ Removals(d)' = Removals(d)
        BY <3>1 DEF Changes, Removals
      <3>3. Drops(d)' \subseteq Drops(d)
        BY <1>1, <3>2 DEF Drops
      <3> QED
        BY <1>1, <2>5, <3>2, <3>3, FinalKept
    <2>7. CASE d = n
      <3>1. /\ e.kind = "changed" => ~Absent(d) /\ e.rev = RevOf(d)
            /\ e.kind = "removed" => Absent(d)
        BY <2>2, <2>7, ReportedNow
      <3>2. /\ UNCHANGED <<Absent(d), RevOf(d), Latest(d)>>
            /\ ~Absent(d) => Latest(d) = RevOf(d)
        BY <1>1 DEF Absent, RevOf, Latest
      <3>3. /\ \A i \in Changes(d) : i \in Coming(d)
            /\ \A g \in Drops(d) : g \in Coming(d) \/ g = 0
            /\ \A i : i \in Drops(d) <=> i \in Removals(d) \/ (i = 0 /\ cache[d] = 0)
            /\ \A i : i \in Drops(d)' <=> i \in Removals(d)' \/ (i = 0 /\ cache[d] = 0)
        BY <1>1 DEF Changes, Coming, Drops, Removals
      <3>4. /\ \A i \in Places(d) : HeldAt(d, i) \in Nat /\ HeldAt(d, i) <= Latest(d) /\ i \in Nat
            /\ \A i : i \in Places(d) <=> i \in Changes(d) \/ i = 0
            /\ \A i : i \in Places(d)' <=> i \in Changes(d)' \/ i = 0
            /\ HeldAt(d, 0)' = shown[d] /\ HeldAt(d, 0) = shown[d]
            /\ \A j \in Changes(d) : HeldAt(d, j)' = HeldAt(d, j) /\ HeldAt(d, j) = RevAt(d, j)
        BY <1>1, <2>5, PlacesInOrder DEF Places, HeldAt
      <3>5. Drops(d) \subseteq Nat /\ Latest(d) \in Nat
        BY PlacesInOrder, LatestGrows
      <3>6. \A j \in Changes(d)' : shown'[d] <= RevAt(d, j)'
        BY <1>1, <2>5, <3>1, <3>2 DEF Final
      <3>7. ASSUME NEW g \in Drops(d)', NEW i \in Places(d)', i <= g
            PROVE  /\ ~Absent(d)' => HeldAt(d, i)' < RevOf(d)'
                   /\ \A j \in Changes(d)' : g < j => HeldAt(d, i)' < RevAt(d, j)'
        <4>1. CASE g = k /\ g \notin Drops(d)
          <5>1. Absent(d) /\ \A j \in Changes(d)' : j \in Changes(d)
            BY <2>5, <3>1, <3>3, <3>7, <4>1
          <5>2. \A j \in Changes(d)' : ~(g < j)
            BY <2>5, <3>3, <4>1, <5>1
          <5> QED
            BY <3>2, <5>1, <5>2
        <4>2. CASE g \in Drops(d)
          <5>1. g \in Nat /\ g <= k /\ (g = k => g = 0)
            BY <2>5, <3>3, <3>5, <4>2
          <5>2. i \in Places(d)
            <6>1. ASSUME i \notin Places(d)
                  PROVE  FALSE
              <7>1. i = k /\ i # 0
                BY <2>5, <3>4, <3>7, <6>1
              <7> QED
                BY <3>7, <5>1, <7>1
            <6> QED
              BY <6>1
          <5>3. HeldAt(d, i)' = HeldAt(d, i) /\ HeldAt(d, i) \in Nat
            BY <3>4, <5>2
          <5>4. /\ ~Absent(d) => HeldAt(d, i) < RevOf(d)
                /\ \A j \in Changes(d) : g < j => HeldAt(d, i) < RevAt(d, j)
            BY <3>7, <4>2, <5>2 DEF Final
          <5>5. ASSUME NEW j \in Changes(d)', g < j
                PROVE  HeldAt(d, i)' < RevAt(d, j)'
            <6>1. CASE j \in Changes(d)
              BY <2>5, <5>3, <5>4, <5>5, <6>1
            <6>2. CASE j \notin Changes(d)
              <7>1. j = k /\ e.kind = "changed"
                BY <2>5, <5>5, <6>2
              <7> QED
                BY <2>5, <3>1, <5>3, <5>4, <7>1
            <6> QED
              BY <6>1, <6>2
          <5> QED
            BY <3>2, <5>3, <5>4, <5>5
        <4> QED
          BY <2>5, <3>3, <3>7, <4>1, <4>2
      <3> QED
        BY <1>1, <3>2, <3>6, <3>7 DEF Final
    <2> QED
      BY <2>6, <2>7
  <1> QED
    BY <1>2, <1>3

\* A broken stream adds no place and no removal.
LEMMA BreakFinal ==
    ASSUME TypeInv, OrderInv, [Next]_vars, NEW c \in Colls, Break(c), NEW d \in Docs, Final(d)
    PROVE  Final(d)'
  <1>1. cache' = cache /\ shown' = shown
    BY DEF Break
  <1>2. CASE c # Home[d]
    <2>1. events'[Home[d]] = events[Home[d]]
      BY <1>2, Homes DEF Break, TypeInv, TypeOK
    <2>2. Drops(d)' = Drops(d)
      BY <1>1, <2>1 DEF Drops, Removals, Coming
    <2> QED
      BY <1>1, <2>1, <2>2, ChannelKept, FinalKept
  <1>3. CASE c = Home[d]
    <2>1. /\ Appends(events[c], Broken, events'[c])
          /\ Broken \in Events /\ Broken.kind = "error"
      BY <1>3 DEF Break, LastWords, Appends, Broken, Events, TypeInv, TypeOK
    <2>2. /\ \A i : i \in Changes(d)' <=> i \in Changes(d)
          /\ \A i : i \in Removals(d)' <=> i \in Removals(d)
          /\ \A i \in Changes(d) : RevAt(d, i)' = RevAt(d, i)
      BY <1>3, <2>1, AppendedPlace
    <2>3. Changes(d)' = Changes(d) /\ Removals(d)' = Removals(d)
      BY <2>2 DEF Changes, Removals
    <2>4. Drops(d)' \subseteq Drops(d)
      BY <1>1, <2>3 DEF Drops
    <2> QED
      BY <1>1, <2>2, <2>3, <2>4, FinalKept
  <1> QED
    BY <1>2, <1>3

\* A List caches what is there, and drops what is gone.
LEMMA ListFinal ==
    ASSUME TypeInv, OrderInv, [Next]_vars, NEW c \in Colls, List(c), NEW d \in Docs, Final(d)
    PROVE  Final(d)'
  <1>1. CASE c # Home[d]
    <2>1. events'[Home[d]] = events[Home[d]] /\ cache'[d] = cache[d] /\ shown'[d] = shown[d]
      BY <1>1, Homes DEF List, Listed, DocsOf, TypeInv, TypeOK
    <2>2. Drops(d)' = Drops(d)
      BY <2>1 DEF Drops, Removals, Coming
    <2> QED
      BY <2>1, <2>2, ChannelKept, FinalKept
  <1>2. CASE c = Home[d]
    <2>1. /\ events'[Home[d]] = <<>> /\ spec' = spec /\ rev' = rev
          /\ cache'[d] = RevOf(d)
          /\ shown'[d] = IF Absent(d) THEN shown[d] ELSE RevOf(d)
      BY <1>2, Homes DEF List, Listed, DocsOf, dbVars, TypeInv, TypeOK
    <2>2. /\ UNCHANGED <<Absent(d), RevOf(d), Latest(d)>>
          /\ ~Absent(d) => Latest(d) = RevOf(d) /\ RevOf(d) \in Nat \ {0}
          /\ Absent(d) => RevOf(d) = 0
      BY <2>1 DEF Absent, RevOf, Latest, TypeInv, TypeOK, Doc
    <2>3. shown[d] <= Latest(d)
      BY DEF Final
    <2>4. cache'[d] \in {0, shown'[d]} /\ shown'[d] <= Latest(d)'
      BY <2>1, <2>2, <2>3
    <2>5. cache'[d] = 0 => Absent(d)'
      BY <2>1, <2>2
    <2>6. TypeInv'
      BY TypeStep
    <2> QED
      BY <2>1, <2>4, <2>5, <2>6, FinalEmpty
  <1> QED
    BY <1>1, <1>2

\* A leader that goes empties channels and caches.
LEMMA ResignFinal ==
    ASSUME TypeInv, [Next]_vars, Resign, NEW d \in Docs
    PROVE  Final(d)'
  <1>1. events'[Home[d]] = <<>> /\ cache'[d] = 0 /\ shown'[d] = 0
    BY Homes DEF Resign
  <1>2. TypeInv'
    BY TypeStep
  <1>3. 0 <= Latest(d)' /\ (~Absent(d)' => 0 < RevOf(d)')
    BY <1>2 DEF TypeInv, TypeOK, Latest, RevOf, Absent, Doc
  <1> QED
    BY <1>1, <1>2, <1>3, FinalEmpty

\* An event of one collection leaves the others' cache entries alone.
LEMMA HandleElsewhere ==
    ASSUME TypeInv, NEW c \in Colls, Handle(c), NEW d \in Docs, Home[d] # c
    PROVE  cache'[d] = cache[d] /\ shown'[d] = shown[d]
  <1> DEFINE e == events[c][1]
  <1>1. e \in Events /\ e = Head(events[c]) /\ 1 \in DOMAIN events[c]
    BY HandleTakes, TakeOne DEF TypeInv
  <1>2. e.kind # "error" => Home[e.doc] = c /\ e.doc \in Docs
    BY <1>1, EventFields DEF TypeInv, ChannelInv
  <1>3. \/ cache' = cache /\ shown' = shown
        \/ /\ e.kind # "error"
           /\ \E r : cache' = [cache EXCEPT ![e.doc] = r]
           /\ \E r : shown' = [shown EXCEPT ![e.doc] = r] \/ shown' = shown
    BY <1>1 DEF Handle
  <1> QED
    BY <1>2, <1>3 DEF TypeInv, TypeOK

\* What the first event of a channel does to the cache and the places behind it.
LEMMA HandlePlaces ==
    ASSUME TypeInv, NEW c \in Colls, Handle(c), NEW d \in Docs, Home[d] = c
    PROVE  /\ \A j \in Changes(d)' : /\ j \in Nat \ {0} /\ j + 1 \in Changes(d)
                                     /\ RevAt(d, j)' = RevAt(d, j + 1)
           /\ \A g \in Removals(d)' : g \in Nat \ {0} /\ g + 1 \in Removals(d)
           /\ \/ cache'[d] = cache[d] /\ shown'[d] = shown[d]
              \/ /\ 1 \in Changes(d)
                 /\ cache'[d] = RevAt(d, 1) /\ shown'[d] = RevAt(d, 1)
              \/ 1 \in Removals(d) /\ cache'[d] = 0 /\ shown'[d] = shown[d]
  <1> DEFINE e == events[c][1]
  <1>1. events[c] \in Seq(Events) /\ Takes(events[c], events'[c])
    BY HandleTakes DEF TypeInv, Takes
  <1>2. e \in Events /\ e = Head(events[c]) /\ 1 \in DOMAIN events[c]
    BY HandleTakes, TakeOne DEF TypeInv
  <1>3. /\ e.kind \in {"error", "changed", "removed"}
        /\ e.kind # "error" => e.doc \in Docs
    BY <1>2, EventFields
  <1>4. /\ AboutIn(events[c], d) \subseteq Nat \ {0}
        /\ \A i : i \in AboutIn(events'[c], d)
                      <=> i \in Nat \ {0} /\ i + 1 \in AboutIn(events[c], d)
        /\ \A i \in AboutIn(events'[c], d) : events'[c][i] = events[c][i + 1]
        /\ 1 \in AboutIn(events[c], d) <=> e.kind # "error" /\ e.doc = d
    BY <1>1, Taken
  <1>5. /\ \A i : i \in Changes(d) <=> /\ i \in AboutIn(events[c], d)
                                       /\ events[c][i].kind = "changed"
        /\ \A i : i \in Changes(d)' <=> /\ i \in AboutIn(events'[c], d)
                                        /\ events'[c][i].kind = "changed"
        /\ \A i : RevAt(d, i) = events[c][i].rev /\ RevAt(d, i)' = events'[c][i].rev
        /\ \A i : i \in Removals(d) <=> /\ i \in AboutIn(events[c], d)
                                        /\ events[c][i].kind = "removed"
        /\ \A i : i \in Removals(d)' <=> /\ i \in AboutIn(events'[c], d)
                                         /\ events'[c][i].kind = "removed"
    BY DEF Changes, RevAt, Removals, Coming
  <1>6. \/ cache'[d] = cache[d] /\ shown'[d] = shown[d]
        \/ /\ e.kind = "changed" /\ e.doc = d
           /\ cache'[d] = e.rev /\ shown'[d] = e.rev
        \/ e.kind = "removed" /\ e.doc = d /\ cache'[d] = 0 /\ shown'[d] = shown[d]
    BY <1>2, <1>3 DEF Handle, TypeInv, TypeOK
  <1>7. e.kind = "changed" /\ e.doc = d => 1 \in Changes(d) /\ RevAt(d, 1) = e.rev
    BY <1>4, <1>5
  <1>8. e.kind = "removed" /\ e.doc = d => 1 \in Removals(d)
    BY <1>4, <1>5
  <1> QED
    BY <1>4, <1>5, <1>6, <1>7, <1>8

\* The cache takes the place of the first event, and a removal its entry.
LEMMA HandleFinal ==
    ASSUME TypeInv, OrderInv, [Next]_vars, NEW c \in Colls, Handle(c), NEW d \in Docs, Final(d)
    PROVE  Final(d)'
  <1>1. CASE c # Home[d]
    <2>1. events'[Home[d]] = events[Home[d]]
      BY <1>1, Homes, HandleTakes DEF TypeInv
    <2>2. cache'[d] = cache[d] /\ shown'[d] = shown[d]
      BY <1>1, HandleElsewhere
    <2>3. Drops(d)' = Drops(d)
      BY <2>1, <2>2 DEF Drops, Removals, Coming
    <2> QED
      BY <2>1, <2>2, <2>3, ChannelKept, FinalKept
  <1>2. CASE c = Home[d]
    <2>1. /\ \A j \in Changes(d)' : /\ j \in Nat \ {0} /\ j + 1 \in Changes(d)
                                    /\ RevAt(d, j)' = RevAt(d, j + 1)
          /\ \A g \in Removals(d)' : g \in Nat \ {0} /\ g + 1 \in Removals(d)
          /\ \/ cache'[d] = cache[d] /\ shown'[d] = shown[d]
             \/ /\ 1 \in Changes(d)
                /\ cache'[d] = RevAt(d, 1) /\ shown'[d] = RevAt(d, 1)
             \/ 1 \in Removals(d) /\ cache'[d] = 0 /\ shown'[d] = shown[d]
      BY <1>2, HandlePlaces
    <2>2. spec' = spec /\ rev' = rev /\ UNCHANGED <<Absent(d), RevOf(d), Latest(d)>>
      BY DEF Handle, dbVars, Absent, RevOf, Latest
    <2>3. /\ \A i \in Places(d) : HeldAt(d, i) \in Nat /\ HeldAt(d, i) <= Latest(d) /\ i \in Nat
          /\ \A i : i \in Places(d) <=> i \in Changes(d) \/ i = 0
          /\ \A i : i \in Places(d)' <=> i \in Changes(d)' \/ i = 0
          /\ HeldAt(d, 0)' = shown'[d] /\ HeldAt(d, 0) = shown[d]
          /\ \A j \in Changes(d) : HeldAt(d, j) = RevAt(d, j)
          /\ \A j : j # 0 => HeldAt(d, j)' = RevAt(d, j)'
      BY PlacesInOrder DEF Places, HeldAt
    <2>4. Ordered(d) /\ Latest(d) \in Nat /\ cache[d] \in Nat /\ shown[d] \in Nat
      BY LatestGrows DEF OrderInv, TypeInv, TypeOK
    <2>5. \A j \in Changes(d) : j \in Nat \ {0} /\ RevAt(d, j) \in Nat /\ shown[d] <= RevAt(d, j)
      BY RevAtType, PlacesInOrder DEF Final
    <2>6. \A i : i \in Drops(d) <=> i \in Removals(d) \/ (i = 0 /\ cache[d] = 0)
      BY DEF Drops
    <2>7. \A i : i \in Drops(d)' <=> i \in Removals(d)' \/ (i = 0 /\ cache'[d] = 0)
      BY DEF Drops
    \* Where a place and a drop of the new channel were before the step.
    <2>8. ASSUME NEW i \in Places(d)'
          PROVE  \E o \in Places(d) : HeldAt(d, i)' = HeldAt(d, o) /\ o <= i + 1
      <3>1. CASE i = 0
        <4>1. CASE shown'[d] = shown[d]
          BY <2>3, <3>1, <4>1
        <4>2. CASE 1 \in Changes(d) /\ cache'[d] = RevAt(d, 1) /\ shown'[d] = RevAt(d, 1)
          BY <2>3, <3>1, <4>2
        <4> QED
          BY <2>1, <4>1, <4>2
      <3>2. CASE i # 0
        <4>1. i \in Changes(d)' /\ i \in Nat \ {0} /\ i + 1 \in Changes(d)
          BY <2>1, <2>3, <3>2
        <4> QED
          BY <2>1, <2>3, <3>2, <4>1
      <3> QED
        BY <3>1, <3>2
    <2>9. ASSUME NEW g \in Drops(d)'
          PROVE  /\ g \in Nat
                 /\ \/ g + 1 \in Drops(d)
                    \/ g = 0 /\ 0 \in Drops(d) /\ shown'[d] = shown[d]
      <3>1. CASE g \in Removals(d)'
        BY <2>1, <2>6, <3>1
      <3>2. CASE g = 0 /\ cache'[d] = 0
        <4>1. CASE 1 \in Removals(d)
          BY <2>6, <3>2, <4>1
        <4>2. CASE cache'[d] = cache[d] /\ shown'[d] = shown[d]
          BY <2>6, <3>2, <4>2
        <4>3. CASE 1 \in Changes(d) /\ cache'[d] = RevAt(d, 1)
          <5>1. RevAt(d, 1) = 0 /\ shown[d] = 0
            BY <2>4, <2>5, <3>2, <4>3
          <5>2. cache[d] = 0
            BY <5>1 DEF Final
          <5>3. HeldAt(d, 0) < RevAt(d, 1)
            <6>1. 0 \in Drops(d) /\ 0 \in Places(d) /\ 0 <= 0 /\ 0 < 1
              BY <2>3, <2>6, <5>2
            <6> QED
              BY <4>3, <6>1 DEF Final
          <5> QED
            BY <2>3, <5>1, <5>3
        <4> QED
          BY <2>1, <4>1, <4>2, <4>3
      <3> QED
        BY <2>7, <3>1, <3>2
    <2>10. ASSUME NEW g \in Drops(d)', NEW i \in Places(d)', i <= g
           PROVE  /\ ~Absent(d)' => HeldAt(d, i)' < RevOf(d)'
                  /\ \A j \in Changes(d)' : g < j => HeldAt(d, i)' < RevAt(d, j)'
      <3>1. g \in Nat /\ i \in Nat
        BY <2>1, <2>3, <2>9
      <3>2. CASE g + 1 \in Drops(d)
        <4>1. PICK o \in Places(d) : HeldAt(d, i)' = HeldAt(d, o) /\ o <= i + 1
          BY <2>8
        <4>2. o <= g + 1
          BY <2>3, <2>10, <3>1, <4>1
        <4>3. /\ ~Absent(d) => HeldAt(d, o) < RevOf(d)
              /\ \A j \in Changes(d) : g + 1 < j => HeldAt(d, o) < RevAt(d, j)
          BY <3>2, <4>1, <4>2 DEF Final
        <4>4. \A j \in Changes(d)' : g < j => g + 1 < j + 1
          BY <2>1, <3>1
        <4> QED
          BY <2>1, <2>2, <4>1, <4>3, <4>4
      <3>3. CASE g = 0 /\ 0 \in Drops(d) /\ shown'[d] = shown[d]
        <4>1. i = 0 /\ HeldAt(d, i)' = HeldAt(d, 0) /\ 0 \in Places(d) /\ 0 <= 0
          BY <2>3, <2>10, <3>1, <3>3
        <4>2. /\ ~Absent(d) => HeldAt(d, 0) < RevOf(d)
              /\ \A j \in Changes(d) : 0 < j => HeldAt(d, 0) < RevAt(d, j)
          BY <3>3, <4>1 DEF Final
        <4>3. \A j \in Changes(d)' : 0 < j + 1
          BY <2>1
        <4> QED
          BY <2>1, <2>2, <4>1, <4>2, <4>3
      <3> QED
        BY <2>9, <3>2, <3>3
    <2>11. /\ cache'[d] \in {0, shown'[d]} /\ shown'[d] <= Latest(d)'
           /\ \A j \in Changes(d)' : shown'[d] <= RevAt(d, j)'
      <3>1. CASE shown'[d] = shown[d]
        BY <2>1, <2>2, <2>5, <3>1 DEF Final
      <3>2. CASE 1 \in Changes(d) /\ cache'[d] = RevAt(d, 1) /\ shown'[d] = RevAt(d, 1)
        <4>1. RevAt(d, 1) <= Latest(d)
          BY <2>4, <3>2 DEF Ordered
        <4>2. \A j \in Changes(d)' : 1 <= j + 1
          BY <2>1
        <4>3. \A j \in Changes(d)' : RevAt(d, 1) <= RevAt(d, j + 1)
          BY <2>1, <2>4, <3>2, <4>2 DEF Ordered
        <4> QED
          BY <2>1, <2>2, <3>2, <4>1, <4>3
      <3> QED
        BY <2>1, <3>1, <3>2
    <2> QED
      BY <2>10, <2>11 DEF Final
  <1> QED
    BY <1>1, <1>2

LEMMA FinalStep ==
    ASSUME TypeInv, OrderInv, FinalInv, [Next]_vars
    PROVE  FinalInv'
  <1> SUFFICES ASSUME NEW d \in Docs
               PROVE  Final(d)'
    BY DEF FinalInv
  <1>1. Final(d)
    BY DEF FinalInv
  <1>2. CASE UNCHANGED <<events, cache, shown>>
    <2>1. Drops(d)' = Drops(d)
      BY <1>2 DEF Drops, Removals, Coming
    <2> QED
      BY <1>1, <1>2, <2>1, ChannelKept, FinalKept
  <1>3. ASSUME NEW n \in Docs, Notice(n)
        PROVE  Final(d)'
    BY <1>1, <1>3, NoticeFinal
  <1>4. ASSUME NEW c \in Colls, List(c) \/ Break(c) \/ Handle(c)
        PROVE  Final(d)'
    BY <1>1, <1>4, ListFinal, BreakFinal, HandleFinal
  <1>5. CASE Resign
    BY <1>5, ResignFinal
  <1>6. \/ UNCHANGED <<events, cache, shown>> \/ Resign
        \/ \E n \in Docs : Notice(n)
        \/ \E c \in Colls : List(c) \/ Break(c) \/ Handle(c)
    BY DEF Next, WriteSpec, DeleteSpec, Resync, Sync, Lead, StartControllers, vars, watchVars
  <1> QED
    BY <1>2, <1>3, <1>4, <1>5, <1>6

LEMMA FinalInvariant == Spec => []FinalInv
<1>1. Init => FinalInv
  <2> SUFFICES ASSUME Init, NEW d \in Docs
               PROVE  Final(d)
    BY DEF FinalInv
  <2>1. Coming(d) = {}
    <3>1. DOMAIN <<>> = {} /\ events[Home[d]] = <<>>
      BY Homes DEF Init
    <3> QED
      BY <3>1 DEF Coming, AboutIn
  <2>2. Changes(d) = {} /\ Absent(d) /\ cache[d] = 0 /\ shown[d] = 0 /\ Latest(d) = 0
    BY <2>1 DEF Init, Changes, Coming, Absent, Latest
  <2> QED
    BY <2>2 DEF Final
<1>2. TypeInv /\ OrderInv /\ FinalInv /\ [Next]_vars => FinalInv'
  BY FinalStep
<1> QED
  BY <1>1, <1>2, TypeInvariant, OrderInvariant, PTL DEF Spec

-----------------------------------------------------------------------------
(***************************************************************************)
(* What the controllers expect of the informers.                           *)
(***************************************************************************)
\* A key is queued only for a document this leader's cache has shown.
HeardInv == \A d \in queued : shown[d] # 0

\* A collection listed since the leader began is cached as it was then, or as it is.
SyncedInv ==
    /\ since <= rev
    /\ phase # "syncing" => since = 0
    /\ phase = "standby" => synced = {}
    /\ \A d \in Docs :
          Home[d] \in synced /\ ~Absent(d) /\ RevOf(d) <= since => cache[d] = RevOf(d)

\* What a List or an event does to the cache entry of a document: a later revision
\* than any before, or none once the document has moved on, or nothing.
LEMMA CacheMoves ==
    ASSUME TypeInv, OrderInv, NEW d \in Docs, Final(d),
           NEW c \in Colls, List(c) \/ Handle(c)
    PROVE  \/ cache'[d] > shown[d] /\ cache'[d] <= rev /\ shown'[d] = cache'[d]
           \/ cache'[d] = 0 /\ cache[d] # RevOf(d) /\ shown'[d] = shown[d]
           \/ cache'[d] = cache[d] /\ shown'[d] = shown[d]
  <1>0. /\ cache[d] \in Nat /\ shown[d] \in Nat /\ RevOf(d) \in Nat /\ rev \in Nat
        /\ Absent(d) => RevOf(d) = 0
        /\ ~Absent(d) => RevOf(d) # 0 /\ Latest(d) = RevOf(d)
        /\ Latest(d) <= rev /\ Latest(d) \in Nat
        /\ cache[d] \in {0, shown[d]} /\ shown[d] <= Latest(d)
    BY LatestGrows DEF TypeInv, TypeOK, OrderInv, Ordered, RevOf, Absent, Latest, Doc, Final
  <1>1. /\ HeldAt(d, 0) = shown[d] /\ 0 \in Places(d)
        /\ \A g : g \in Drops(d) <=> g \in Removals(d) \/ (g = 0 /\ cache[d] = 0)
    BY DEF HeldAt, Places, Drops
  <1>2. \A g \in Drops(d) : 0 <= g =>
            /\ ~Absent(d) => shown[d] < RevOf(d)
            /\ \A j \in Changes(d) : g < j => shown[d] < RevAt(d, j)
    BY <1>1 DEF Final
  <1>3. CASE List(c)
    <2>1. CASE c # Home[d]
      BY <1>3, <2>1 DEF List, Listed, DocsOf, TypeInv, TypeOK
    <2>2. CASE c = Home[d]
      <3>1. /\ cache'[d] = RevOf(d)
            /\ shown'[d] = IF Absent(d) THEN shown[d] ELSE RevOf(d)
        BY <1>3, <2>2 DEF List, Listed, DocsOf, TypeInv, TypeOK
      <3>2. CASE Absent(d)
        BY <1>0, <3>1, <3>2
      <3>3. CASE ~Absent(d) /\ cache[d] = 0
        <4>1. shown[d] < RevOf(d)
          BY <1>1, <1>2, <3>3
        <4> QED
          BY <1>0, <3>1, <3>3, <4>1
      <3>4. CASE ~Absent(d) /\ cache[d] # 0
        BY <1>0, <3>1, <3>4
      <3> QED
        BY <3>2, <3>3, <3>4
    <2> QED
      BY <2>1, <2>2
  <1>4. CASE Handle(c)
    <2>1. CASE c # Home[d]
      BY <1>4, <2>1, HandleElsewhere
    <2>2. CASE c = Home[d]
      <3>1. \/ cache'[d] = cache[d] /\ shown'[d] = shown[d]
            \/ /\ 1 \in Changes(d)
               /\ cache'[d] = RevAt(d, 1) /\ shown'[d] = RevAt(d, 1)
            \/ 1 \in Removals(d) /\ cache'[d] = 0 /\ shown'[d] = shown[d]
        BY <1>4, <2>2, HandlePlaces
      <3>2. CASE 1 \in Changes(d) /\ cache'[d] = RevAt(d, 1) /\ shown'[d] = RevAt(d, 1)
        <4>1. /\ RevAt(d, 1) \in Nat /\ RevAt(d, 1) <= Latest(d)
              /\ shown[d] <= RevAt(d, 1)
          BY <3>2, RevAtType DEF OrderInv, Ordered, Final
        <4>2. CASE cache[d] = 0
          <5>1. shown[d] < RevAt(d, 1)
            BY <1>1, <1>2, <3>2, <4>2
          <5> QED
            BY <1>0, <3>2, <4>1, <5>1
        <4>3. CASE cache[d] # 0
          BY <1>0, <3>2, <4>1, <4>3
        <4> QED
          BY <4>2, <4>3
      <3>3. CASE 1 \in Removals(d) /\ cache'[d] = 0 /\ shown'[d] = shown[d]
        <4>1. ~Absent(d) => shown[d] < RevOf(d)
          BY <1>1, <1>2, <3>3
        <4> QED
          BY <1>0, <3>3, <4>1
      <3> QED
        BY <3>1, <3>2, <3>3
    <2> QED
      BY <2>1, <2>2
  <1> QED
    BY <1>3, <1>4

\* Once shown, a document stays shown to this leader.
LEMMA ShownStays ==
    ASSUME TypeInv, OrderInv, FinalInv, NEW d \in Docs, shown[d] # 0,
           NEW c \in Colls, List(c) \/ Handle(c)
    PROVE  shown'[d] # 0
  <1>1. shown[d] \in Nat /\ Final(d)
    BY DEF TypeInv, TypeOK, FinalInv
  <1> QED
    BY <1>1, CacheMoves

LEMMA HeardStep ==
    ASSUME TypeInv, OrderInv, FinalInv, HeardInv, [Next]_vars
    PROVE  HeardInv'
  <1>1. ASSUME NEW c \in Colls, List(c), NEW d \in queued'
        PROVE  shown'[d] # 0
    <2>1. CASE d \in queued
      BY <1>1, <2>1, ShownStays DEF HeardInv, TypeInv, TypeOK
    <2>2. CASE d \in DocsOf(c) /\ ~Absent(d)
      BY <1>1, <2>2 DEF List, Listed, DocsOf, TypeInv, TypeOK, RevOf, Absent, Doc
    <2>3. CASE d \in DocsOf(c) /\ cache[d] # 0
      <3>1. d \in Docs /\ shown[d] # 0
        BY <2>3 DEF DocsOf, FinalInv, Final
      <3> QED
        BY <1>1, <3>1, ShownStays
    <2> QED
      BY <1>1, <2>1, <2>2, <2>3 DEF List, Listed
  <1>2. ASSUME NEW c \in Colls, Handle(c), NEW d \in queued'
        PROVE  shown'[d] # 0
    <2> DEFINE e == Head(events[c])
    <2>1. e \in Events
      BY <1>2, HandleTakes, TakeOne DEF TypeInv
    <2>2. e.kind # "error" => e.doc \in Docs
      BY <2>1, EventFields
    <2>3. CASE d \in queued
      BY <1>2, <2>3, ShownStays DEF HeardInv, TypeInv, TypeOK
    <2>4. CASE d \notin queued
      <3>1. d \in Docs /\ (cache[d] # 0 \/ (cache'[d] = e.rev /\ e.kind = "changed"))
        BY <1>2, <2>2, <2>4 DEF Handle, MayQueue, TypeInv, TypeOK
      <3>2. Final(d) /\ cache[d] \in {0, shown[d]} /\ shown[d] \in Nat
        BY <3>1 DEF FinalInv, Final, TypeInv, TypeOK
      <3>3. CASE shown[d] # 0
        BY <1>2, <3>1, <3>3, ShownStays
      <3>4. CASE shown[d] = 0
        <4>1. cache[d] = 0 /\ e.kind = "changed" /\ e.doc = d
          BY <1>2, <2>4, <3>1, <3>2, <3>4 DEF Handle, MayQueue
        <4>2. Home[d] = c /\ e = events[c][1]
          <5>1. events[c] \in Seq(Events) /\ events[c] # <<>>
            BY <1>2, HandleTakes DEF TypeInv
          <5>2. e = events[c][1] /\ 1 \in DOMAIN events[c]
            BY <5>1, TakeOne
          <5> QED
            BY <4>1, <5>2 DEF TypeInv, ChannelInv
        <4>3. 1 \in Changes(d) /\ RevAt(d, 1) = e.rev
          <5>1. 1 \in DOMAIN events[c]
            BY <1>2, HandleTakes, TakeOne DEF TypeInv
          <5> QED
            BY <4>1, <4>2, <5>1 DEF Changes, AboutIn, RevAt
        <4>4. shown'[d] = e.rev
          BY <1>2, <3>1, <4>1 DEF Handle, TypeInv, TypeOK
        <4>5. 0 \in Drops(d) /\ 0 \in Places(d) /\ HeldAt(d, 0) = 0
          BY <3>4, <4>1 DEF Drops, Places, HeldAt
        <4>6. 0 < RevAt(d, 1)
          BY <3>2, <4>3, <4>5 DEF Final
        <4> QED
          BY <4>3, <4>4, <4>6
      <3> QED
        BY <3>3, <3>4
    <2> QED
      BY <2>3, <2>4
  <1>3. ASSUME NEW d \in Docs, Resync(d)
        PROVE  HeardInv'
    BY <1>3 DEF Resync, Resyncs, HeardInv, FinalInv, Final
  <1>4. CASE Resign
    BY <1>4 DEF Resign, HeardInv
  <1>5. CASE queued' \subseteq queued /\ shown' = shown
    BY <1>5 DEF HeardInv
  <1>6. \/ queued' \subseteq queued /\ shown' = shown
        \/ Resign
        \/ \E d \in Docs : Resync(d)
        \/ \E c \in Colls : List(c) \/ Handle(c)
    BY DEF Next, WriteSpec, DeleteSpec, Notice, Sync, Break, Lead, StartControllers, vars
  <1> QED
    BY <1>1, <1>2, <1>3, <1>4, <1>5, <1>6 DEF HeardInv

LEMMA HeardInvariant == Spec => []HeardInv
<1>1. Init => HeardInv
  BY DEF Init, HeardInv
<1>2. TypeInv /\ OrderInv /\ FinalInv /\ HeardInv /\ [Next]_vars => HeardInv'
  BY HeardStep
<1> QED
  BY <1>1, <1>2, TypeInvariant, OrderInvariant, FinalInvariant, PTL DEF Spec

\* A document cached as it was when the leader began is not taken from the cache.
LEMMA CurrentStays ==
    ASSUME TypeInv, OrderInv, NEW d \in Docs, Final(d), ~Absent(d), cache[d] = RevOf(d),
           NEW c \in Colls, List(c) \/ Handle(c)
    PROVE  cache'[d] = RevOf(d)
  <1>1. /\ RevOf(d) \in Nat \ {0} /\ Latest(d) = RevOf(d)
        /\ cache[d] = shown[d] /\ shown[d] = RevOf(d)
    BY DEF TypeInv, TypeOK, RevOf, Absent, Latest, Doc, Final
  <1>2. CASE List(c)
    BY <1>2 DEF List, Listed, DocsOf, TypeInv, TypeOK
  <1>3. CASE Handle(c) /\ c # Home[d]
    BY <1>3, HandleElsewhere
  <1>4. CASE Handle(c) /\ c = Home[d]
    <2>1. \/ cache'[d] = cache[d]
          \/ 1 \in Changes(d) /\ cache'[d] = RevAt(d, 1)
          \/ 1 \in Removals(d)
      BY <1>4, HandlePlaces
    <2>2. CASE 1 \in Changes(d) /\ cache'[d] = RevAt(d, 1)
      <3>1. RevAt(d, 1) \in Nat /\ RevAt(d, 1) <= Latest(d) /\ cache[d] <= RevAt(d, 1)
        BY <2>2, RevAtType DEF OrderInv, Ordered
      <3> QED
        BY <1>1, <2>2, <3>1
    <2>3. CASE 1 \in Removals(d)
      <3>1. 1 \in Drops(d) /\ 0 \in Places(d) /\ 0 <= 1 /\ HeldAt(d, 0) = shown[d]
        BY <2>3 DEF Drops, Places, HeldAt
      <3>2. shown[d] < RevOf(d)
        BY <3>1 DEF Final
      <3> QED
        BY <1>1, <3>2
    <2> QED
      BY <2>1, <2>2, <2>3
  <1> QED
    BY <1>2, <1>3, <1>4

LEMMA SyncedStep ==
    ASSUME TypeInv, OrderInv, FinalInv, SyncedInv, [Next]_vars
    PROVE  SyncedInv'
  <1>1. \A d \in Docs : ~Absent(d) => RevOf(d) \in Nat \ {0}
    BY DEF TypeInv, TypeOK, RevOf, Absent, Doc
  <1>2. since \in Nat /\ rev \in Nat
    BY DEF TypeInv, TypeOK
  <1>3. CASE UNCHANGED <<rev, spec, phase, since, synced, cache>>
    BY <1>3 DEF SyncedInv, Absent, RevOf
  <1>4. ASSUME NEW e \in Docs, NEW good \in BOOLEAN, WriteSpec(e, good)
        PROVE  SyncedInv'
    <2>1. rev' = rev + 1 /\ UNCHANGED <<phase, since, synced, cache>>
      BY <1>4 DEF WriteSpec, watchVars
    <2>2. ASSUME NEW d \in Docs, RevOf(d)' <= since, ~Absent(d)'
          PROVE  ~Absent(d) /\ RevOf(d)' = RevOf(d)
      <3>1. CASE d = e
        <4>1. RevOf(d)' = rev + 1
          BY <1>4, <2>2, <3>1 DEF WriteSpec, TypeInv, TypeOK, RevOf
        <4> QED
          BY <1>2, <2>2, <4>1 DEF SyncedInv
      <3>2. CASE d # e
        BY <1>4, <2>2, <3>2 DEF WriteSpec, TypeInv, TypeOK, RevOf, Absent
      <3> QED
        BY <3>1, <3>2
    <2>3. since' <= rev'
      BY <1>2, <2>1 DEF SyncedInv
    <2> QED
      BY <2>1, <2>2, <2>3 DEF SyncedInv
  <1>5. ASSUME NEW e \in Docs, DeleteSpec(e)
        PROVE  SyncedInv'
    BY <1>5 DEF DeleteSpec, watchVars, SyncedInv, TypeInv, TypeOK, RevOf, Absent
  <1>6. ASSUME NEW c \in Colls, List(c)
        PROVE  SyncedInv'
    <2>1. UNCHANGED <<rev, spec, phase, since>> /\ synced' = synced \cup {c}
      BY <1>6 DEF List, dbVars
    <2>2. phase # "standby"
      BY <1>6 DEF List, TypeInv
    <2>3. ASSUME NEW d \in Docs, Home[d] = c
          PROVE  cache'[d] = RevOf(d)
      BY <1>6, <2>3 DEF List, Listed, DocsOf
    <2>4. ASSUME NEW d \in Docs, Home[d] # c
          PROVE  cache'[d] = cache[d]
      BY <1>6, <2>4 DEF List, Listed, DocsOf
    <2> QED
      BY <2>1, <2>2, <2>3, <2>4 DEF SyncedInv, Absent, RevOf
  <1>7. ASSUME NEW c \in Colls, Handle(c)
        PROVE  SyncedInv'
    <2>1. UNCHANGED <<rev, spec, phase, since, synced>>
      BY <1>7 DEF Handle, dbVars
    <2>2. ASSUME NEW d \in Docs, ~Absent(d), cache[d] = RevOf(d)
          PROVE  cache'[d] = RevOf(d)
      BY <1>7, <2>2, CurrentStays DEF FinalInv
    <2> QED
      BY <2>1, <2>2 DEF SyncedInv, Absent, RevOf
  <1>8. CASE Lead
    BY <1>2, <1>8 DEF Lead, dbVars, SyncedInv
  <1>9. CASE StartControllers
    BY <1>1, <1>2, <1>9 DEF StartControllers, dbVars, watchVars, SyncedInv, Absent, RevOf
  <1>10. CASE Resign
    BY <1>2, <1>10 DEF Resign, dbVars, SyncedInv
  <1>11. \/ UNCHANGED <<rev, spec, phase, since, synced, cache>>
         \/ Lead \/ StartControllers \/ Resign
         \/ \E e \in Docs : (\E good \in BOOLEAN : WriteSpec(e, good)) \/ DeleteSpec(e)
         \/ \E c \in Colls : List(c) \/ Handle(c)
    BY DEF Next, Notice, Resync, Sync, Break, vars, dbVars, watchVars
  <1> QED
    BY <1>3, <1>4, <1>5, <1>6, <1>7, <1>8, <1>9, <1>10, <1>11

LEMMA SyncedInvariant == Spec => []SyncedInv
<1>1. Init => SyncedInv
  BY DEF Init, SyncedInv
<1>2. TypeInv /\ OrderInv /\ FinalInv /\ SyncedInv /\ [Next]_vars => SyncedInv'
  BY SyncedStep
<1> QED
  BY <1>1, <1>2, TypeInvariant, OrderInvariant, FinalInvariant, PTL DEF Spec

\* A step of the informers and the leader is one that the controllers may expect.
LEMMA DeliveryStep ==
    ASSUME TypeInv, OrderInv, FinalInv, HeardInv, SyncedInv, [Next]_vars
    PROVE  [Delivery!Next]_(Delivery!vars)
<1> USE DEF Delivery!Next, Delivery!vars
<1>1. ASSUME NEW d \in Docs, NEW good \in BOOLEAN, WriteSpec(d, good)
      PROVE  [Delivery!Next]_(Delivery!vars)
  <2>1. Delivery!Write(d, good)
    BY <1>1 DEF WriteSpec, Delivery!Write
  <2> QED
    BY <2>1
<1>2. ASSUME NEW d \in Docs, DeleteSpec(d)
      PROVE  [Delivery!Next]_(Delivery!vars)
  <2>1. Delivery!Delete(d)
    BY <1>2 DEF DeleteSpec, Delivery!Delete, Absent, Delivery!Absent
  <2> QED
    BY <2>1
<1>3. ASSUME NEW c \in Colls, List(c) \/ Handle(c)
      PROVE  [Delivery!Next]_(Delivery!vars)
  <2>1. ASSUME NEW d \in Docs
        PROVE  Delivery!Learn(d) \/ Delivery!Drop(d) \/ Delivery!Keep(d)
    <3>1. Final(d) /\ Delivery!RevOf(d) = RevOf(d)
      BY DEF FinalInv, RevOf, Absent, Delivery!RevOf, Delivery!Absent
    <3>2. \/ cache'[d] > shown[d] /\ cache'[d] <= rev /\ shown'[d] = cache'[d]
          \/ cache'[d] = 0 /\ cache[d] # RevOf(d) /\ shown'[d] = shown[d]
          \/ cache'[d] = cache[d] /\ shown'[d] = shown[d]
      BY <1>3, <3>1, CacheMoves
    <3> QED
      BY <3>1, <3>2 DEF Delivery!Learn, Delivery!Drop, Delivery!Keep
  <2>2. phase # "standby"
    BY <1>3 DEF List, Handle, TypeInv
  <2>3. UNCHANGED <<rev, spec, phase, since, acted>>
    BY <1>3 DEF List, Handle, dbVars
  <2>4. Delivery!Hear
    BY <2>1, <2>2, <2>3 DEF Delivery!Hear
  <2> QED
    BY <2>4
<1>4. CASE StartControllers
  <2>1. \A d \in Docs : ~Absent(d) /\ RevOf(d) <= since => cache[d] = RevOf(d)
    BY <1>4, Homes DEF StartControllers, AllSynced, SyncedInv
  <2>2. Delivery!UpToDate
    BY <2>1 DEF Delivery!UpToDate, RevOf, Absent, Delivery!RevOf, Delivery!Absent
  <2>3. Delivery!Start
    BY <1>4, <2>2 DEF StartControllers, dbVars, Delivery!Start
  <2> QED
    BY <2>3
<1>5. ASSUME NEW d \in Docs, Sync(d)
      PROVE  [Delivery!Next]_(Delivery!vars)
  <2>1. shown[d] # 0
    BY <1>5 DEF Sync, HeardInv
  <2>2. Delivery!Absent(d) \/ Delivery!Decodes(d)
    BY <1>5 DEF Sync, Bad, Decodes, Absent, Delivery!Decodes, Delivery!Absent
  <2>3. /\ acted' = [acted EXCEPT ![d] = Delivery!RevOf(d)]
        /\ phase = "running" /\ UNCHANGED <<rev, spec, phase, since, cache, shown>>
    BY <1>5 DEF Sync, dbVars, RevOf, Absent, Delivery!RevOf, Delivery!Absent
  <2>4. Delivery!Act(d)
    BY <2>1, <2>2, <2>3 DEF Delivery!Act
  <2> QED
    BY <2>4
<1>6. CASE Lead
  <2>1. Delivery!Lead
    BY <1>6 DEF Lead, dbVars, Delivery!Lead
  <2> QED
    BY <2>1
<1>7. CASE Resign
  <2>1. Delivery!Stop
    BY <1>7 DEF Resign, dbVars, Delivery!Stop
  <2> QED
    BY <2>1
<1>8. CASE UNCHANGED <<rev, spec, phase, since, cache, shown, acted>>
  BY <1>8
<1>9. \/ Lead \/ StartControllers \/ Resign
      \/ UNCHANGED <<rev, spec, phase, since, cache, shown, acted>>
      \/ \E d \in Docs :
            (\E good \in BOOLEAN : WriteSpec(d, good)) \/ DeleteSpec(d) \/ Sync(d)
      \/ \E c \in Colls : List(c) \/ Handle(c)
  BY DEF Next, Notice, Resync, Break, vars, dbVars
<1> QED
  BY <1>1, <1>2, <1>3, <1>4, <1>5, <1>6, <1>7, <1>8, <1>9

\* The informers and the leader implement what the controllers expect of them: every
\* step is one that SpecDelivery allows, under the identity on the database, the leader
\* and the caches.  The controllers start under caches no older than their leader; no
\* cache goes back to a revision it has held, be it overtaken or removed since; none
\* drops what is still there; and nothing is acted on that no cache has shown.
THEOREM ImplementsDelivery == Spec => DeliversInOrder
<1>1. Init => Delivery!Init
  BY DEF Init, Delivery!Init
<1>2. /\ TypeInv /\ OrderInv /\ FinalInv /\ HeardInv /\ SyncedInv
      /\ [Next]_vars
      => [Delivery!Next]_(Delivery!vars)
  BY DeliveryStep
<1> QED
  BY <1>1, <1>2, TypeInvariant, OrderInvariant, FinalInvariant, HeardInvariant,
     SyncedInvariant, PTL DEF Spec, DeliversInOrder, Delivery!Spec
=============================================================================
