------------------------- MODULE HostServicesProofs -------------------------
(***************************************************************************)
(* Proofs about the services of the host that share no variable, for any   *)
(* sizes: the output buffers that carry a reply are counted by those who   *)
(* hold them, for any number of buffers, clients and replies; and the heap *)
(* keeps what was assigned to its handles, for any tasks and slots.        *)
(*                                                                         *)
(* A buffer is held by a client, by the stored reply, by USB, or by Main   *)
(* on its way to one of the last two.  Each holder has some chains, known  *)
(* by their heads; what the actions do to the buffers and to the heads of  *)
(* one holder or two is said by lemmas about any buffers and heads, and    *)
(* the actions are then traced back to them.                               *)
(*                                                                         *)
(* The heap is seen as counts of references and contents of slots, which   *)
(* a collection does not change; the handles and elements that name a slot *)
(* are at most its count, so that none of them outlives what it names.     *)
(***************************************************************************)
EXTENDS
  MCHostServices, FiniteSetTheorems, NaturalsInduction, SequenceTheorems, TLAPS

-----------------------------------------------------------------------------
(* Chains.                                                                 *)

Bufs == 1 .. Buffers

\* The buffers of a chain, among any buffers.
ChainIn(buf, head) ==
  {b \in Bufs :
     \A S \in SUBSET Bufs :
       {head} \cup {buf[a].next : a \in S} \subseteq S \cup {Null} => b \in S}

ReachIn(buf, H) == UNION {ChainIn(buf, h) : h \in H}

Linked(buf) == \A b \in Bufs : buf[b].next \in Bufs \cup {Null}
NoLoop(buf) == \A b \in Bufs : b \notin ChainIn(buf, buf[b].next)
Apart(buf, H) == \A g, h \in H : g # h => ChainIn(buf, g) \cap ChainIn(buf, h) = {}

\* Closed sets.
LEMMA ChainLeast ==
  ASSUME NEW buf, NEW h, NEW S \in SUBSET Bufs, h \in S \cup {Null},
         \A a \in S : buf[a].next \in S \cup {Null}
  PROVE  ChainIn(buf, h) \subseteq S
<1>1. {h} \cup {buf[a].next : a \in S} \subseteq S \cup {Null}
  OBVIOUS
<1>2. ASSUME NEW b \in ChainIn(buf, h) PROVE b \in S
  BY <1>1, <1>2, Zenon DEF ChainIn
<1> QED
  BY <1>2

\* The null pointer is no buffer.
LEMMA NullIsNone == Null \notin Bufs /\ Null = 0
BY BuffersAssumption DEF Null, Bufs

LEMMA ChainBasics ==
  ASSUME NEW buf, Linked(buf), NEW h
  PROVE  /\ ChainIn(buf, h) \subseteq Bufs
         /\ h \in Bufs => h \in ChainIn(buf, h)
         /\ ChainIn(buf, Null) = {}
         /\ \A a \in ChainIn(buf, h) : buf[a].next \in ChainIn(buf, h) \cup {Null}
<1>1. ChainIn(buf, h) \subseteq Bufs
  BY DEF ChainIn
<1>2. ASSUME h \in Bufs PROVE h \in ChainIn(buf, h)
  BY <1>2, NullIsNone DEF ChainIn
<1>3. ChainIn(buf, Null) = {}
  <2> DEFINE E == {}
  <2>1. E \in SUBSET Bufs /\ Null \in E \cup {Null} /\ \A a \in E : buf[a].next \in E \cup {Null}
    OBVIOUS
  <2>2. \A b : b \notin E
    OBVIOUS
  <2> HIDE DEF E
  <2>3. ChainIn(buf, Null) \subseteq E
    BY <2>1, ChainLeast
  <2> QED
    BY <2>2, <2>3
<1>4. ASSUME NEW a \in ChainIn(buf, h) PROVE buf[a].next \in ChainIn(buf, h) \cup {Null}
  <2>1. a \in Bufs /\ buf[a].next \in Bufs \cup {Null}
    BY <1>1 DEF Linked
  <2>2. SUFFICES ASSUME buf[a].next # Null,
                        NEW S \in SUBSET Bufs,
                        {h} \cup {buf[x].next : x \in S} \subseteq S \cup {Null}
                 PROVE  buf[a].next \in S
    BY <2>1, Zenon DEF ChainIn
  <2>3. a \in S
    BY <2>2, Zenon DEF ChainIn
  <2>4. buf[a].next \in S \cup {Null}
    BY <2>2, <2>3
  <2> QED
    BY <2>2, <2>4
<1> QED
  BY <1>1, <1>2, <1>3, <1>4

\* A chain within a set with all that follows it.
LEMMA ChainWithin ==
  ASSUME NEW buf, Linked(buf), NEW h, NEW x \in ChainIn(buf, h)
  PROVE  ChainIn(buf, x) \subseteq ChainIn(buf, h)
<1>1. /\ ChainIn(buf, h) \in SUBSET Bufs
      /\ \A a \in ChainIn(buf, h) : buf[a].next \in ChainIn(buf, h) \cup {Null}
  BY ChainBasics
<1> QED
  BY <1>1, ChainLeast

\* The first buffer of a chain and the others.
LEMMA ChainSplits ==
  ASSUME NEW buf, Linked(buf), NEW h \in Bufs
  PROVE  ChainIn(buf, h) = {h} \cup ChainIn(buf, buf[h].next)
<1> DEFINE n == buf[h].next
           S == {h} \cup ChainIn(buf, n)
<1>1. n \in Bufs \cup {Null}
  BY DEF Linked
<1>2. /\ ChainIn(buf, n) \subseteq Bufs
      /\ n \in Bufs => n \in ChainIn(buf, n)
      /\ \A a \in ChainIn(buf, n) : buf[a].next \in ChainIn(buf, n) \cup {Null}
  BY ChainBasics
<1>3. /\ h \in ChainIn(buf, h) /\ n \in ChainIn(buf, h) \cup {Null}
      /\ ChainIn(buf, Null) = {}
  BY ChainBasics
<1>4. ChainIn(buf, h) \subseteq S
  <2>1. S \in SUBSET Bufs /\ h \in S \cup {Null}
    BY <1>2
  <2>2. \A a \in S : buf[a].next \in S \cup {Null}
    BY <1>1, <1>2
  <2> HIDE DEF S
  <2> QED
    BY <2>1, <2>2, ChainLeast
<1>5. ChainIn(buf, n) \subseteq ChainIn(buf, h)
  BY <1>3, ChainWithin
<1> QED
  BY <1>3, <1>4, <1>5

\* Links that stay make chains that stay.
LEMMA ChainKept ==
  ASSUME NEW buf, NEW buf2, Linked(buf), Linked(buf2), NEW h \in Bufs \cup {Null},
         \A b \in ChainIn(buf, h) : buf2[b].next = buf[b].next
  PROVE  ChainIn(buf2, h) = ChainIn(buf, h)
<1> DEFINE C == ChainIn(buf, h)
           D == ChainIn(buf2, h)
<1>1. /\ C \in SUBSET Bufs /\ h \in C \cup {Null}
      /\ \A a \in C : buf[a].next \in C \cup {Null}
  BY ChainBasics
<1>2. /\ D \in SUBSET Bufs /\ h \in D \cup {Null}
      /\ \A a \in D : buf2[a].next \in D \cup {Null}
  BY ChainBasics
<1>3. D \subseteq C
  BY <1>1, ChainLeast
<1>4. \A a \in D : buf[a].next \in D \cup {Null}
  BY <1>2, <1>3
<1>5. C \subseteq D
  BY <1>2, <1>4, ChainLeast
<1> QED
  BY <1>3, <1>5

\* Links that are cut, at most, make chains that shrink.
LEMMA ChainShrinks ==
  ASSUME NEW buf, NEW buf2, Linked(buf), NEW h \in Bufs \cup {Null},
         \A b \in Bufs : buf2[b].next \in {buf[b].next, Null}
  PROVE  ChainIn(buf2, h) \subseteq ChainIn(buf, h)
<1> DEFINE C == ChainIn(buf, h)
<1>1. /\ C \in SUBSET Bufs /\ h \in C \cup {Null}
      /\ \A a \in C : buf[a].next \in C \cup {Null}
  BY ChainBasics
<1>2. \A a \in C : buf2[a].next \in C \cup {Null}
  BY <1>1
<1> QED
  BY <1>1, <1>2, ChainLeast

LEMMA CutsMakeNoLoop ==
  ASSUME NEW buf, NEW buf2, Linked(buf), NoLoop(buf),
         \A b \in Bufs : buf2[b].next \in {buf[b].next, Null}
  PROVE  NoLoop(buf2)
<1> SUFFICES ASSUME NEW b \in Bufs PROVE b \notin ChainIn(buf2, buf2[b].next)
  BY DEF NoLoop
<1>1. CASE buf2[b].next = Null
  <2>1. Linked(buf2)
    BY DEF Linked
  <2>2. ChainIn(buf2, Null) = {}
    BY <2>1, ChainBasics
  <2> QED
    BY <1>1, <2>2
<1>2. CASE buf2[b].next = buf[b].next
  <2>1. buf[b].next \in Bufs \cup {Null}
    BY DEF Linked
  <2>2. ChainIn(buf2, buf[b].next) \subseteq ChainIn(buf, buf[b].next)
    BY <2>1, ChainShrinks
  <2> QED
    BY <1>2, <2>2 DEF NoLoop
<1> QED
  BY <1>1, <1>2

\* A buffer m without a follower is put behind one, l, that had none.
IsLonger(buf, buf2, l, m) ==
  /\ l \in Bufs /\ m \in Bufs /\ l # m
  /\ buf[l].next = Null /\ buf[m].next = Null
  /\ buf2[l].next = m
  /\ \A b \in Bufs \ {l} : buf2[b].next = buf[b].next

LEMMA ChainGrows ==
  ASSUME NEW buf, NEW buf2, Linked(buf), Linked(buf2), NEW l, NEW m,
         IsLonger(buf, buf2, l, m), NEW h \in Bufs \cup {Null}
  PROVE  ChainIn(buf2, h) = IF l \in ChainIn(buf, h) THEN ChainIn(buf, h) \cup {m}
                                                     ELSE ChainIn(buf, h)
<1> DEFINE C == ChainIn(buf, h)
           D == ChainIn(buf2, h)
<1>1. /\ C \in SUBSET Bufs /\ h \in C \cup {Null}
      /\ \A a \in C : buf[a].next \in C \cup {Null}
  BY ChainBasics
<1>2. /\ D \in SUBSET Bufs /\ h \in D \cup {Null}
      /\ \A a \in D : buf2[a].next \in D \cup {Null}
  BY ChainBasics
<1>3. CASE l \in C
  <2> DEFINE S == C \cup {m}
  <2>1. S \in SUBSET Bufs /\ h \in S \cup {Null}
    BY <1>1 DEF IsLonger
  <2>2. \A a \in S : buf2[a].next \in S \cup {Null}
    BY <1>1 DEF IsLonger
  <2>3. D \subseteq S
    <3> HIDE DEF S
    <3> QED
      BY <2>1, <2>2, ChainLeast
  <2>4. \A a \in D : buf[a].next \in D \cup {Null}
    BY <1>2 DEF IsLonger
  <2>5. C \subseteq D
    BY <1>2, <2>4, ChainLeast
  <2>6. m \in D
    BY <1>2, <1>3, <2>5, NullIsNone DEF IsLonger
  <2> QED
    BY <1>3, <2>3, <2>5, <2>6
<1>4. CASE l \notin C
  <2>1. \A b \in C : buf2[b].next = buf[b].next
    BY <1>1, <1>4 DEF IsLonger
  <2>2. D = C
    BY <2>1, ChainKept
  <2> QED
    BY <1>4, <2>2
<1> QED
  BY <1>3, <1>4

LEMMA GrowthMakesNoLoop ==
  ASSUME NEW buf, NEW buf2, Linked(buf), Linked(buf2), NoLoop(buf), NEW l, NEW m,
         IsLonger(buf, buf2, l, m), \A b \in Bufs : buf[b].next # m
  PROVE  NoLoop(buf2)
<1> SUFFICES ASSUME NEW b \in Bufs PROVE b \notin ChainIn(buf2, buf2[b].next)
  BY DEF NoLoop
<1>0. l \in Bufs /\ m \in Bufs /\ l # m /\ buf2[l].next = m /\ buf[m].next = Null
      /\ buf2[m].next = Null
  BY DEF IsLonger
<1>1. CASE b = l
  <2>1. ChainIn(buf, m) = {m} \cup ChainIn(buf, Null) /\ ChainIn(buf, Null) = {}
    BY <1>0, ChainSplits, ChainBasics
  <2>2. ChainIn(buf2, m) = {m}
    BY <1>0, <2>1, ChainGrows
  <2> QED
    BY <1>0, <1>1, <2>2
<1>2. CASE b = m
  <2>1. ChainIn(buf2, Null) = {}
    BY ChainBasics
  <2> QED
    BY <1>0, <1>2, <2>1
<1>3. CASE b # l /\ b # m
  <2>1. buf2[b].next = buf[b].next /\ buf[b].next \in Bufs \cup {Null}
    BY <1>3 DEF IsLonger, Linked
  <2>2. ChainIn(buf2, buf[b].next) \subseteq ChainIn(buf, buf[b].next) \cup {m}
    BY <2>1, ChainGrows
  <2> QED
    BY <1>3, <2>1, <2>2 DEF NoLoop
<1> QED
  BY <1>1, <1>2, <1>3

-----------------------------------------------------------------------------
(* Holders.                                                                *)

\* Who may hold a buffer besides the clients: the stored reply, the output to
\* USB, and Main with a chain on its way to either.
Reply == CHOOSE x : x \notin Clients
Usb == CHOOSE x : x \notin Clients \cup {Reply}
ForReply == CHOOSE x : x \notin Clients \cup {Reply, Usb}
ForUsb == CHOOSE x : x \notin Clients \cup {Reply, Usb, ForReply}
Holders == Clients \cup {Reply, Usb, ForReply, ForUsb}

LEMMA HoldersDiffer ==
  /\ Reply \notin Clients /\ Usb \notin Clients /\ ForReply \notin Clients /\ ForUsb \notin Clients
  /\ Usb # Reply /\ ForReply # Reply /\ ForReply # Usb
  /\ ForUsb # Reply /\ ForUsb # Usb /\ ForUsb # ForReply
<1>1. Reply \notin Clients
  BY NoSetContainsEverything, Zenon DEF Reply
<1>2. Usb \notin Clients \cup {Reply}
  BY NoSetContainsEverything, Zenon DEF Usb
<1>3. ForReply \notin Clients \cup {Reply, Usb}
  BY NoSetContainsEverything, Zenon DEF ForReply
<1>4. ForUsb \notin Clients \cup {Reply, Usb, ForReply}
  BY NoSetContainsEverything, Zenon DEF ForUsb
<1> QED
  BY <1>1, <1>2, <1>3, <1>4

LEMMA HoldersFinite == IsFiniteSet(Holders)
<1>1. IsFiniteSet(Clients)
  BY BuffersAssumption
<1>2. IsFiniteSet(Clients \cup {Reply})
  BY <1>1, FS_AddElement
<1>3. IsFiniteSet(Clients \cup {Reply} \cup {Usb})
  BY <1>2, FS_AddElement
<1>4. IsFiniteSet(Clients \cup {Reply} \cup {Usb} \cup {ForReply})
  BY <1>3, FS_AddElement
<1>5. IsFiniteSet(Clients \cup {Reply} \cup {Usb} \cup {ForReply} \cup {ForUsb})
  BY <1>4, FS_AddElement
<1>6. Holders = Clients \cup {Reply} \cup {Usb} \cup {ForReply} \cup {ForUsb}
  BY DEF Holders
<1> QED
  BY <1>5, <1>6

\* Who holds a buffer, when each holder has chains with given heads.
HoldersOf(buf, hd, b) == {k \in Holders : b \in ReachIn(buf, hd[k])}

\* What the buffers say of those who hold them.
Accounted(buf, hd) ==
  \A b \in Bufs : /\ buf[b].references = Cardinality(HoldersOf(buf, hd, b))
                  /\ buf[b].free <=> HoldersOf(buf, hd, b) = {}
FreeIsEnd(buf) == \A b \in Bufs : buf[b].free => buf[b].next = Null

\* A buffer that was never shared is held once, with all that follows.
Alone(buf) ==
  \A b \in Bufs : ~buf[b].free /\ ~buf[b].isReferenced =>
    \A x \in ChainIn(buf, b) : buf[x].references = 1

\* What Main carries to a stack is not there yet.
Crossed(buf, hd) ==
  /\ ReachIn(buf, hd[Reply]) \cap ReachIn(buf, hd[ForReply]) = {}
  /\ ReachIn(buf, hd[Usb]) \cap ReachIn(buf, hd[ForUsb]) = {}

Sound(buf, hd) ==
  /\ Linked(buf) /\ NoLoop(buf) /\ FreeIsEnd(buf)
  /\ hd \in [Holders -> SUBSET Bufs]
  /\ Accounted(buf, hd)
  /\ \A k \in Holders : Apart(buf, hd[k])
  /\ Alone(buf)
  /\ Crossed(buf, hd)

LEMMA HoldersCount ==
  ASSUME NEW buf, NEW hd, NEW b
  PROVE  /\ IsFiniteSet(HoldersOf(buf, hd, b)) /\ Cardinality(HoldersOf(buf, hd, b)) \in Nat
         /\ Cardinality(HoldersOf(buf, hd, b)) = 0 <=> HoldersOf(buf, hd, b) = {}
<1>1. HoldersOf(buf, hd, b) \in SUBSET Holders
  BY DEF HoldersOf
<1>2. IsFiniteSet(HoldersOf(buf, hd, b))
  BY <1>1, HoldersFinite, FS_Subset
<1> QED
  BY <1>2, FS_CardinalityType, FS_EmptySet

\* A buffer with one reference has one holder, and two holders make more.
LEMMA OneHolder ==
  ASSUME NEW buf, NEW hd, NEW b \in Bufs, Accounted(buf, hd),
         NEW j \in HoldersOf(buf, hd, b), NEW k \in HoldersOf(buf, hd, b), j # k
  PROVE  buf[b].references > 1
<1> DEFINE H == HoldersOf(buf, hd, b)
<1>1. IsFiniteSet(H) /\ Cardinality(H) \in Nat /\ buf[b].references = Cardinality(H)
  BY HoldersCount DEF Accounted
<1>2. Cardinality(H) # 0
  BY HoldersCount
<1>3. Cardinality(H) # 1
  <2>1. SUFFICES ASSUME Cardinality(H) = 1 PROVE FALSE
    OBVIOUS
  <2>2. PICK x : H = {x}
    BY <1>1, <2>1, FS_Singleton
  <2> QED
    BY <2>2
<1> HIDE DEF H
<1> QED
  BY <1>1, <1>2, <1>3

LEMMA ReachBasics ==
  ASSUME NEW buf, Linked(buf), NEW H
  PROVE  /\ ReachIn(buf, H) \subseteq Bufs
         /\ H \cap Bufs \subseteq ReachIn(buf, H)
         /\ \A b \in ReachIn(buf, H) : ChainIn(buf, b) \subseteq ReachIn(buf, H)
<1>1. ReachIn(buf, H) \subseteq Bufs
  BY ChainBasics DEF ReachIn
<1>2. H \cap Bufs \subseteq ReachIn(buf, H)
  BY ChainBasics DEF ReachIn
<1>3. ASSUME NEW b \in ReachIn(buf, H) PROVE ChainIn(buf, b) \subseteq ReachIn(buf, H)
  <2>1. PICK h \in H : b \in ChainIn(buf, h)
    BY DEF ReachIn
  <2>2. ChainIn(buf, b) \subseteq ChainIn(buf, h)
    BY <2>1, ChainWithin
  <2> QED
    BY <2>2 DEF ReachIn
<1> QED
  BY <1>1, <1>2, <1>3

\* Those who hold a buffer hold what follows it.
LEMMA HeldOnwards ==
  ASSUME NEW buf, NEW hd, Linked(buf), NEW b, NEW x \in ChainIn(buf, b)
  PROVE  HoldersOf(buf, hd, b) \subseteq HoldersOf(buf, hd, x)
<1> SUFFICES ASSUME NEW k \in HoldersOf(buf, hd, b) PROVE k \in HoldersOf(buf, hd, x)
  OBVIOUS
<1>1. k \in Holders /\ b \in ReachIn(buf, hd[k])
  BY DEF HoldersOf
<1>2. ChainIn(buf, b) \subseteq ReachIn(buf, hd[k])
  BY <1>1, ReachBasics
<1> QED
  BY <1>1, <1>2 DEF HoldersOf

\* Nothing leads to a free buffer.
LEMMA FreeIsOutside ==
  ASSUME NEW buf, NEW hd, Sound(buf, hd), NEW m \in Bufs, buf[m].free
  PROVE  /\ buf[m].next = Null
         /\ \A b \in Bufs : buf[b].next # m
         /\ \A k \in Holders : m \notin ReachIn(buf, hd[k])
         /\ \A b \in Bufs : ~buf[b].free => m \notin ChainIn(buf, b)
<1>1. HoldersOf(buf, hd, m) = {} /\ buf[m].next = Null /\ Linked(buf)
  BY DEF Sound, Accounted, FreeIsEnd
<1>2. ASSUME NEW b \in Bufs, ~buf[b].free PROVE m \notin ChainIn(buf, b)
  <2>1. HoldersOf(buf, hd, b) # {}
    BY <1>2 DEF Sound, Accounted
  <2> QED
    BY <1>1, <2>1, HeldOnwards
<1>3. ASSUME NEW b \in Bufs, buf[b].next = m PROVE FALSE
  <2>1. ~buf[b].free
    BY <1>3, NullIsNone DEF Sound, FreeIsEnd
  <2>2. b \in ChainIn(buf, b) /\ m \in ChainIn(buf, b) \cup {Null}
    BY <1>1, <1>3, ChainBasics
  <2> QED
    BY <1>2, <2>1, <2>2, NullIsNone
<1>4. ASSUME NEW k \in Holders PROVE m \notin ReachIn(buf, hd[k])
  BY <1>1 DEF HoldersOf
<1> QED
  BY <1>1, <1>2, <1>3, <1>4

-----------------------------------------------------------------------------
(* What the actions do to the buffers and to the heads of the holders.     *)

\* Release takes a reference from each buffer of a set.
Released(buf, buf2, S) ==
  \A b \in Bufs :
    /\ b \notin S => buf2[b] = buf[b]
    /\ b \in S /\ buf[b].references > 1 =>
         /\ buf2[b].references = buf[b].references - 1
         /\ buf2[b].next = buf[b].next /\ buf2[b].free = buf[b].free
         /\ buf2[b].isReferenced = buf[b].isReferenced
    /\ b \in S /\ ~(buf[b].references > 1) => buf2[b] = Blank

\* What a holder gives up that keeps chains with other heads.
GivenUp(buf, hd, k, H) == ReachIn(buf, hd[k]) \ ReachIn(buf, H)

LEMMA ReleasedLinks ==
  ASSUME NEW buf, NEW buf2, NEW S, Linked(buf), Released(buf, buf2, S)
  PROVE  Linked(buf2) /\ \A b \in Bufs : buf2[b].next \in {buf[b].next, Null}
<1> SUFFICES ASSUME NEW b \in Bufs
             PROVE  buf2[b].next \in Bufs \cup {Null} /\ buf2[b].next \in {buf[b].next, Null}
  BY DEF Linked
<1>1. buf[b].next \in Bufs \cup {Null}
  BY DEF Linked
<1>2. Blank.next = Null
  BY DEF Blank
<1> QED
  BY <1>1, <1>2 DEF Released

LEMMA GiveUp ==
  ASSUME NEW buf, NEW buf2, NEW hd, NEW j \in Holders, NEW H \in SUBSET Bufs,
         Sound(buf, hd), Apart(buf, H), ReachIn(buf, H) \subseteq ReachIn(buf, hd[j]),
         Released(buf, buf2, GivenUp(buf, hd, j, H))
  PROVE  Sound(buf2, [hd EXCEPT ![j] = H])
<1> DEFINE S == GivenUp(buf, hd, j, H)
           new == [hd EXCEPT ![j] = H]
<1>0. /\ Linked(buf) /\ NoLoop(buf) /\ FreeIsEnd(buf) /\ hd \in [Holders -> SUBSET Bufs]
      /\ Accounted(buf, hd) /\ Alone(buf) /\ Crossed(buf, hd)
      /\ \A k \in Holders : Apart(buf, hd[k])
  BY DEF Sound
<1>1. new \in [Holders -> SUBSET Bufs] /\ new[j] = H /\ \A k \in Holders \ {j} : new[k] = hd[k]
  BY <1>0
<1>2. Linked(buf2) /\ \A b \in Bufs : buf2[b].next \in {buf[b].next, Null}
  BY <1>0, ReleasedLinks
<1>3. NoLoop(buf2)
  BY <1>0, <1>2, CutsMakeNoLoop
<1> HIDE DEF new
<1>4. \A k \in Holders : ReachIn(buf, new[k]) = IF k = j THEN ReachIn(buf, hd[j]) \ S
                                                          ELSE ReachIn(buf, hd[k])
  BY <1>1 DEF GivenUp
<1>5. S \subseteq ReachIn(buf, hd[j]) /\ S \subseteq Bufs
  BY <1>0, ReachBasics DEF GivenUp
<1> HIDE DEF S
<1>6. ASSUME NEW k \in Holders, NEW b \in Bufs, b \in ReachIn(buf, new[k]), b \in S
      PROVE  buf[b].references > 1
  <2>1. k # j /\ b \in ReachIn(buf, hd[k]) /\ b \in ReachIn(buf, hd[j])
    BY <1>4, <1>5, <1>6
  <2>2. k \in HoldersOf(buf, hd, b) /\ j \in HoldersOf(buf, hd, b)
    BY <2>1 DEF HoldersOf
  <2> QED
    BY <1>0, <2>1, <2>2, OneHolder
<1>7. ASSUME NEW k \in Holders, NEW h \in new[k] PROVE ChainIn(buf2, h) = ChainIn(buf, h)
  <2>1. ChainIn(buf, h) \subseteq ReachIn(buf, new[k]) /\ h \in Bufs
    BY <1>1 DEF ReachIn
  <2>2. ASSUME NEW b \in ChainIn(buf, h) PROVE buf2[b].next = buf[b].next
    <3>1. b \in Bufs /\ b \in ReachIn(buf, new[k])
      BY <1>0, <2>1, ChainBasics
    <3>2. b \in S => buf[b].references > 1
      BY <1>6, <3>1
    <3> QED
      BY <3>1, <3>2 DEF Released, S
  <2> QED
    BY <1>0, <1>2, <2>1, <2>2, ChainKept
<1>8. \A k \in Holders : ReachIn(buf2, new[k]) = ReachIn(buf, new[k])
  BY <1>7 DEF ReachIn
<1>9. ASSUME NEW b \in Bufs
      PROVE  HoldersOf(buf2, new, b) = IF b \in S THEN HoldersOf(buf, hd, b) \ {j}
                                                  ELSE HoldersOf(buf, hd, b)
  BY <1>4, <1>8 DEF HoldersOf
<1>10. ASSUME NEW b \in S PROVE j \in HoldersOf(buf, hd, b)
  BY <1>5 DEF HoldersOf
<1>11. ASSUME NEW b \in Bufs
       PROVE  /\ buf2[b].references = Cardinality(HoldersOf(buf2, new, b))
              /\ buf2[b].free <=> HoldersOf(buf2, new, b) = {}
              /\ buf2[b].references <= buf[b].references
              /\ buf2[b].free => buf2[b].next = Null
              /\ ~buf2[b].free => ~buf[b].free /\ buf2[b].isReferenced = buf[b].isReferenced
  <2> DEFINE A == HoldersOf(buf, hd, b)
  <2>1. /\ IsFiniteSet(A) /\ Cardinality(A) \in Nat
        /\ buf[b].references = Cardinality(A) /\ (buf[b].free <=> A = {})
        /\ buf[b].free => buf[b].next = Null
    BY <1>0, HoldersCount DEF Accounted, FreeIsEnd
  <2> HIDE DEF A
  <2>2. CASE b \notin S
    <3>1. buf2[b] = buf[b]
      BY <2>2 DEF Released, S
    <3>2. HoldersOf(buf2, new, b) = A
      BY <1>9, <2>2 DEF A
    <3> QED
      BY <2>1, <3>1, <3>2
  <2>3. CASE b \in S
    <3>1. j \in A
      BY <1>10, <2>3 DEF A
    <3>2. HoldersOf(buf2, new, b) = A \ {j}
      BY <1>9, <2>3 DEF A
    <3>3. IsFiniteSet(A \ {j}) /\ Cardinality(A \ {j}) = Cardinality(A) - 1
      BY <2>1, <3>1, FS_RemoveElement
    <3>4. CASE buf[b].references > 1
      <4>1. /\ buf2[b].references = buf[b].references - 1
            /\ buf2[b].next = buf[b].next /\ buf2[b].free = buf[b].free
            /\ buf2[b].isReferenced = buf[b].isReferenced
        BY <2>3, <3>4 DEF Released, S
      <4>2. A \ {j} # {}
        BY <2>1, <3>3, <3>4, FS_EmptySet
      <4> QED
        BY <2>1, <3>1, <3>2, <3>3, <4>1, <4>2
    <3>5. CASE ~(buf[b].references > 1)
      <4>1. buf2[b] = Blank
        BY <2>3, <3>5 DEF Released, S
      <4>2. Blank.references = 0 /\ Blank.free = TRUE /\ Blank.next = Null
        BY DEF Blank
      <4>3. Cardinality(A) # 0
        BY <2>1, <3>1, FS_EmptySet
      <4>4. Cardinality(A \ {j}) = 0
        BY <2>1, <3>3, <3>5, <4>3
      <4>5. A \ {j} = {}
        BY <3>3, <4>4, FS_EmptySet
      <4> QED
        BY <2>1, <3>2, <4>1, <4>2, <4>4, <4>5
    <3> QED
      BY <3>4, <3>5
  <2> QED
    BY <2>2, <2>3
<1>12. Accounted(buf2, new) /\ FreeIsEnd(buf2)
  BY <1>11 DEF Accounted, FreeIsEnd
<1>13. ASSUME NEW k \in Holders PROVE Apart(buf2, new[k])
  <2>1. Apart(buf, new[k])
    BY <1>0, <1>1
  <2> QED
    BY <1>7, <2>1 DEF Apart
<1>14. Alone(buf2)
  <2> SUFFICES ASSUME NEW b \in Bufs, ~buf2[b].free, ~buf2[b].isReferenced, NEW x \in ChainIn(buf2, b)
               PROVE  buf2[x].references = 1
    BY DEF Alone
  <2>1. x \in ChainIn(buf, b) /\ x \in Bufs
    BY <1>0, <1>2, ChainShrinks, ChainBasics
  <2>2. buf[x].references = 1
    BY <1>0, <1>11, <2>1 DEF Alone
  <2>3. HoldersOf(buf2, new, b) # {} /\ HoldersOf(buf2, new, b) \subseteq HoldersOf(buf2, new, x)
    BY <1>2, <1>11, HeldOnwards
  <2>4. /\ Cardinality(HoldersOf(buf2, new, x)) \in Nat
        /\ Cardinality(HoldersOf(buf2, new, x)) # 0
    BY <2>3, HoldersCount
  <2>5. buf2[x].references = Cardinality(HoldersOf(buf2, new, x)) /\ buf2[x].references <= 1
    BY <1>11, <2>1, <2>2
  <2> QED
    BY <2>4, <2>5
<1>15. Crossed(buf2, new)
  <2>1. \A k \in Holders : ReachIn(buf2, new[k]) \subseteq ReachIn(buf, hd[k])
    BY <1>4, <1>8
  <2> QED
    BY <1>0, <2>1 DEF Crossed, Holders
<1> QED
  BY <1>1, <1>2, <1>3, <1>12, <1>13, <1>14, <1>15 DEF Sound, new

\* Only the contents of buffers change.
SameLinks(buf, buf2) ==
  \A b \in Bufs : /\ buf2[b].next = buf[b].next /\ buf2[b].free = buf[b].free
                  /\ buf2[b].references = buf[b].references
                  /\ buf2[b].isReferenced = buf[b].isReferenced

LEMMA OnlyContents ==
  ASSUME NEW buf, NEW buf2, NEW hd, Sound(buf, hd), SameLinks(buf, buf2)
  PROVE  Sound(buf2, hd)
<1>0. \A b \in Bufs : /\ buf2[b].next = buf[b].next /\ buf2[b].free = buf[b].free
                      /\ buf2[b].references = buf[b].references
                      /\ buf2[b].isReferenced = buf[b].isReferenced
  BY DEF SameLinks
<1>1. Linked(buf) /\ Linked(buf2) /\ hd \in [Holders -> SUBSET Bufs]
  BY <1>0 DEF Sound, Linked
<1>2. \A h \in Bufs \cup {Null} : ChainIn(buf2, h) = ChainIn(buf, h)
  <2> TAKE h \in Bufs \cup {Null}
  <2>1. \A b \in ChainIn(buf, h) : buf2[b].next = buf[b].next
    BY <1>0, <1>1, ChainBasics
  <2> QED
    BY <1>1, <2>1, ChainKept
<1>3. \A k \in Holders : ReachIn(buf2, hd[k]) = ReachIn(buf, hd[k])
  BY <1>1, <1>2 DEF ReachIn
<1>4. \A b : HoldersOf(buf2, hd, b) = HoldersOf(buf, hd, b)
  BY <1>3 DEF HoldersOf
<1>5. NoLoop(buf2)
  BY <1>0, <1>1, <1>2 DEF NoLoop, Sound, Linked
<1>6. Accounted(buf2, hd) /\ FreeIsEnd(buf2)
  BY <1>0, <1>4 DEF Accounted, FreeIsEnd, Sound
<1>7. \A k \in Holders : Apart(buf2, hd[k])
  BY <1>1, <1>2 DEF Apart, Sound
<1>8. Alone(buf2)
  <2> SUFFICES ASSUME NEW b \in Bufs, ~buf2[b].free, ~buf2[b].isReferenced, NEW x \in ChainIn(buf2, b)
               PROVE  buf2[x].references = 1
    BY DEF Alone
  <2>1. x \in ChainIn(buf, b) /\ x \in Bufs
    BY <1>1, <1>2, ChainBasics
  <2> QED
    BY <1>0, <2>1 DEF Alone, Sound
<1>9. Crossed(buf2, hd)
  BY <1>3 DEF Crossed, Holders, Sound
<1> QED
  BY <1>1, <1>5, <1>6, <1>7, <1>8, <1>9 DEF Sound

\* A holder hands all that it has to another: Main to a stack, and the stored
\* reply to a client.
LEMMA HandOver ==
  ASSUME NEW buf, NEW hd, NEW from \in Holders, NEW to \in Holders, Sound(buf, hd), from # to,
         ReachIn(buf, hd[from]) \cap ReachIn(buf, hd[to]) = {},
         to \notin {ForReply, ForUsb}, to = Reply => from = ForReply, to = Usb => from = ForUsb
  PROVE  Sound(buf, [hd EXCEPT ![to] = hd[to] \cup hd[from], ![from] = {}])
<1> DEFINE new == [hd EXCEPT ![to] = hd[to] \cup hd[from], ![from] = {}]
<1>0. /\ Linked(buf) /\ hd \in [Holders -> SUBSET Bufs]
      /\ Accounted(buf, hd) /\ Crossed(buf, hd) /\ \A k \in Holders : Apart(buf, hd[k])
  BY DEF Sound
<1>1. /\ new \in [Holders -> SUBSET Bufs] /\ new[from] = {} /\ new[to] = hd[to] \cup hd[from]
      /\ \A k \in Holders \ {from, to} : new[k] = hd[k]
  BY <1>0
<1> HIDE DEF new
<1>2. /\ ReachIn(buf, new[from]) = {}
      /\ ReachIn(buf, new[to]) = ReachIn(buf, hd[to]) \cup ReachIn(buf, hd[from])
      /\ \A k \in Holders \ {from, to} : ReachIn(buf, new[k]) = ReachIn(buf, hd[k])
  BY <1>1 DEF ReachIn
<1>3. ASSUME NEW b \in Bufs
      PROVE  /\ Cardinality(HoldersOf(buf, new, b)) = Cardinality(HoldersOf(buf, hd, b))
             /\ HoldersOf(buf, new, b) = {} <=> HoldersOf(buf, hd, b) = {}
  <2> DEFINE A == HoldersOf(buf, hd, b)
  <2>1. IsFiniteSet(A) /\ Cardinality(A) \in Nat
    BY HoldersCount
  <2>2. CASE from \in A
    <3>1. HoldersOf(buf, new, b) = (A \ {from}) \cup {to} /\ to \notin A
      BY <1>2, <2>2 DEF HoldersOf
    <3> HIDE DEF A
    <3>2. IsFiniteSet(A \ {from}) /\ Cardinality(A \ {from}) = Cardinality(A) - 1
      BY <2>1, <2>2, FS_RemoveElement
    <3>3. Cardinality((A \ {from}) \cup {to}) = Cardinality(A \ {from}) + 1
      BY <3>1, <3>2, FS_AddElement
    <3>4. Cardinality(HoldersOf(buf, new, b)) = Cardinality(A)
      BY <2>1, <3>1, <3>2, <3>3
    <3> QED
      BY <2>2, <3>1, <3>4 DEF A
  <2>3. CASE from \notin A
    <3>1. HoldersOf(buf, new, b) = A
      BY <1>2, <2>3 DEF HoldersOf
    <3> QED
      BY <3>1
  <2> QED
    BY <2>2, <2>3
<1>4. Accounted(buf, new)
  BY <1>0, <1>3 DEF Accounted
<1>5. \A k \in Holders : Apart(buf, new[k])
  <2>1. Apart(buf, new[to])
    <3>1. Apart(buf, hd[to]) /\ Apart(buf, hd[from])
      BY <1>0
    <3>2. \A g \in hd[to], h \in hd[from] : ChainIn(buf, g) \cap ChainIn(buf, h) = {}
      BY DEF ReachIn
    <3> QED
      BY <1>1, <3>1, <3>2 DEF Apart
  <2>2. Apart(buf, {})
    BY DEF Apart
  <2> QED
    BY <1>0, <1>1, <2>1, <2>2
<1>6. Crossed(buf, new)
  <2>1. Reply \in Holders /\ Usb \in Holders /\ ForReply \in Holders /\ ForUsb \in Holders
    BY DEF Holders
  <2>2. ReachIn(buf, new[Reply]) \cap ReachIn(buf, new[ForReply]) = {}
    <3>1. ReachIn(buf, new[ForReply]) \subseteq ReachIn(buf, hd[ForReply])
      BY <1>2, <2>1
    <3>2. CASE to = Reply
      BY <1>2, <3>2
    <3>3. CASE to # Reply
      BY <1>0, <1>2, <2>1, <3>1, <3>3 DEF Crossed
    <3> QED
      BY <3>2, <3>3
  <2>3. ReachIn(buf, new[Usb]) \cap ReachIn(buf, new[ForUsb]) = {}
    <3>1. ReachIn(buf, new[ForUsb]) \subseteq ReachIn(buf, hd[ForUsb])
      BY <1>2, <2>1
    <3>2. CASE to = Usb
      BY <1>2, <3>2
    <3>3. CASE to # Usb
      BY <1>0, <1>2, <2>1, <3>1, <3>3 DEF Crossed
    <3> QED
      BY <3>2, <3>3
  <2> QED
    BY <2>2, <2>3 DEF Crossed
<1> QED
  BY <1>1, <1>4, <1>5, <1>6 DEF Sound, new

\* The stored reply is shared with a client that has nothing yet.
LEMMA ShareOut ==
  ASSUME NEW buf, NEW buf2, NEW hd, NEW c \in Clients, Sound(buf, hd), hd[c] = {},
         \A b \in Bufs :
           /\ b \notin ReachIn(buf, hd[Reply]) => buf2[b] = buf[b]
           /\ b \in ReachIn(buf, hd[Reply]) =>
                /\ buf2[b].next = buf[b].next /\ buf2[b].free = buf[b].free
                /\ buf2[b].references = buf[b].references + 1 /\ buf2[b].isReferenced = TRUE
  PROVE  Sound(buf2, [hd EXCEPT ![c] = hd[Reply]])
<1> DEFINE new == [hd EXCEPT ![c] = hd[Reply]]
           S == ReachIn(buf, hd[Reply])
<1>0. /\ Linked(buf) /\ NoLoop(buf) /\ FreeIsEnd(buf) /\ hd \in [Holders -> SUBSET Bufs]
      /\ Accounted(buf, hd) /\ Alone(buf) /\ Crossed(buf, hd)
      /\ \A k \in Holders : Apart(buf, hd[k])
  BY DEF Sound
<1>1. c \in Holders /\ Reply \in Holders /\ c \notin {Reply, Usb, ForReply, ForUsb}
  BY HoldersDiffer DEF Holders
<1>2. new \in [Holders -> SUBSET Bufs] /\ new[c] = hd[Reply] /\ \A k \in Holders \ {c} : new[k] = hd[k]
  BY <1>0, <1>1
<1> HIDE DEF new
<1>3. Linked(buf2) /\ \A b \in Bufs : buf2[b].next = buf[b].next
  BY <1>0 DEF Linked
<1>4. \A h \in Bufs \cup {Null} : ChainIn(buf2, h) = ChainIn(buf, h)
  <2> TAKE h \in Bufs \cup {Null}
  <2>1. \A b \in ChainIn(buf, h) : buf2[b].next = buf[b].next
    BY <1>0, <1>3, ChainBasics
  <2> QED
    BY <1>0, <1>3, <2>1, ChainKept
<1>5. NoLoop(buf2)
  BY <1>0, <1>3, <1>4 DEF NoLoop, Linked
<1>6. \A k \in Holders : ReachIn(buf2, new[k]) = IF k = c THEN S ELSE ReachIn(buf, hd[k])
  <2>1. \A k \in Holders : ReachIn(buf2, new[k]) = ReachIn(buf, new[k])
    BY <1>2, <1>4 DEF ReachIn
  <2> QED
    BY <1>2, <2>1
<1>7. ReachIn(buf, hd[c]) = {}
  BY DEF ReachIn
<1>8. \A b \in Bufs : HoldersOf(buf2, new, b) = IF b \in S THEN HoldersOf(buf, hd, b) \cup {c}
                                                           ELSE HoldersOf(buf, hd, b)
  BY <1>1, <1>6, <1>7 DEF HoldersOf
<1>9. \A b \in Bufs : c \notin HoldersOf(buf, hd, b)
  BY <1>7 DEF HoldersOf
<1>10. \A b \in Bufs : b \in S => Reply \in HoldersOf(buf, hd, b)
  BY <1>1 DEF HoldersOf
<1> HIDE DEF S
<1>11. Accounted(buf2, new)
  <2> SUFFICES ASSUME NEW b \in Bufs
               PROVE  /\ buf2[b].references = Cardinality(HoldersOf(buf2, new, b))
                      /\ buf2[b].free <=> HoldersOf(buf2, new, b) = {}
    BY DEF Accounted
  <2>1. buf[b].references = Cardinality(HoldersOf(buf, hd, b)) /\ (buf[b].free <=> HoldersOf(buf, hd, b) = {})
    BY <1>0 DEF Accounted
  <2>2. CASE b \notin S
    <3>1. buf2[b] = buf[b]
      BY <2>2 DEF S
    <3> QED
      BY <1>8, <2>1, <2>2, <3>1
  <2>3. CASE b \in S
    <3>1. buf2[b].references = buf[b].references + 1 /\ buf2[b].free = buf[b].free
      BY <2>3 DEF S
    <3>2. Cardinality(HoldersOf(buf, hd, b) \cup {c}) = Cardinality(HoldersOf(buf, hd, b)) + 1
      BY <1>9, HoldersCount, FS_AddElement
    <3> QED
      BY <1>8, <1>10, <2>1, <2>3, <3>1, <3>2
  <2> QED
    BY <2>2, <2>3
<1>12. FreeIsEnd(buf2)
  BY <1>0, <1>3 DEF FreeIsEnd, S
<1>13. \A k \in Holders : Apart(buf2, new[k])
  <2>1. \A k \in Holders : Apart(buf, new[k])
    BY <1>0, <1>1, <1>2
  <2> QED
    BY <1>2, <1>4, <2>1 DEF Apart
<1>14. Alone(buf2)
  <2> SUFFICES ASSUME NEW b \in Bufs, ~buf2[b].free, ~buf2[b].isReferenced, NEW x \in ChainIn(buf2, b)
               PROVE  buf2[x].references = 1
    BY DEF Alone
  <2>1. b \notin S /\ buf2[b] = buf[b]
    BY DEF S
  <2>2. x \in ChainIn(buf, b) /\ x \in Bufs
    BY <1>0, <1>4, ChainBasics
  <2>3. buf[x].references = 1
    BY <1>0, <2>1, <2>2 DEF Alone
  <2>4. x \notin S
    <3>1. HoldersOf(buf, hd, b) # {}
      BY <1>0, <2>1 DEF Accounted
    <3>2. PICK k \in HoldersOf(buf, hd, b) : TRUE
      BY <3>1
    <3>3. k \in HoldersOf(buf, hd, x) /\ k # Reply
      BY <1>0, <2>1, <2>2, <3>2, HeldOnwards DEF HoldersOf, S
    <3>4. x \in S => buf[x].references > 1
      BY <1>0, <1>10, <2>2, <3>3, OneHolder
    <3> QED
      BY <2>3, <3>4
  <2> QED
    BY <2>2, <2>3, <2>4 DEF S
<1>15. Crossed(buf2, new)
  BY <1>0, <1>1, <1>6 DEF Crossed, Holders
<1> QED
  BY <1>2, <1>3, <1>5, <1>11, <1>12, <1>13, <1>14, <1>15 DEF Sound, new

\* Free buffers, one or two, become a chain that some holders have.
IsFresh(x, after, n, shared) ==
  x.free = FALSE /\ x.next = after /\ x.references = n /\ x.isReferenced = shared

WithHead(hd, J, head) == [k \in Holders |-> IF k \in J THEN hd[k] \cup {head} ELSE hd[k]]

LEMMA NewChain ==
  ASSUME NEW buf, NEW buf2, NEW hd, Sound(buf, hd),
         NEW head \in Bufs, NEW second \in Bufs \cup {Null}, second # head,
         buf[head].free, second # Null => buf[second].free,
         NEW J \in SUBSET Holders, J # {}, NEW shared \in BOOLEAN, ~shared => Cardinality(J) = 1,
         ~(Reply \in J /\ ForReply \in J), ~(Usb \in J /\ ForUsb \in J),
         IsFresh(buf2[head], second, Cardinality(J), shared),
         second # Null => IsFresh(buf2[second], Null, Cardinality(J), shared),
         \A b \in Bufs \ {head, second} : buf2[b] = buf[b]
  PROVE  Sound(buf2, WithHead(hd, J, head))
<1> DEFINE new == WithHead(hd, J, head)
           I == {head, second} \ {Null}
<1>0. /\ Linked(buf) /\ NoLoop(buf) /\ FreeIsEnd(buf) /\ hd \in [Holders -> SUBSET Bufs]
      /\ Accounted(buf, hd) /\ Alone(buf) /\ Crossed(buf, hd)
      /\ \A k \in Holders : Apart(buf, hd[k])
  BY DEF Sound
<1>1. /\ new \in [Holders -> SUBSET Bufs]
      /\ \A k \in Holders : new[k] = IF k \in J THEN hd[k] \cup {head} ELSE hd[k]
  BY <1>0 DEF WithHead
<1> HIDE DEF new
<1>2. /\ buf[head].next = Null
      /\ \A b \in Bufs : buf[b].next # head
      /\ \A k \in Holders : head \notin ReachIn(buf, hd[k])
      /\ \A b \in Bufs : ~buf[b].free => head \notin ChainIn(buf, b)
  BY FreeIsOutside
<1>3. second # Null =>
        /\ second \in Bufs /\ buf[second].next = Null
        /\ \A b \in Bufs : buf[b].next # second
        /\ \A k \in Holders : second \notin ReachIn(buf, hd[k])
        /\ \A b \in Bufs : ~buf[b].free => second \notin ChainIn(buf, b)
  BY FreeIsOutside
<1>4. /\ buf2[head].next = second /\ (second # Null => buf2[second].next = Null)
      /\ \A b \in Bufs \ {head} : buf2[b].next = buf[b].next
  <2>1. buf2[head].next = second /\ (second # Null => buf2[second].next = Null)
    BY DEF IsFresh
  <2>2. ASSUME NEW b \in Bufs \ {head} PROVE buf2[b].next = buf[b].next
    <3>1. CASE b = second
      BY <1>3, <2>1, <3>1, NullIsNone
    <3>2. CASE b # second
      BY <3>2
    <3> QED
      BY <3>1, <3>2
  <2> QED
    BY <2>1, <2>2
<1>5. Linked(buf2)
  BY <1>0, <1>4 DEF Linked
<1>6. NoLoop(buf2)
  <2>1. CASE second = Null
    <3>1. \A b \in Bufs : buf2[b].next \in {buf[b].next, Null}
      BY <1>4, <2>1
    <3> QED
      BY <1>0, <3>1, CutsMakeNoLoop
  <2>2. CASE second # Null
    <3>1. IsLonger(buf, buf2, head, second)
      BY <1>2, <1>3, <1>4, <2>2 DEF IsLonger
    <3> QED
      BY <1>0, <1>3, <1>5, <2>2, <3>1, GrowthMakesNoLoop
  <2> QED
    BY <2>1, <2>2
<1>7. ASSUME NEW h \in Bufs, head \notin ChainIn(buf, h) PROVE ChainIn(buf2, h) = ChainIn(buf, h)
  <2>1. \A b \in ChainIn(buf, h) : buf2[b].next = buf[b].next
    BY <1>0, <1>4, <1>7, ChainBasics
  <2> QED
    BY <1>0, <1>5, <2>1, ChainKept
<1>8. ChainIn(buf2, head) = I
  <2>1. ChainIn(buf2, head) = {head} \cup ChainIn(buf2, second) /\ ChainIn(buf2, Null) = {}
    BY <1>4, <1>5, ChainSplits, ChainBasics
  <2>2. CASE second = Null
    BY <2>1, <2>2, NullIsNone
  <2>3. CASE second # Null
    <3>1. ChainIn(buf2, second) = {second} \cup ChainIn(buf2, Null)
      BY <1>4, <1>5, <2>3, ChainSplits
    <3> QED
      BY <2>1, <2>3, <3>1, NullIsNone
  <2> QED
    BY <2>2, <2>3
<1>9. \A k \in Holders : I \cap ReachIn(buf, hd[k]) = {}
  BY <1>2, <1>3
<1>10. head \in I /\ I \subseteq Bufs
  BY NullIsNone
<1>11. ASSUME NEW k \in Holders, NEW h \in hd[k] PROVE ChainIn(buf2, h) = ChainIn(buf, h)
  <2>1. h \in Bufs /\ head \notin ChainIn(buf, h)
    BY <1>0, <1>2 DEF ReachIn
  <2> QED
    BY <1>7, <2>1
<1>12. \A k \in Holders : ReachIn(buf2, new[k]) = IF k \in J THEN ReachIn(buf, hd[k]) \cup I
                                                             ELSE ReachIn(buf, hd[k])
  <2> TAKE k \in Holders
  <2>1. ReachIn(buf2, hd[k]) = ReachIn(buf, hd[k])
    BY <1>11 DEF ReachIn
  <2>2. ReachIn(buf2, hd[k] \cup {head}) = ReachIn(buf2, hd[k]) \cup I
    BY <1>8 DEF ReachIn
  <2> QED
    BY <1>1, <2>1, <2>2
<1> HIDE DEF I
<1>13. \A b \in Bufs : HoldersOf(buf2, new, b) = IF b \in I THEN J ELSE HoldersOf(buf, hd, b)
  BY <1>9, <1>12 DEF HoldersOf
<1>14. ASSUME NEW b \in I
       PROVE  /\ buf2[b].free = FALSE /\ buf2[b].references = Cardinality(J)
              /\ buf2[b].isReferenced = shared
  BY <1>14 DEF IsFresh, I
<1>15. \A b \in Bufs \ I : buf2[b] = buf[b]
  BY NullIsNone DEF I
<1>16. Accounted(buf2, new) /\ FreeIsEnd(buf2)
  <2> SUFFICES ASSUME NEW b \in Bufs
               PROVE  /\ buf2[b].references = Cardinality(HoldersOf(buf2, new, b))
                      /\ buf2[b].free <=> HoldersOf(buf2, new, b) = {}
                      /\ buf2[b].free => buf2[b].next = Null
    BY DEF Accounted, FreeIsEnd
  <2>1. CASE b \in I
    BY <1>13, <1>14, <2>1
  <2>2. CASE b \notin I
    <3>1. buf2[b] = buf[b] /\ HoldersOf(buf2, new, b) = HoldersOf(buf, hd, b)
      BY <1>13, <1>15, <2>2
    <3> QED
      BY <1>0, <3>1 DEF Accounted, FreeIsEnd
  <2> QED
    BY <2>1, <2>2
<1>17. ASSUME NEW k \in Holders PROVE Apart(buf2, new[k])
  <2>1. Apart(buf2, hd[k])
    BY <1>0, <1>11 DEF Apart
  <2>2. \A h \in hd[k] : ChainIn(buf2, h) \cap I = {}
    BY <1>9, <1>11 DEF ReachIn
  <2>3. Apart(buf2, hd[k] \cup {head})
    BY <1>8, <2>1, <2>2 DEF Apart
  <2> QED
    BY <1>1, <2>1, <2>3
<1>18. Alone(buf2)
  <2> SUFFICES ASSUME NEW b \in Bufs, ~buf2[b].free, ~buf2[b].isReferenced, NEW x \in ChainIn(buf2, b)
               PROVE  buf2[x].references = 1
    BY DEF Alone
  <2>1. CASE b \in I
    <3>1. x \in I
      BY <1>5, <1>8, <2>1, ChainWithin
    <3> QED
      BY <1>14, <2>1, <3>1
  <2>2. CASE b \notin I
    <3>1. buf2[b] = buf[b]
      BY <1>15, <2>2
    <3>2. head \notin ChainIn(buf, b) /\ (second # Null => second \notin ChainIn(buf, b))
      BY <1>2, <1>3, <3>1
    <3>3. x \in ChainIn(buf, b) /\ x \in Bufs
      BY <1>0, <1>7, <3>2, ChainBasics
    <3>4. x \notin I
      BY <3>2, <3>3 DEF I
    <3> QED
      BY <1>0, <1>15, <3>1, <3>3, <3>4 DEF Alone
  <2> QED
    BY <2>1, <2>2
<1>19. Crossed(buf2, new)
  <2>1. Reply \in Holders /\ Usb \in Holders /\ ForReply \in Holders /\ ForUsb \in Holders
    BY DEF Holders
  <2> QED
    BY <1>0, <1>9, <1>12, <2>1 DEF Crossed
<1> QED
  BY <1>1, <1>5, <1>6, <1>16, <1>17, <1>18, <1>19 DEF Sound, new

\* A chain that nobody shares is made longer by a free buffer.
LEMMA LongerChain ==
  ASSUME NEW buf, NEW buf2, NEW hd, Sound(buf, hd), NEW l, NEW m,
         IsLonger(buf, buf2, l, m), buf[m].free, ~buf[l].free, buf[l].references = 1,
         IsFresh(buf2[m], Null, 1, FALSE),
         IsFresh(buf2[l], m, 1, buf[l].isReferenced),
         \A b \in Bufs \ {l, m} : buf2[b] = buf[b]
  PROVE  Sound(buf2, hd)
<1>0. /\ Linked(buf) /\ NoLoop(buf) /\ FreeIsEnd(buf) /\ hd \in [Holders -> SUBSET Bufs]
      /\ Accounted(buf, hd) /\ Alone(buf) /\ Crossed(buf, hd)
      /\ \A k \in Holders : Apart(buf, hd[k])
  BY DEF Sound
<1>1. /\ l \in Bufs /\ m \in Bufs /\ l # m /\ buf[l].next = Null /\ buf2[l].next = m
      /\ \A b \in Bufs \ {l} : buf2[b].next = buf[b].next
  BY DEF IsLonger
<1>2. /\ buf[m].next = Null /\ \A b \in Bufs : buf[b].next # m
      /\ \A k \in Holders : m \notin ReachIn(buf, hd[k])
      /\ \A b \in Bufs : ~buf[b].free => m \notin ChainIn(buf, b)
  BY <1>1, FreeIsOutside
<1>3. Linked(buf2)
  BY <1>0, <1>1 DEF Linked
<1>4. NoLoop(buf2)
  BY <1>0, <1>2, <1>3, GrowthMakesNoLoop
<1>5. \A h \in Bufs : ChainIn(buf2, h) = IF l \in ChainIn(buf, h) THEN ChainIn(buf, h) \cup {m}
                                                                   ELSE ChainIn(buf, h)
  BY <1>0, <1>3, ChainGrows
<1>6. ASSUME NEW k \in Holders
      PROVE  ReachIn(buf2, hd[k]) = IF l \in ReachIn(buf, hd[k]) THEN ReachIn(buf, hd[k]) \cup {m}
                                                                 ELSE ReachIn(buf, hd[k])
  <2>1. hd[k] \subseteq Bufs
    BY <1>0
  <2>2. CASE l \in ReachIn(buf, hd[k])
    <3>1. PICK g \in hd[k] : l \in ChainIn(buf, g)
      BY <2>2 DEF ReachIn
    <3>2. m \in ChainIn(buf2, g)
      BY <1>5, <2>1, <3>1
    <3>3. \A h \in hd[k] : /\ ChainIn(buf, h) \subseteq ChainIn(buf2, h)
                           /\ ChainIn(buf2, h) \subseteq ChainIn(buf, h) \cup {m}
      BY <1>5, <2>1
    <3> QED
      BY <2>2, <3>2, <3>3 DEF ReachIn
  <2>3. CASE l \notin ReachIn(buf, hd[k])
    <3>1. \A h \in hd[k] : ChainIn(buf2, h) = ChainIn(buf, h)
      BY <1>5, <2>1, <2>3 DEF ReachIn
    <3> QED
      BY <2>3, <3>1 DEF ReachIn
  <2> QED
    BY <2>2, <2>3
<1>7. \A b \in Bufs : HoldersOf(buf2, hd, b) = IF b = m THEN HoldersOf(buf, hd, l)
                                                        ELSE HoldersOf(buf, hd, b)
  <2> TAKE b \in Bufs
  <2>1. ASSUME NEW k \in Holders
        PROVE  b \in ReachIn(buf2, hd[k]) <=> IF b = m THEN l \in ReachIn(buf, hd[k])
                                                        ELSE b \in ReachIn(buf, hd[k])
    BY <1>2, <1>6
  <2> QED
    BY <2>1 DEF HoldersOf
<1>8. buf2[m].references = 1 /\ buf2[m].free = FALSE /\ buf2[m].isReferenced = FALSE
      /\ buf2[l].references = 1 /\ buf2[l].free = FALSE /\ buf2[l].isReferenced = buf[l].isReferenced
  BY DEF IsFresh
<1>9. Accounted(buf2, hd) /\ FreeIsEnd(buf2)
  <2> SUFFICES ASSUME NEW b \in Bufs
               PROVE  /\ buf2[b].references = Cardinality(HoldersOf(buf2, hd, b))
                      /\ buf2[b].free <=> HoldersOf(buf2, hd, b) = {}
                      /\ buf2[b].free => buf2[b].next = Null
    BY DEF Accounted, FreeIsEnd
  <2>1. Cardinality(HoldersOf(buf, hd, l)) = 1 /\ HoldersOf(buf, hd, l) # {}
    BY <1>0, <1>1 DEF Accounted
  <2>2. CASE b \in {l, m}
    BY <1>1, <1>7, <1>8, <2>1, <2>2
  <2>3. CASE b \notin {l, m}
    <3>1. buf2[b] = buf[b] /\ HoldersOf(buf2, hd, b) = HoldersOf(buf, hd, b)
      BY <1>7, <2>3
    <3> QED
      BY <1>0, <3>1 DEF Accounted, FreeIsEnd
  <2> QED
    BY <2>2, <2>3
<1>10. ASSUME NEW k \in Holders PROVE Apart(buf2, hd[k])
  <2>1. hd[k] \subseteq Bufs /\ \A h \in hd[k] : m \notin ChainIn(buf, h)
    BY <1>0, <1>2 DEF ReachIn
  <2>2. Apart(buf, hd[k])
    BY <1>0
  <2> SUFFICES ASSUME NEW g \in hd[k], NEW h \in hd[k], g # h
               PROVE  ChainIn(buf2, g) \cap ChainIn(buf2, h) = {}
    BY DEF Apart
  <2>3. ChainIn(buf, g) \cap ChainIn(buf, h) = {}
    BY <2>2 DEF Apart
  <2> QED
    BY <1>5, <2>1, <2>3
<1>11. Alone(buf2)
  <2> SUFFICES ASSUME NEW b \in Bufs, ~buf2[b].free, ~buf2[b].isReferenced, NEW x \in ChainIn(buf2, b)
               PROVE  buf2[x].references = 1
    BY DEF Alone
  <2>1. CASE x \in {l, m}
    BY <1>8, <2>1
  <2>2. CASE x \notin {l, m}
    <3>1. b # m
      <4>1. ChainIn(buf2, m) = {m} \cup ChainIn(buf2, Null) /\ ChainIn(buf2, Null) = {}
        BY <1>1, <1>2, <1>3, ChainSplits, ChainBasics
      <4> QED
        BY <2>2, <4>1
    <3>2. ~buf[b].free /\ ~buf[b].isReferenced
      BY <1>8, <3>1
    <3>3. x \in ChainIn(buf, b) /\ x \in Bufs
      BY <1>0, <1>5, <2>2, ChainBasics
    <3> QED
      BY <1>0, <2>2, <3>2, <3>3 DEF Alone
  <2> QED
    BY <2>1, <2>2
<1>12. Crossed(buf2, hd)
  <2>1. Reply \in Holders /\ Usb \in Holders /\ ForReply \in Holders /\ ForUsb \in Holders
    BY DEF Holders
  <2> QED
    BY <1>0, <1>2, <1>6, <2>1 DEF Crossed
<1> QED
  BY <1>0, <1>3, <1>4, <1>9, <1>10, <1>11, <1>12 DEF Sound

\* A holder gives up a chain, or the first buffers of it.
Without(H, h, g) == (H \ {h}) \cup ({g} \ {Null})

LEMMA GiveUpChain ==
  ASSUME NEW buf, NEW buf2, NEW hd, NEW j \in Holders, NEW h \in hd[j],
         NEW g \in ChainIn(buf, h) \cup {Null}, g # h, Sound(buf, hd),
         Released(buf, buf2, ChainIn(buf, h) \ ChainIn(buf, g))
  PROVE  /\ Sound(buf2, [hd EXCEPT ![j] = Without(hd[j], h, g)])
         /\ g \notin hd[j]
<1> DEFINE H == Without(hd[j], h, g)
<1>0. /\ Linked(buf) /\ NoLoop(buf) /\ hd \in [Holders -> SUBSET Bufs] /\ Apart(buf, hd[j])
  BY DEF Sound
<1>1. hd[j] \subseteq Bufs /\ h \in Bufs /\ g \in Bufs \cup {Null} /\ ChainIn(buf, Null) = {}
  BY <1>0, ChainBasics
<1>2. ChainIn(buf, g) \subseteq ChainIn(buf, h)
  BY <1>0, <1>1, ChainWithin
<1>3. g \notin hd[j]
  <2>1. CASE g = Null
    BY <1>1, <2>1, NullIsNone
  <2>2. CASE g # Null
    <3>1. g \in ChainIn(buf, g) /\ g \in ChainIn(buf, h)
      BY <1>0, <1>1, <2>2, ChainBasics
    <3> QED
      BY <1>0, <3>1 DEF Apart
  <2> QED
    BY <2>1, <2>2
<1>4. H \in SUBSET Bufs
  BY <1>1 DEF Without
<1>5. Apart(buf, H)
  <2>1. \A x \in hd[j] \ {h} : ChainIn(buf, x) \cap ChainIn(buf, g) = {}
    BY <1>0, <1>2 DEF Apart
  <2> QED
    BY <1>0, <2>1 DEF Apart, Without
<1>6. ReachIn(buf, H) \subseteq ReachIn(buf, hd[j])
  BY <1>2 DEF ReachIn, Without
<1>7. GivenUp(buf, hd, j, H) = ChainIn(buf, h) \ ChainIn(buf, g)
  <2>1. ReachIn(buf, H) = ReachIn(buf, hd[j] \ {h}) \cup ChainIn(buf, g)
    BY <1>1 DEF ReachIn, Without
  <2>2. ReachIn(buf, hd[j]) = ReachIn(buf, hd[j] \ {h}) \cup ChainIn(buf, h)
    BY DEF ReachIn
  <2>3. ReachIn(buf, hd[j] \ {h}) \cap ChainIn(buf, h) = {}
    BY <1>0 DEF ReachIn, Apart
  <2> QED
    BY <1>2, <2>1, <2>2, <2>3 DEF GivenUp
<1> HIDE DEF H
<1>8. Released(buf, buf2, GivenUp(buf, hd, j, H))
  BY <1>7
<1>9. Sound(buf2, [hd EXCEPT ![j] = H])
  BY <1>4, <1>5, <1>6, <1>8, GiveUp
<1> QED
  BY <1>3, <1>9 DEF H

LEMMA GiveUpFirst ==
  ASSUME NEW buf, NEW buf2, NEW hd, NEW j \in Holders, NEW h \in hd[j], Sound(buf, hd),
         Released(buf, buf2, {h})
  PROVE  /\ Sound(buf2, [hd EXCEPT ![j] = Without(hd[j], h, buf[h].next)])
         /\ buf[h].next \notin hd[j]
<1>1. /\ Linked(buf) /\ NoLoop(buf) /\ h \in Bufs
  BY DEF Sound
<1>2. /\ ChainIn(buf, h) = {h} \cup ChainIn(buf, buf[h].next) /\ h \notin ChainIn(buf, buf[h].next)
      /\ h \in ChainIn(buf, h) /\ buf[h].next \in ChainIn(buf, h) \cup {Null}
  BY <1>1, ChainSplits, ChainBasics DEF NoLoop
<1>3. buf[h].next # h
  BY <1>1, <1>2, ChainBasics
<1>4. ChainIn(buf, h) \ ChainIn(buf, buf[h].next) = {h}
  BY <1>2
<1>5. /\ buf[h].next \in ChainIn(buf, h) \cup {Null}
      /\ Released(buf, buf2, ChainIn(buf, h) \ ChainIn(buf, buf[h].next))
  BY <1>2, <1>4
<1> QED
  BY <1>3, <1>5, GiveUpChain, Zenon

LEMMA GiveUpWhole ==
  ASSUME NEW buf, NEW buf2, NEW hd, NEW j \in Holders, NEW h \in hd[j], Sound(buf, hd),
         Released(buf, buf2, ChainIn(buf, h))
  PROVE  Sound(buf2, [hd EXCEPT ![j] = hd[j] \ {h}])
<1>1. Linked(buf) /\ h \in Bufs
  BY DEF Sound
<1>2. ChainIn(buf, h) \ ChainIn(buf, Null) = ChainIn(buf, h) /\ Null # h
  BY <1>1, ChainBasics, NullIsNone
<1>3. Sound(buf2, [hd EXCEPT ![j] = Without(hd[j], h, Null)])
  BY <1>2, GiveUpChain
<1>4. Without(hd[j], h, Null) = hd[j] \ {h}
  BY DEF Without
<1> QED
  BY <1>3, <1>4

LEMMA GiveUpAll ==
  ASSUME NEW buf, NEW buf2, NEW hd, NEW j \in Holders, Sound(buf, hd),
         Released(buf, buf2, ReachIn(buf, hd[j]))
  PROVE  Sound(buf2, [hd EXCEPT ![j] = {}])
<1>1. ReachIn(buf, {}) = {} /\ Apart(buf, {})
  BY DEF ReachIn, Apart
<1>2. GivenUp(buf, hd, j, {}) = ReachIn(buf, hd[j])
  BY <1>1 DEF GivenUp
<1> QED
  BY <1>1, <1>2, GiveUp

-----------------------------------------------------------------------------
(* Stacks of chains.                                                       *)

HeadsIn(q) == {q[i] : i \in DOMAIN q}
Injective(q) == \A i, k \in DOMAIN q : q[i] = q[k] => i = k

LEMMA StackPushed ==
  ASSUME NEW q \in Seq(Bufs), NEW b \in Bufs
  PROVE  /\ Append(q, b) \in Seq(Bufs) /\ Len(Append(q, b)) = Len(q) + 1
         /\ HeadsIn(Append(q, b)) = HeadsIn(q) \cup {b}
         /\ Injective(q) /\ b \notin HeadsIn(q) => Injective(Append(q, b))
<1> DEFINE r == Append(q, b)
<1>1. /\ r \in Seq(Bufs) /\ Len(r) = Len(q) + 1 /\ Len(q) \in Nat
      /\ DOMAIN q = 1 .. Len(q) /\ DOMAIN r = 1 .. Len(q) + 1
      /\ \A i \in 1 .. Len(q) : r[i] = q[i]
      /\ r[Len(q) + 1] = b
  OBVIOUS
<1> HIDE DEF r
<1>2. HeadsIn(r) = HeadsIn(q) \cup {b}
  <2>1. \A i \in DOMAIN r : r[i] \in HeadsIn(q) \cup {b}
    BY <1>1 DEF HeadsIn
  <2>2. \A i \in DOMAIN q : i \in DOMAIN r /\ r[i] = q[i]
    BY <1>1
  <2>3. Len(q) + 1 \in DOMAIN r
    BY <1>1
  <2> QED
    BY <1>1, <2>1, <2>2, <2>3 DEF HeadsIn
<1>3. ASSUME Injective(q), b \notin HeadsIn(q) PROVE Injective(r)
  <2> SUFFICES ASSUME NEW i \in DOMAIN r, NEW k \in DOMAIN r, r[i] = r[k] PROVE i = k
    BY DEF Injective
  <2>1. \A x \in DOMAIN r : x # Len(q) + 1 => x \in DOMAIN q /\ r[x] = q[x] /\ r[x] # b
    BY <1>1, <1>3 DEF HeadsIn
  <2> QED
    BY <1>1, <1>3, <2>1 DEF Injective
<1> QED
  BY <1>1, <1>2, <1>3 DEF r

LEMMA StackPopped ==
  ASSUME NEW q \in Seq(Bufs), q # <<>>, Injective(q)
  PROVE  /\ Tail(q) \in Seq(Bufs) /\ Len(Tail(q)) = Len(q) - 1
         /\ Head(q) \in HeadsIn(q) /\ Head(q) \in Bufs
         /\ HeadsIn(Tail(q)) = HeadsIn(q) \ {Head(q)}
         /\ Injective(Tail(q))
<1> DEFINE r == Tail(q)
<1>1. /\ r \in Seq(Bufs) /\ Len(r) = Len(q) - 1 /\ Len(q) \in Nat /\ Len(q) > 0
      /\ DOMAIN q = 1 .. Len(q) /\ DOMAIN r = 1 .. Len(q) - 1
      /\ \A i \in 1 .. Len(q) - 1 : r[i] = q[i + 1]
      /\ Head(q) = q[1]
  OBVIOUS
<1> HIDE DEF r
<1>2. 1 \in DOMAIN q /\ Head(q) = q[1]
  BY <1>1
<1>3. Head(q) \in HeadsIn(q) /\ Head(q) \in Bufs
  BY <1>2 DEF HeadsIn
<1>4. \A i \in DOMAIN r : i + 1 \in DOMAIN q /\ i + 1 # 1 /\ r[i] = q[i + 1]
  BY <1>1
<1>5. \A i \in DOMAIN q : i # 1 => i - 1 \in DOMAIN r /\ r[i - 1] = q[i]
  BY <1>1
<1>6. \A i \in DOMAIN r : r[i] \in HeadsIn(q) /\ r[i] # Head(q)
  BY <1>2, <1>4 DEF HeadsIn, Injective
<1>7. \A i \in DOMAIN q : q[i] # Head(q) => q[i] \in HeadsIn(r)
  BY <1>2, <1>5 DEF HeadsIn
<1>8. HeadsIn(r) = HeadsIn(q) \ {Head(q)}
  BY <1>6, <1>7 DEF HeadsIn
<1>9. Injective(r)
  <2> SUFFICES ASSUME NEW i \in DOMAIN r, NEW k \in DOMAIN r, r[i] = r[k] PROVE i = k
    BY DEF Injective
  <2>1. i + 1 = k + 1
    BY <1>4 DEF Injective
  <2> QED
    BY <1>1, <2>1
<1> QED
  BY <1>1, <1>3, <1>8, <1>9 DEF r

LEMMA StackStartsWith ==
  ASSUME NEW q \in Seq(Bufs), NEW b \in Bufs, Injective(q), b \notin HeadsIn(q)
  PROVE  /\ <<b>> \o q \in Seq(Bufs) /\ Len(<<b>> \o q) = Len(q) + 1
         /\ HeadsIn(<<b>> \o q) = HeadsIn(q) \cup {b}
         /\ Injective(<<b>> \o q)
<1> DEFINE r == <<b>> \o q
<1>1. /\ r \in Seq(Bufs) /\ Len(r) = Len(q) + 1 /\ Len(q) \in Nat
      /\ DOMAIN q = 1 .. Len(q) /\ DOMAIN r = 1 .. Len(q) + 1
      /\ \A i \in 2 .. Len(q) + 1 : r[i] = q[i - 1]
      /\ r[1] = b
  OBVIOUS
<1> HIDE DEF r
<1>2. \A i \in DOMAIN r : i # 1 => i - 1 \in DOMAIN q /\ r[i] = q[i - 1]
  BY <1>1
<1>3. \A i \in DOMAIN q : i + 1 \in DOMAIN r /\ r[i + 1] = q[i]
  BY <1>1
<1>4. 1 \in DOMAIN r
  BY <1>1
<1>5. HeadsIn(r) = HeadsIn(q) \cup {b}
  <2>1. \A i \in DOMAIN r : r[i] \in HeadsIn(q) \cup {b}
    BY <1>1, <1>2 DEF HeadsIn
  <2>2. \A i \in DOMAIN q : q[i] \in HeadsIn(r)
    BY <1>3 DEF HeadsIn
  <2>3. b \in HeadsIn(r)
    BY <1>1, <1>4 DEF HeadsIn
  <2>4. HeadsIn(r) \subseteq HeadsIn(q) \cup {b}
    BY <2>1 DEF HeadsIn
  <2>5. HeadsIn(q) \subseteq HeadsIn(r)
    BY <2>2 DEF HeadsIn
  <2> QED
    BY <2>3, <2>4, <2>5
<1>6. Injective(r)
  <2> SUFFICES ASSUME NEW i \in DOMAIN r, NEW k \in DOMAIN r, r[i] = r[k] PROVE i = k
    BY DEF Injective
  <2>1. CASE i = 1 \/ k = 1
    BY <1>1, <1>2, <2>1 DEF HeadsIn
  <2>2. CASE i # 1 /\ k # 1
    <3>1. i - 1 = k - 1
      BY <1>2, <2>2 DEF Injective
    <3> QED
      BY <1>1, <3>1
  <2> QED
    BY <2>1, <2>2
<1> QED
  BY <1>1, <1>5, <1>6 DEF r

\* What is left of a stack when its first chain has lost its first buffers.
LEMMA StackBehind ==
  ASSUME NEW q \in Seq(Bufs), q # <<>>, Injective(q),
         NEW g \in Bufs \cup {Null}, g \notin HeadsIn(q)
  PROVE  /\ Behind(q, g) \in Seq(Bufs) /\ Len(Behind(q, g)) <= Len(q)
         /\ HeadsIn(Behind(q, g)) = Without(HeadsIn(q), Head(q), g)
         /\ Injective(Behind(q, g))
<1>1. /\ Tail(q) \in Seq(Bufs) /\ Len(Tail(q)) = Len(q) - 1 /\ Injective(Tail(q))
      /\ HeadsIn(Tail(q)) = HeadsIn(q) \ {Head(q)}
      /\ Head(q) \in HeadsIn(q)
  BY StackPopped
<1>2. Len(q) \in Nat
  OBVIOUS
<1>3. CASE g = Null
  <2>1. Behind(q, g) = Tail(q)
    BY <1>3 DEF Behind
  <2>2. Without(HeadsIn(q), Head(q), g) = HeadsIn(q) \ {Head(q)}
    BY <1>3 DEF Without
  <2>3. Len(Tail(q)) <= Len(q)
    BY <1>1, <1>2
  <2> QED
    BY <1>1, <2>1, <2>2, <2>3, Zenon
<1>4. CASE g # Null
  <2>1. Behind(q, g) = <<g>> \o Tail(q)
    BY <1>4 DEF Behind
  <2>2. g \in Bufs /\ g \notin HeadsIn(Tail(q))
    BY <1>1, <1>4
  <2>3. /\ <<g>> \o Tail(q) \in Seq(Bufs) /\ Len(<<g>> \o Tail(q)) = Len(Tail(q)) + 1
        /\ HeadsIn(<<g>> \o Tail(q)) = HeadsIn(Tail(q)) \cup {g}
        /\ Injective(<<g>> \o Tail(q))
    BY <1>1, <2>2, StackStartsWith
  <2>4. Without(HeadsIn(q), Head(q), g) = (HeadsIn(q) \ {Head(q)}) \cup {g}
    BY <1>4 DEF Without
  <2>5. Len(Tail(q)) + 1 <= Len(q)
    BY <1>1, <1>2
  <2> QED
    BY <1>1, <2>1, <2>3, <2>4, <2>5, Zenon
<1> QED
  BY <1>3, <1>4

-----------------------------------------------------------------------------
(* The inductive invariant: what the variables say of the holders.         *)

\* The heads of the chains of each holder, put together.
HeadsOf(reply, usb, forReply, forUsb, ofClients) ==
  [k \in Holders |-> CASE k = Reply -> reply
                       [] k = Usb -> usb
                       [] k = ForReply -> forReply
                       [] k = ForUsb -> forUsb
                       [] OTHER -> ofClients[k]]

ClientHeads(current, stacks) == [c \in Clients |-> ({current[c]} \ {Null}) \cup HeadsIn(stacks[c])]

\* What Main carries, for each of the stacks.
ReplyCarried(where, head) == IF where = "chain" THEN {head} ELSE {}
UsbCarried(where, head, usb) == IF where = "usb" \/ (where = "chain" /\ usb) THEN {head} ELSE {}

heads ==
  HeadsOf(HeadsIn(gcodeReply), HeadsIn(usbOutput),
          ReplyCarried(storing, chain), UsbCarried(storing, chain, toUsb),
          ClientHeads(outBuf, outStack))

BufferRecords ==
  [free : BOOLEAN, next : 0 .. Buffers, length : 0 .. Full, bytesRead : 0 .. Beyond,
   references : Nat, isReferenced : BOOLEAN]

Typed ==
  /\ buffer \in [Bufs -> BufferRecords]
  /\ gcodeReply \in Seq(Bufs) /\ Len(gcodeReply) <= StackDepth
  /\ usbOutput \in Seq(Bufs) /\ Len(usbOutput) <= StackDepth
  /\ outBuf \in [Clients -> 0 .. Buffers] /\ outStack \in [Clients -> Seq(Bufs)]
  /\ \A c \in Clients : Len(outStack[c]) <= StackDepth
  /\ sessions \subseteq Clients
  /\ clientsServed \in 0 .. Cardinality(Clients)
  /\ storing \in {"no", "text", "chain", "usb"}
  /\ chain \in 0 .. Buffers /\ toUsb \in BOOLEAN /\ replies \in 0 .. MaxReplies

\* A reply that is kept has somebody to be served with it.
Served ==
  /\ gcodeReply # <<>> => clientsServed < Cardinality(Clients)
  /\ storing \in {"text", "chain"} => Clients # {}

\* No stack has a chain twice, and Main is never on its way with nothing.
Once ==
  /\ Injective(gcodeReply) /\ Injective(usbOutput)
  /\ \A c \in Clients : Injective(outStack[c]) /\ outBuf[c] \notin HeadsIn(outStack[c])
  /\ storing \in {"chain", "usb"} => chain # Null

BuffersInv == Typed /\ Served /\ Once /\ Sound(buffer, heads)

\* Who sends has something to send: what a client's responder has under way, and
\* the first chain for USB.
CountingInv ==
  /\ sending \in [Clients -> Access] /\ flushing \in Access
  /\ \A c \in Clients : sending[c].step # "no" => outBuf[c] # Null
  /\ flushing.step # "no" => usbOutput # <<>>

LEMMA BufsAre == Bufs \cup {Null} = 0 .. Buffers /\ 0 .. Buffers = Bufs \cup {Null}
BY BuffersAssumption DEF Bufs, Null

LEMMA HeadsAre ==
  ASSUME NEW r, NEW u, NEW f, NEW g, NEW cs
  PROVE  /\ HeadsOf(r, u, f, g, cs)[Reply] = r /\ HeadsOf(r, u, f, g, cs)[Usb] = u
         /\ HeadsOf(r, u, f, g, cs)[ForReply] = f /\ HeadsOf(r, u, f, g, cs)[ForUsb] = g
         /\ \A c \in Clients : HeadsOf(r, u, f, g, cs)[c] = cs[c]
         /\ Clients \subseteq Holders
         /\ Reply \in Holders /\ Usb \in Holders /\ ForReply \in Holders /\ ForUsb \in Holders
BY HoldersDiffer DEF HeadsOf, Holders

-----------------------------------------------------------------------------
(* What the operators of the module do to the buffers.                     *)

\* A chain is one of the state's buffers.
LEMMA StateChains ==
  /\ \A h : Chain(h) = ChainIn(buffer, h)
  /\ \A q : ChainsOf(q) = ReachIn(buffer, HeadsIn(q))
<1>1. \A h : Chain(h) = ChainIn(buffer, h)
  BY DEF Chain, ChainIn, Bufs
<1>2. \A q : ChainsOf(q) = ReachIn(buffer, HeadsIn(q))
  BY <1>1 DEF ChainsOf, ReachIn, HeadsIn
<1> QED
  BY <1>1, <1>2

LEMMA BlankIs ==
  /\ Blank \in BufferRecords /\ Blank.free = TRUE /\ Blank.next = Null
  /\ Blank.references = 0 /\ Blank.isReferenced = FALSE
BY BuffersAssumption DEF Blank, BufferRecords, Full, Beyond, Null

LEMMA UsedIs ==
  ASSUME NEW length \in 0 .. Full, NEW references \in Nat, NEW follower \in 0 .. Buffers
  PROVE  /\ Used(length, references, follower) \in BufferRecords
         /\ IsFresh(Used(length, references, follower), follower, references, FALSE)
<1> DEFINE x == [Blank EXCEPT !.free = FALSE, !.length = length, !.references = references,
                              !.next = follower]
<1>1. x \in BufferRecords
  BY BlankIs DEF BufferRecords
<1>2. x.free = FALSE /\ x.next = follower /\ x.references = references /\ x.isReferenced = FALSE
  BY BlankIs DEF BufferRecords
<1> QED
  BY <1>1, <1>2 DEF Used, IsFresh

LEMMA ReleaseIs ==
  ASSUME Typed, NEW S, Release(S)
  PROVE  Released(buffer, buffer', S) /\ buffer' \in [Bufs -> BufferRecords]
<1>1. /\ buffer' \in [Bufs -> {buffer'[b] : b \in Bufs}]
      /\ \A b \in Bufs :
           buffer'[b] = IF b \notin S THEN buffer[b]
                        ELSE IF buffer[b].references > 1
                        THEN [buffer[b] EXCEPT !.references = @ - 1, !.bytesRead = 0]
                        ELSE Blank
  BY DEF Release, Bufs
<1>2. ASSUME NEW b \in Bufs
      PROVE  /\ buffer'[b] \in BufferRecords
             /\ b \in S /\ buffer[b].references > 1 =>
                  /\ buffer'[b].references = buffer[b].references - 1
                  /\ buffer'[b].next = buffer[b].next /\ buffer'[b].free = buffer[b].free
                  /\ buffer'[b].isReferenced = buffer[b].isReferenced
  <2>1. buffer[b] \in BufferRecords
    BY DEF Typed
  <2>2. CASE b \in S /\ buffer[b].references > 1
    <3>1. buffer'[b] = [buffer[b] EXCEPT !.references = @ - 1, !.bytesRead = 0]
      BY <1>1, <2>2
    <3>2. buffer[b].references - 1 \in Nat /\ 0 \in 0 .. Beyond
      BY <2>1, <2>2 DEF BufferRecords, Full, Beyond
    <3>3. buffer'[b] \in BufferRecords
      BY <2>1, <3>1, <3>2 DEF BufferRecords
    <3>4. /\ buffer'[b].references = buffer[b].references - 1
          /\ buffer'[b].next = buffer[b].next /\ buffer'[b].free = buffer[b].free
          /\ buffer'[b].isReferenced = buffer[b].isReferenced
      BY <2>1, <3>1 DEF BufferRecords
    <3> QED
      BY <3>3, <3>4
  <2>3. CASE ~(b \in S /\ buffer[b].references > 1)
    BY <1>1, <2>1, <2>3, BlankIs
  <2> QED
    BY <2>2, <2>3
<1> QED
  BY <1>1, <1>2 DEF Released

\* Another count is written to a buffer.
LEMMA CountIs ==
  ASSUME Typed, NEW b \in Bufs, NEW n \in 0 .. Beyond,
         buffer' = [buffer EXCEPT ![b].bytesRead = n]
  PROVE  /\ buffer' \in [Bufs -> BufferRecords]
         /\ SameLinks(buffer, buffer')
<1>1. buffer \in [Bufs -> BufferRecords] /\ buffer[b] \in BufferRecords
  BY DEF Typed
<1>2. [buffer[b] EXCEPT !.bytesRead = n] \in BufferRecords
  BY <1>1 DEF BufferRecords
<1>3. buffer' = [buffer EXCEPT ![b] = [buffer[b] EXCEPT !.bytesRead = n]]
  BY <1>1
<1>4. buffer' \in [Bufs -> BufferRecords]
  BY <1>1, <1>2, <1>3
<1>5. ASSUME NEW x \in Bufs
      PROVE  /\ buffer'[x].next = buffer[x].next /\ buffer'[x].free = buffer[x].free
             /\ buffer'[x].references = buffer[x].references
             /\ buffer'[x].isReferenced = buffer[x].isReferenced
  <2>1. CASE x = b
    BY <1>1, <1>3, <2>1 DEF BufferRecords
  <2>2. CASE x # b
    BY <1>1, <1>3, <2>2
  <2> QED
    BY <2>1, <2>2
<1> QED
  BY <1>4, <1>5 DEF SameLinks

\* A set of natural numbers that is not empty has a smallest member.
LEMMA Smallest ==
  ASSUME NEW T \in SUBSET Nat, T # {}
  PROVE  \E x \in T : \A y \in T : x <= y
<1>1. PICK x \in T : \A y \in T : ~(<<y, x>> \in OpToRel(<, Nat))
  BY NatLessThanWellFounded, WFMin
<1>2. \A y \in T : ~(y < x)
  BY <1>1 DEF OpToRel
<1> QED
  BY <1>2

\* A chain ends.
LEMMA ChainEnds ==
  ASSUME NEW buf, Linked(buf), NoLoop(buf), NEW h \in Bufs
  PROVE  \E b \in ChainIn(buf, h) : buf[b].next = Null
<1> DEFINE C == ChainIn(buf, h)
           size(b) == Cardinality(ChainIn(buf, b))
           T == {size(b) : b \in C}
<1>1. /\ C \subseteq Bufs /\ h \in C
      /\ \A b \in C : buf[b].next \in C \cup {Null}
  BY ChainBasics
<1>2. \A b \in Bufs : IsFiniteSet(ChainIn(buf, b)) /\ size(b) \in Nat
  <2> TAKE b \in Bufs
  <2>1. IsFiniteSet(Bufs)
    BY BuffersAssumption, FS_Interval DEF Bufs
  <2>2. ChainIn(buf, b) \in SUBSET Bufs
    BY ChainBasics
  <2>3. IsFiniteSet(ChainIn(buf, b))
    BY <2>1, <2>2, FS_Subset
  <2> QED
    BY <2>3, FS_CardinalityType
<1>3. T \in SUBSET Nat /\ T # {}
  BY <1>1, <1>2
<1> HIDE DEF T
<1>4. PICK x \in T : \A y \in T : x <= y
  BY <1>3, Smallest
<1>5. PICK b \in C : x = size(b)
  BY DEF T
<1>6. ASSUME buf[b].next # Null PROVE FALSE
  <2>1. buf[b].next \in C /\ b \in Bufs /\ buf[b].next \in Bufs
    BY <1>1, <1>5, <1>6
  <2>2. ChainIn(buf, b) = {b} \cup ChainIn(buf, buf[b].next) /\ b \notin ChainIn(buf, buf[b].next)
    BY <2>1, ChainSplits DEF NoLoop
  <2>3. Cardinality(ChainIn(buf, buf[b].next) \cup {b}) = size(buf[b].next) + 1
    BY <1>2, <2>1, <2>2, FS_AddElement
  <2>4. size(b) = size(buf[b].next) + 1
    BY <2>2, <2>3
  <2>5. size(buf[b].next) \in T /\ size(buf[b].next) \in Nat
    BY <1>2, <2>1 DEF T
  <2> HIDE DEF size
  <2> QED
    BY <1>4, <1>5, <2>4, <2>5
<1> QED
  BY <1>6

-----------------------------------------------------------------------------
(* The actions keep the invariant.                                         *)

LEMMA HeadsNow ==
  ASSUME BuffersInv
  PROVE  /\ heads \in [Holders -> SUBSET Bufs]
         /\ heads[Reply] = HeadsIn(gcodeReply) /\ heads[Usb] = HeadsIn(usbOutput)
         /\ heads[ForReply] = ReplyCarried(storing, chain)
         /\ heads[ForUsb] = UsbCarried(storing, chain, toUsb)
         /\ \A c \in Clients : heads[c] = ({outBuf[c]} \ {Null}) \cup HeadsIn(outStack[c])
         /\ Clients \subseteq Holders
         /\ Reply \in Holders /\ Usb \in Holders /\ ForReply \in Holders /\ ForUsb \in Holders
<1> DEFINE r == HeadsIn(gcodeReply)
           u == HeadsIn(usbOutput)
           f == ReplyCarried(storing, chain)
           g == UsbCarried(storing, chain, toUsb)
           cs == ClientHeads(outBuf, outStack)
<1>1. heads \in [Holders -> SUBSET Bufs]
  BY DEF BuffersInv, Sound
<1>2. \A c \in Clients : cs[c] = ({outBuf[c]} \ {Null}) \cup HeadsIn(outStack[c])
  BY DEF ClientHeads
<1>3. heads = HeadsOf(r, u, f, g, cs)
  BY DEF heads
<1> HIDE DEF r, u, f, g, cs
<1>4. /\ heads[Reply] = r /\ heads[Usb] = u /\ heads[ForReply] = f /\ heads[ForUsb] = g
      /\ \A c \in Clients : heads[c] = cs[c]
      /\ Clients \subseteq Holders
      /\ Reply \in Holders /\ Usb \in Holders /\ ForReply \in Holders /\ ForUsb \in Holders
  BY <1>3, HeadsAre
<1> QED
  BY <1>1, <1>2, <1>4 DEF r, u, f, g

LEMMA HeadsNext ==
  ASSUME NEW hd \in [Holders -> SUBSET Bufs],
         hd[Reply] = HeadsIn(gcodeReply'), hd[Usb] = HeadsIn(usbOutput'),
         hd[ForReply] = ReplyCarried(storing', chain'),
         hd[ForUsb] = UsbCarried(storing', chain', toUsb'),
         \A c \in Clients : hd[c] = ({outBuf'[c]} \ {Null}) \cup HeadsIn(outStack'[c])
  PROVE  heads' = hd
<1> DEFINE r == HeadsIn(gcodeReply')
           u == HeadsIn(usbOutput')
           f == ReplyCarried(storing', chain')
           g == UsbCarried(storing', chain', toUsb')
           cs == ClientHeads(outBuf', outStack')
<1>1. \A c \in Clients : hd[c] = cs[c]
  BY DEF ClientHeads
<1>2. hd[Reply] = r /\ hd[Usb] = u /\ hd[ForReply] = f /\ hd[ForUsb] = g
  OBVIOUS
<1>3. heads' = HeadsOf(r, u, f, g, cs)
  BY DEF heads
<1> HIDE DEF r, u, f, g, cs
<1>4. \A k \in Holders : heads'[k] = hd[k]
  <2>1. /\ heads'[Reply] = r /\ heads'[Usb] = u /\ heads'[ForReply] = f /\ heads'[ForUsb] = g
        /\ \A c \in Clients : heads'[c] = cs[c]
    BY <1>3, HeadsAre
  <2>2. \A k \in Holders : k \in Clients \/ k \in {Reply, Usb, ForReply, ForUsb}
    BY DEF Holders
  <2> QED
    BY <1>1, <1>2, <2>1, <2>2
<1>5. heads' = [k \in Holders |-> heads'[k]]
  BY <1>3 DEF HeadsOf
<1>6. hd = [k \in Holders |-> hd[k]]
  OBVIOUS
<1> QED
  BY <1>4, <1>5, <1>6

\* A buffer that heads a chain is in use, and one that is free heads none.
LEMMA HeadsAreUsed ==
  ASSUME BuffersInv, NEW k \in Holders, NEW h \in heads[k]
  PROVE  /\ h \in Bufs /\ h \in ReachIn(buffer, heads[k])
         /\ ChainIn(buffer, h) \subseteq ReachIn(buffer, heads[k])
         /\ k \in HoldersOf(buffer, heads, h) /\ ~buffer[h].free
<1>1. Linked(buffer) /\ h \in Bufs
  BY DEF BuffersInv, Sound
<1>2. h \in ReachIn(buffer, heads[k]) /\ ChainIn(buffer, h) \subseteq ReachIn(buffer, heads[k])
  BY <1>1, ReachBasics DEF ReachIn
<1>3. k \in HoldersOf(buffer, heads, h)
  BY <1>2 DEF HoldersOf
<1>4. ~buffer[h].free
  BY <1>1, <1>3 DEF BuffersInv, Sound, Accounted
<1> QED
  BY <1>1, <1>2, <1>3, <1>4

LEMMA SessionsCount ==
  ASSUME NEW S \in SUBSET Clients
  PROVE  /\ IsFiniteSet(S) /\ Cardinality(S) \in Nat /\ Cardinality(S) <= Cardinality(Clients)
         /\ Cardinality(Clients) \in Nat
         /\ Clients # {} => Cardinality(Clients) > 0
<1>1. IsFiniteSet(Clients)
  BY BuffersAssumption
<1>2. IsFiniteSet(S) /\ Cardinality(S) <= Cardinality(Clients)
  BY <1>1, FS_Subset, FS_CardinalityType
<1>3. Cardinality(S) \in Nat /\ Cardinality(Clients) \in Nat
  BY <1>1, <1>2, FS_CardinalityType
<1>4. Clients # {} => Cardinality(Clients) # 0
  BY <1>1, FS_EmptySet
<1> QED
  BY <1>2, <1>3, <1>4

LEMMA StartTextKeeps ==
  ASSUME BuffersInv, StartText
  PROVE  BuffersInv'
<1>1. /\ Typed /\ Served /\ Once /\ Sound(buffer, heads)
      /\ storing = "no" /\ replies < MaxReplies /\ sessions # {}
      /\ storing' = "text" /\ replies' = replies + 1
      /\ UNCHANGED <<buffer, gcodeReply, usbOutput, outBuf, outStack, sessions, clientsServed,
                     chain, toUsb>>
  BY DEF BuffersInv, StartText, network
<1>2. Typed'
  <2>1. replies' \in 0 .. MaxReplies
    BY <1>1, BuffersAssumption DEF Typed
  <2> QED
    BY <1>1, <2>1 DEF Typed
<1>3. Served'
  BY <1>1 DEF Served, Typed
<1>4. Once'
  BY <1>1 DEF Once
<1>5. heads' = heads
  BY <1>1 DEF heads, ReplyCarried, UsbCarried
<1>6. Sound(buffer', heads')
  BY <1>1, <1>5
<1> QED
  BY <1>2, <1>3, <1>4, <1>6 DEF BuffersInv

LEMMA SessionsKeep ==
  ASSUME BuffersInv, sessions' \in SUBSET Clients,
         UNCHANGED <<buffer, gcodeReply, usbOutput, network, clientsServed, main>>
  PROVE  BuffersInv'
<1>1. /\ Typed /\ Served /\ Once /\ Sound(buffer, heads)
      /\ UNCHANGED <<buffer, gcodeReply, usbOutput, outBuf, outStack, clientsServed,
                     storing, chain, toUsb, replies>>
  BY DEF BuffersInv, network, main
<1>2. Typed' /\ Served' /\ Once'
  BY <1>1 DEF Typed, Served, Once
<1>3. heads' = heads
  BY <1>1 DEF heads
<1>4. Sound(buffer', heads')
  BY <1>1, <1>3
<1> QED
  BY <1>2, <1>4 DEF BuffersInv

LEMMA ConnectKeeps ==
  ASSUME BuffersInv, NEW c \in Clients, Connect(c) \/ Disconnect(c)
  PROVE  BuffersInv'
<1>1. sessions' \in SUBSET Clients
  BY DEF Connect, Disconnect, BuffersInv, Typed
<1>2. UNCHANGED <<buffer, gcodeReply, usbOutput, network, clientsServed, main>>
  BY DEF Connect, Disconnect
<1> QED
  BY <1>1, <1>2, SessionsKeep

\* What a task has read of a count matters to no other task.
LEMMA StutterKeeps ==
  ASSUME BuffersInv,
         UNCHANGED <<buffer, gcodeReply, usbOutput, network, sessions, clientsServed, main>>
  PROVE  BuffersInv'
<1>1. sessions' \in SUBSET Clients
  BY DEF BuffersInv, Typed
<1>2. UNCHANGED <<buffer, gcodeReply, usbOutput, network, clientsServed, main>>
  OBVIOUS
<1> QED
  BY <1>1, <1>2, SessionsKeep

\* What may be allocated is there.
LEMMA MayAllocateIs ==
  /\ IsFiniteSet(FreeBuffers) /\ FreeBuffers \subseteq Bufs
  /\ \A b \in FreeBuffers : buffer[b].free
  /\ MayAllocate(1) \/ MayAllocate(2) => FreeBuffers # {}
  /\ MayAllocate(2) => \A b \in FreeBuffers : FreeBuffers \ {b} # {}
<1>1. IsFiniteSet(Bufs)
  BY BuffersAssumption, FS_Interval DEF Bufs
<1>2. FreeBuffers \in SUBSET Bufs /\ \A b \in FreeBuffers : buffer[b].free
  BY DEF FreeBuffers, Bufs
<1>3. IsFiniteSet(FreeBuffers)
  BY <1>1, <1>2, FS_Subset
<1>4. Cardinality(FreeBuffers) \in Nat /\ Cardinality({}) = 0
  BY <1>3, FS_CardinalityType, FS_EmptySet
<1>5. MayAllocate(1) \/ MayAllocate(2) => FreeBuffers # {}
  <2>1. MayAllocate(1) => Cardinality(FreeBuffers) # 0
    BY <1>4, BuffersAssumption DEF MayAllocate
  <2>2. MayAllocate(2) => Cardinality(FreeBuffers) # 0
    BY <1>4, BuffersAssumption DEF MayAllocate
  <2> QED
    BY <1>4, <2>1, <2>2
<1>6. ASSUME MayAllocate(2), NEW b \in FreeBuffers PROVE FreeBuffers \ {b} # {}
  <2>1. Cardinality(FreeBuffers \ {b}) = Cardinality(FreeBuffers) - 1
    BY <1>3, FS_RemoveElement
  <2>2. Cardinality(FreeBuffers) >= 2
    BY <1>4, <1>6, BuffersAssumption DEF MayAllocate
  <2> QED
    BY <1>4, <2>1, <2>2
<1> QED
  BY <1>2, <1>3, <1>5, <1>6

\* cat, onto a chain that nobody shares.
LEMMA CatKeepsSound ==
  ASSUME BuffersInv, NEW k \in Holders, NEW head \in heads[k], ~buffer[head].isReferenced,
         NEW length \in 1 .. Full, Cat(head, length)
  PROVE  buffer' \in [Bufs -> BufferRecords] /\ Sound(buffer', heads)
<1> DEFINE last == LastOf(head)
           fits == IF buffer[last].length + length <= Full THEN length
                   ELSE Full - buffer[last].length
           more == IF fits < length /\ MayAllocate(1)
                   THEN CHOOSE b \in FreeBuffers : TRUE ELSE Null
<1>0. /\ buffer' = [b \in 1 .. Buffers |->
            IF b = last
            THEN [buffer[b] EXCEPT !.length = @ + fits, !.next = more]
            ELSE IF b = more THEN Used(length - fits, buffer[head].references, Null)
            ELSE buffer[b]]
      /\ Typed /\ Sound(buffer, heads) /\ Linked(buffer) /\ NoLoop(buffer) /\ Alone(buffer)
      /\ Accounted(buffer, heads)
  BY DEF Cat, BuffersInv, Sound
<1>1. head \in Bufs /\ ~buffer[head].free /\ head \in ChainIn(buffer, head)
  BY <1>0, HeadsAreUsed, ChainBasics
<1>2. last \in ChainIn(buffer, head) /\ buffer[last].next = Null
  <2>1. \E b \in ChainIn(buffer, head) : buffer[b].next = Null
    BY <1>0, <1>1, ChainEnds
  <2>2. last = CHOOSE b \in ChainIn(buffer, head) : buffer[b].next = Null
    BY StateChains DEF LastOf
  <2> HIDE DEF last
  <2> QED
    BY <2>1, <2>2
<1>3. /\ last \in Bufs /\ buffer[last].references = 1 /\ buffer[head].references = 1
      /\ ~buffer[last].free
  <2>1. last \in Bufs /\ buffer[last].references = 1 /\ buffer[head].references = 1
    BY <1>0, <1>1, <1>2, ChainBasics DEF Alone
  <2>2. Cardinality(HoldersOf(buffer, heads, last)) = 1
    BY <1>0, <2>1 DEF Accounted
  <2>3. HoldersOf(buffer, heads, last) # {}
    BY <2>2, HoldersCount
  <2> QED
    BY <1>0, <2>1, <2>3 DEF Accounted
<1>4. buffer[last] \in BufferRecords /\ buffer \in [Bufs -> BufferRecords]
  BY <1>0, <1>3 DEF Typed
<1>5. fits \in 0 .. Full /\ buffer[last].length + fits \in 0 .. Full /\ length - fits \in 0 .. Full
  BY <1>4 DEF BufferRecords, Full
<1>6. more = Null \/ (more \in Bufs /\ buffer[more].free /\ more # last)
  <2>1. CASE fits < length /\ MayAllocate(1)
    <3>1. more = CHOOSE b \in FreeBuffers : TRUE
      BY <2>1
    <3>2. FreeBuffers # {}
      BY <2>1, MayAllocateIs
    <3> HIDE DEF more, last
    <3>3. more \in FreeBuffers
      BY <3>1, <3>2
    <3> QED
      BY <1>3, <3>3, MayAllocateIs
  <2>2. CASE ~(fits < length /\ MayAllocate(1))
    BY <2>2
  <2> QED
    BY <2>1, <2>2
<1>7. more \in 0 .. Buffers
  BY <1>6, BufsAre
<1> HIDE DEF last, fits, more
<1> DEFINE x == [buffer[last] EXCEPT !.length = @ + fits, !.next = more]
<1>8. x \in BufferRecords
  BY <1>4, <1>5, <1>7 DEF BufferRecords
<1>9. /\ x.next = more /\ x.free = buffer[last].free /\ x.references = buffer[last].references
      /\ x.isReferenced = buffer[last].isReferenced
  BY <1>4 DEF BufferRecords
<1>10. /\ buffer'[last] = x
       /\ more # Null => buffer'[more] = Used(length - fits, 1, Null)
       /\ \A b \in Bufs \ {last, more} : buffer'[b] = buffer[b]
  <2>1. last \in 1 .. Buffers /\ (more # Null => more \in 1 .. Buffers /\ more # last)
    BY <1>3, <1>6 DEF Bufs
  <2> QED
    BY <1>0, <1>3, <2>1 DEF Bufs
<1> HIDE DEF x
<1>11. /\ Used(length - fits, 1, Null) \in BufferRecords
       /\ IsFresh(Used(length - fits, 1, Null), Null, 1, FALSE)
  BY <1>5, BufsAre, UsedIs
<1>12. buffer' \in [Bufs -> BufferRecords]
  <2>1. ASSUME NEW b \in Bufs PROVE buffer'[b] \in BufferRecords
    <3>1. b = last \/ (b = more /\ more # Null) \/ (b # last /\ b # more)
      BY NullIsNone
    <3> QED
      BY <1>4, <1>8, <1>10, <1>11, <3>1
  <2>2. buffer' = [b \in Bufs |-> buffer'[b]]
    BY <1>0 DEF Bufs
  <2> QED
    BY <2>1, <2>2
<1>13. CASE more = Null
  <2>1. SameLinks(buffer, buffer')
    BY <1>2, <1>9, <1>10, <1>13, NullIsNone DEF SameLinks
  <2>2. Sound(buffer', heads)
    BY <1>0, <2>1, OnlyContents
  <2> QED
    BY <1>12, <2>2
<1>14. CASE more # Null
  <2>1. more \in Bufs /\ buffer[more].free /\ more # last /\ buffer[more].next = Null
    BY <1>0, <1>6, <1>14 DEF Sound, FreeIsEnd
  <2>2. IsLonger(buffer, buffer', last, more)
    <3>1. buffer'[more].next = Null
      BY <1>10, <1>11, <1>14 DEF IsFresh
    <3>2. buffer'[last].next = more
      BY <1>9, <1>10
    <3>3. \A b \in Bufs \ {last} : buffer'[b].next = buffer[b].next
      BY <1>10, <2>1, <3>1
    <3> QED
      BY <1>2, <1>3, <2>1, <3>2, <3>3 DEF IsLonger
  <2>3. IsFresh(buffer'[more], Null, 1, FALSE)
    BY <1>10, <1>11, <1>14
  <2>4. IsFresh(buffer'[last], more, 1, buffer[last].isReferenced)
    BY <1>3, <1>4, <1>9, <1>10 DEF IsFresh, BufferRecords
  <2>5. Sound(buffer', heads)
    BY <1>0, <1>3, <1>10, <2>1, <2>2, <2>3, <2>4, LongerChain
  <2> QED
    BY <1>12, <2>5
<1> QED
  BY <1>13, <1>14

LEMMA OnlyOne ==
  ASSUME NEW k
  PROVE  Cardinality({k}) = 1
BY FS_Singleton

\* A text makes a new reply, of one buffer.
LEMMA TextKeepsSound ==
  ASSUME BuffersInv, NEW b \in FreeBuffers, NEW length \in 1 .. Full,
         buffer' = [buffer EXCEPT ![b] = Used(length, 1, Null)]
  PROVE  /\ buffer' \in [Bufs -> BufferRecords] /\ Sound(buffer', WithHead(heads, {Reply}, b))
         /\ b \in Bufs /\ b \notin heads[Reply]
<1>1. Typed /\ Sound(buffer, heads) /\ buffer \in [Bufs -> BufferRecords]
  BY DEF BuffersInv, Typed
<1>2. b \in Bufs /\ buffer[b].free
  BY MayAllocateIs
<1>3. Reply \in Holders
  BY DEF Holders
<1>4. b \notin heads[Reply]
  BY <1>2, <1>3, HeadsAreUsed
<1>5. /\ Used(length, 1, Null) \in BufferRecords
      /\ IsFresh(Used(length, 1, Null), Null, 1, FALSE)
  <2>1. length \in 0 .. Full /\ 1 \in Nat /\ Null \in 0 .. Buffers
    BY BufsAre DEF Full
  <2> QED
    BY <2>1, UsedIs
<1>6. /\ buffer' \in [Bufs -> BufferRecords]
      /\ buffer'[b] = Used(length, 1, Null) /\ \A x \in Bufs \ {b, Null} : buffer'[x] = buffer[x]
  BY <1>1, <1>2, <1>5
<1>7. Cardinality({Reply}) = 1 /\ {Reply} # {} /\ {Reply} \in SUBSET Holders
  BY <1>3, OnlyOne
<1>8. /\ ~(Reply \in {Reply} /\ ForReply \in {Reply}) /\ ~(Usb \in {Reply} /\ ForUsb \in {Reply})
  BY HoldersDiffer
<1>9. IsFresh(buffer'[b], Null, Cardinality({Reply}), FALSE)
  BY <1>5, <1>6, <1>7
<1>10. Null \in Bufs \cup {Null} /\ Null # b /\ FALSE \in BOOLEAN
  BY <1>2, NullIsNone
<1> DEFINE J == {Reply}
<1> HIDE DEF J
<1>11. /\ J \in SUBSET Holders /\ J # {} /\ Cardinality(J) = 1
       /\ ~(Reply \in J /\ ForReply \in J) /\ ~(Usb \in J /\ ForUsb \in J)
       /\ IsFresh(buffer'[b], Null, Cardinality(J), FALSE)
  BY <1>7, <1>8, <1>9 DEF J
<1>12. Sound(buffer', WithHead(heads, J, b))
  BY <1>1, <1>2, <1>6, <1>10, <1>11, NewChain
<1> QED
  BY <1>2, <1>4, <1>6, <1>12 DEF J

LEMMA StoreTextKeeps ==
  ASSUME BuffersInv, StoreText
  PROVE  BuffersInv'
<1>1. /\ Typed /\ Served /\ Once /\ Sound(buffer, heads)
      /\ storing = "text" /\ storing' = "no"
      /\ UNCHANGED <<usbOutput, outBuf, outStack, sessions, chain, toUsb, replies>>
  BY DEF BuffersInv, StoreText, network
<1>2. Cardinality(Clients) \in Nat /\ Cardinality(Clients) > 0
  BY <1>1, SessionsCount DEF Served
<1>3. /\ ReplyCarried(storing', chain') = {} /\ ReplyCarried(storing, chain) = {}
      /\ UsbCarried(storing', chain', toUsb') = {} /\ UsbCarried(storing, chain, toUsb) = {}
  BY <1>1 DEF ReplyCarried, UsbCarried
<1>4. PICK length \in 1 .. Full :
        IF gcodeReply # <<>> /\ ~buffer[gcodeReply[Len(gcodeReply)]].isReferenced
        THEN /\ Cat(gcodeReply[Len(gcodeReply)], length)
             /\ clientsServed' = 0 /\ UNCHANGED gcodeReply
        ELSE IF MayAllocate(1) /\ Len(gcodeReply) < StackDepth
        THEN LET b == CHOOSE b \in FreeBuffers : TRUE
             IN /\ buffer' = [buffer EXCEPT ![b] = Used(length, 1, Null)]
                /\ gcodeReply' = Append(gcodeReply, b)
                /\ clientsServed' = 0
        ELSE UNCHANGED <<buffer, gcodeReply, clientsServed>>
  BY DEF StoreText
<1>5. CASE gcodeReply # <<>> /\ ~buffer[gcodeReply[Len(gcodeReply)]].isReferenced
  <2>1. /\ Cat(gcodeReply[Len(gcodeReply)], length)
        /\ clientsServed' = 0 /\ UNCHANGED gcodeReply
    BY <1>4, <1>5
  <2>2. gcodeReply[Len(gcodeReply)] \in heads[Reply] /\ Reply \in Holders
    <3>1. Len(gcodeReply) \in DOMAIN gcodeReply
      BY <1>1, <1>5 DEF Typed
    <3> QED
      BY <3>1, HeadsNow DEF HeadsIn
  <2>3. buffer' \in [Bufs -> BufferRecords] /\ Sound(buffer', heads)
    BY <1>5, <2>1, <2>2, CatKeepsSound
  <2>4. heads' = heads
    BY <1>1, <1>3, <2>1 DEF heads
  <2>5. Typed' /\ Served' /\ Once'
    BY <1>1, <1>2, <2>1, <2>3 DEF Typed, Served, Once
  <2> QED
    BY <2>3, <2>4, <2>5 DEF BuffersInv
<1>6. CASE /\ ~(gcodeReply # <<>> /\ ~buffer[gcodeReply[Len(gcodeReply)]].isReferenced)
           /\ MayAllocate(1) /\ Len(gcodeReply) < StackDepth
  <2>1. PICK b \in FreeBuffers : /\ buffer' = [buffer EXCEPT ![b] = Used(length, 1, Null)]
                                 /\ gcodeReply' = Append(gcodeReply, b)
                                 /\ clientsServed' = 0
    BY <1>4, <1>6, MayAllocateIs
  <2>2. /\ buffer' \in [Bufs -> BufferRecords] /\ Sound(buffer', WithHead(heads, {Reply}, b))
        /\ b \in Bufs /\ b \notin heads[Reply]
    BY <2>1, TextKeepsSound
  <2>3. /\ gcodeReply' \in Seq(Bufs) /\ Len(gcodeReply') = Len(gcodeReply) + 1
        /\ HeadsIn(gcodeReply') = HeadsIn(gcodeReply) \cup {b} /\ Injective(gcodeReply')
    <3>1. b \notin HeadsIn(gcodeReply)
      BY <2>2, HeadsNow
    <3> QED
      BY <1>1, <2>1, <2>2, <3>1, StackPushed DEF Typed, Once
  <2>4. Len(gcodeReply') <= StackDepth
    BY <1>1, <1>6, <2>3, BuffersAssumption DEF Typed
  <2>5. Typed' /\ Served' /\ Once'
    BY <1>1, <1>2, <2>1, <2>2, <2>3, <2>4 DEF Typed, Served, Once
  <2>6. heads' = WithHead(heads, {Reply}, b)
    <3> DEFINE hd == WithHead(heads, {Reply}, b)
    <3>1. hd \in [Holders -> SUBSET Bufs]
      BY <2>2 DEF Sound
    <3>2. /\ hd[Reply] = heads[Reply] \cup {b} /\ hd[Usb] = heads[Usb]
          /\ hd[ForReply] = heads[ForReply] /\ hd[ForUsb] = heads[ForUsb]
          /\ \A c \in Clients : hd[c] = heads[c]
      BY HoldersDiffer DEF WithHead, Holders
    <3> HIDE DEF hd
    <3>3. /\ hd[Reply] = HeadsIn(gcodeReply') /\ hd[Usb] = HeadsIn(usbOutput')
          /\ hd[ForReply] = ReplyCarried(storing', chain')
          /\ hd[ForUsb] = UsbCarried(storing', chain', toUsb')
          /\ \A c \in Clients : hd[c] = ({outBuf'[c]} \ {Null}) \cup HeadsIn(outStack'[c])
      BY <1>1, <1>3, <2>3, <3>2, HeadsNow
    <3>4. heads' = hd
      BY <3>1, <3>3, HeadsNext
    <3> QED
      BY <3>4 DEF hd
  <2> QED
    BY <2>2, <2>5, <2>6 DEF BuffersInv
<1>7. CASE /\ ~(gcodeReply # <<>> /\ ~buffer[gcodeReply[Len(gcodeReply)]].isReferenced)
           /\ ~(MayAllocate(1) /\ Len(gcodeReply) < StackDepth)
  <2>1. UNCHANGED <<buffer, gcodeReply, clientsServed>>
    BY <1>4, <1>7
  <2>2. heads' = heads
    BY <1>1, <1>3, <2>1 DEF heads
  <2>3. Typed' /\ Served' /\ Once'
    BY <1>1, <2>1 DEF Typed, Served, Once
  <2> QED
    BY <1>1, <2>1, <2>2, <2>3 DEF BuffersInv
<1> QED
  BY <1>5, <1>6, <1>7

LEMMA SharedUsedIs ==
  ASSUME NEW references \in Nat, NEW follower \in 0 .. Buffers, NEW shared \in BOOLEAN
  PROVE  /\ [Used(Full, references, follower) EXCEPT !.isReferenced = shared] \in BufferRecords
         /\ IsFresh([Used(Full, references, follower) EXCEPT !.isReferenced = shared],
                    follower, references, shared)
<1> DEFINE x == Used(Full, references, follower)
<1>1. Full \in 0 .. Full
  BY DEF Full
<1>2. x \in BufferRecords /\ IsFresh(x, follower, references, FALSE)
  BY <1>1, UsedIs
<1> HIDE DEF x
<1>3. [x EXCEPT !.isReferenced = shared] \in BufferRecords
  BY <1>2 DEF BufferRecords
<1>4. IsFresh([x EXCEPT !.isReferenced = shared], follower, references, shared)
  BY <1>2 DEF BufferRecords, IsFresh
<1> QED
  BY <1>3, <1>4 DEF x

\* Who Main is to hand a chain to.
Receivers(usb) == (IF sessions # {} THEN {ForReply} ELSE {}) \cup (IF usb THEN {ForUsb} ELSE {})

LEMMA ReceiversAre ==
  ASSUME NEW usb \in BOOLEAN
  PROVE  /\ Receivers(usb) \in SUBSET Holders
         /\ Cardinality(Receivers(usb)) = (IF sessions # {} THEN 1 ELSE 0) + (IF usb THEN 1 ELSE 0)
         /\ ForReply \in Receivers(usb) <=> sessions # {}
         /\ ForUsb \in Receivers(usb) <=> usb
         /\ Reply \notin Receivers(usb) /\ Usb \notin Receivers(usb)
         /\ \A c \in Clients : c \notin Receivers(usb)
<1>1. Receivers(usb) \in SUBSET Holders
  BY DEF Receivers, Holders
<1>2. /\ ForReply \in Receivers(usb) <=> sessions # {}
      /\ ForUsb \in Receivers(usb) <=> usb
      /\ Reply \notin Receivers(usb) /\ Usb \notin Receivers(usb)
      /\ \A c \in Clients : c \notin Receivers(usb)
  BY HoldersDiffer DEF Receivers
<1>3. Cardinality(Receivers(usb)) = (IF sessions # {} THEN 1 ELSE 0) + (IF usb THEN 1 ELSE 0)
  <2>1. /\ Cardinality({}) = 0 /\ Cardinality({ForReply}) = 1 /\ Cardinality({ForUsb}) = 1
        /\ IsFiniteSet({ForReply})
    BY FS_EmptySet, FS_Singleton
  <2>2. Cardinality({ForReply} \cup {ForUsb}) = 1 + 1
    BY <2>1, HoldersDiffer, FS_AddElement
  <2>3. CASE sessions # {} /\ usb
    BY <2>2, <2>3 DEF Receivers
  <2>4. CASE sessions # {} /\ ~usb
    <3>1. Receivers(usb) = {ForReply}
      BY <2>4 DEF Receivers
    <3> QED
      BY <2>1, <2>4, <3>1
  <2>5. CASE sessions = {} /\ usb
    <3>1. Receivers(usb) = {ForUsb}
      BY <2>5 DEF Receivers
    <3>2. (IF sessions # {} THEN 1 ELSE 0) = 0 /\ (IF usb THEN 1 ELSE 0) = 1
      BY <2>5
    <3> QED
      BY <2>1, <3>1, <3>2
  <2>6. CASE sessions = {} /\ ~usb
    <3>1. Receivers(usb) = {}
      BY <2>6 DEF Receivers
    <3> QED
      BY <2>1, <2>6, <3>1
  <2> QED
    BY <2>3, <2>4, <2>5, <2>6
<1> QED
  BY <1>1, <1>2, <1>3

LEMMA NewChainKeepsSound ==
  ASSUME BuffersInv, NEW head \in FreeBuffers, NEW second \in FreeBuffers \cup {Null},
         second # head, NEW usb \in BOOLEAN, NEW n \in Nat \ {0},
         n = Cardinality(Receivers(usb)),
         buffer' = [b \in Bufs |->
           IF b = head THEN [Used(Full, n, second) EXCEPT !.isReferenced = usb]
           ELSE IF b = second THEN [Used(Full, n, Null) EXCEPT !.isReferenced = usb]
           ELSE buffer[b]]
  PROVE  /\ buffer' \in [Bufs -> BufferRecords]
         /\ Sound(buffer', WithHead(heads, Receivers(usb), head))
<1> DEFINE J == Receivers(usb)
           x == [Used(Full, n, second) EXCEPT !.isReferenced = usb]
           y == [Used(Full, n, Null) EXCEPT !.isReferenced = usb]
<1>1. Typed /\ Sound(buffer, heads) /\ buffer \in [Bufs -> BufferRecords]
  BY DEF BuffersInv, Typed
<1>2. /\ head \in Bufs /\ buffer[head].free /\ second \in Bufs \cup {Null}
      /\ second # Null => buffer[second].free
  BY MayAllocateIs
<1>3. second \in 0 .. Buffers /\ Null \in 0 .. Buffers
  BY <1>2, BufsAre
<1>4. /\ x \in BufferRecords /\ IsFresh(x, second, n, usb)
      /\ y \in BufferRecords /\ IsFresh(y, Null, n, usb)
  BY <1>3, SharedUsedIs
<1>5. buffer' = [b \in Bufs |-> IF b = head THEN x ELSE IF b = second THEN y ELSE buffer[b]]
  OBVIOUS
<1> HIDE DEF x, y
<1>6. buffer' \in [Bufs -> BufferRecords]
  BY <1>1, <1>4, <1>5
<1>7. /\ J \in SUBSET Holders /\ J # {} /\ Cardinality(J) = n /\ (~usb => Cardinality(J) = 1)
      /\ ~(Reply \in J /\ ForReply \in J) /\ ~(Usb \in J /\ ForUsb \in J)
  <2>1. Cardinality(J) = n /\ J \in SUBSET Holders /\ Reply \notin J /\ Usb \notin J
    BY ReceiversAre
  <2>2. J # {}
    BY <2>1, FS_EmptySet
  <2>3. ~usb => Cardinality(J) = 1
    <3>1. CASE sessions = {}
      BY <2>1, <3>1, ReceiversAre
    <3>2. CASE sessions # {}
      BY <3>2, ReceiversAre
    <3> QED
      BY <3>1, <3>2
  <2> QED
    BY <2>1, <2>2, <2>3
<1> HIDE DEF J
<1>8. /\ IsFresh(buffer'[head], second, Cardinality(J), usb)
      /\ second # Null => IsFresh(buffer'[second], Null, Cardinality(J), usb)
      /\ \A b \in Bufs \ {head, second} : buffer'[b] = buffer[b]
  <2>1. buffer'[head] = x
    BY <1>2, <1>5
  <2>2. second # Null => buffer'[second] = y
    BY <1>2, <1>5
  <2>3. \A b \in Bufs \ {head, second} : buffer'[b] = buffer[b]
    BY <1>5
  <2> QED
    BY <1>4, <1>7, <2>1, <2>2, <2>3
<1>9. Sound(buffer', WithHead(heads, J, head))
  <2>1. CASE usb = TRUE
    BY <1>1, <1>2, <1>7, <1>8, <2>1, NewChain
  <2>2. CASE usb = FALSE
    BY <1>1, <1>2, <1>7, <1>8, <2>2, NewChain
  <2> QED
    BY <2>1, <2>2
<1> QED
  BY <1>6, <1>9 DEF J

LEMMA StartChainKeeps ==
  ASSUME BuffersInv, StartChain
  PROVE  BuffersInv'
<1>1. /\ Typed /\ Served /\ Once /\ Sound(buffer, heads)
      /\ storing = "no" /\ replies < MaxReplies /\ replies' = replies + 1
      /\ UNCHANGED <<gcodeReply, usbOutput, outBuf, outStack, sessions, clientsServed>>
  BY DEF BuffersInv, StartChain, network
<1>2. PICK n \in 1 .. 2, usb \in BOOLEAN :
        /\ MayAllocate(n) /\ toUsb' = usb
        /\ LET head == CHOOSE b \in FreeBuffers : TRUE
               second == IF n = 1 THEN Null ELSE CHOOSE b \in FreeBuffers \ {head} : TRUE
               holders == (IF sessions # {} THEN 1 ELSE 0) + (IF usb THEN 1 ELSE 0)
           IN IF holders = 0
              THEN /\ storing' = "no" /\ UNCHANGED <<buffer, chain>>
              ELSE /\ chain' = head
                   /\ storing' = IF sessions # {} THEN "chain" ELSE "usb"
                   /\ buffer' = [b \in 1 .. Buffers |->
                        IF b = head
                        THEN [Used(Full, holders, second) EXCEPT !.isReferenced = usb]
                        ELSE IF b = second
                        THEN [Used(Full, holders, Null) EXCEPT !.isReferenced = usb]
                        ELSE buffer[b]]
  BY DEF StartChain
<1>3. replies' \in 0 .. MaxReplies /\ toUsb' \in BOOLEAN
  BY <1>1, <1>2, BuffersAssumption DEF Typed
<1>4. ReplyCarried(storing, chain) = {} /\ UsbCarried(storing, chain, toUsb) = {}
  BY <1>1 DEF ReplyCarried, UsbCarried
<1>5. CASE sessions = {} /\ ~usb
  <2>1. storing' = "no" /\ UNCHANGED <<buffer, chain>>
    BY <1>2, <1>5
  <2>2. ReplyCarried(storing', chain') = {} /\ UsbCarried(storing', chain', toUsb') = {}
    BY <2>1 DEF ReplyCarried, UsbCarried
  <2>3. heads' = heads
    BY <1>1, <1>4, <2>1, <2>2 DEF heads
  <2>4. Typed' /\ Served' /\ Once'
    BY <1>1, <1>3, <2>1 DEF Typed, Served, Once
  <2> QED
    BY <1>1, <2>1, <2>3, <2>4 DEF BuffersInv
<1>6. CASE sessions # {} \/ usb
  <2> DEFINE holders == (IF sessions # {} THEN 1 ELSE 0) + (IF usb THEN 1 ELSE 0)
             second(h) == IF n = 1 THEN Null ELSE CHOOSE b \in FreeBuffers \ {h} : TRUE
  <2>1. holders \in Nat \ {0} /\ holders = Cardinality(Receivers(usb))
    BY <1>6, ReceiversAre
  <2>2. PICK head \in FreeBuffers :
          /\ chain' = head
          /\ storing' = IF sessions # {} THEN "chain" ELSE "usb"
          /\ buffer' = [b \in 1 .. Buffers |->
               IF b = head
               THEN [Used(Full, holders, second(head)) EXCEPT !.isReferenced = usb]
               ELSE IF b = second(head)
               THEN [Used(Full, holders, Null) EXCEPT !.isReferenced = usb]
               ELSE buffer[b]]
    <3>1. FreeBuffers # {}
      <4>1. n = 1 \/ n = 2
        OBVIOUS
      <4> QED
        BY <1>2, <4>1, MayAllocateIs
    <3>2. (CHOOSE b \in FreeBuffers : TRUE) \in FreeBuffers
      BY <3>1
    <3> QED
      BY <1>2, <2>1, <3>2
  <2>3. second(head) \in FreeBuffers \cup {Null} /\ second(head) # head
    <3>1. head # Null
      BY MayAllocateIs, NullIsNone
    <3>2. n # 1 => FreeBuffers \ {head} # {}
      BY <1>2, MayAllocateIs
    <3> QED
      BY <3>1, <3>2
  <2> DEFINE hd == WithHead(heads, Receivers(usb), head)
             after == second(head)
             count == holders
  <2>4. buffer' \in [Bufs -> BufferRecords] /\ Sound(buffer', hd)
    <3>1. /\ after \in FreeBuffers \cup {Null} /\ after # head
          /\ count \in Nat \ {0} /\ count = Cardinality(Receivers(usb))
          /\ buffer' = [b \in Bufs |->
               IF b = head THEN [Used(Full, count, after) EXCEPT !.isReferenced = usb]
               ELSE IF b = after THEN [Used(Full, count, Null) EXCEPT !.isReferenced = usb]
               ELSE buffer[b]]
      BY <2>1, <2>2, <2>3, Zenon DEF Bufs
    <3> HIDE DEF after, count
    <3> QED
      BY <3>1, NewChainKeepsSound
  <2>5. hd \in [Holders -> SUBSET Bufs]
    BY <2>4 DEF Sound
  <2>6. /\ hd[Reply] = heads[Reply] /\ hd[Usb] = heads[Usb]
        /\ hd[ForReply] = IF sessions # {} THEN heads[ForReply] \cup {head} ELSE heads[ForReply]
        /\ hd[ForUsb] = IF usb THEN heads[ForUsb] \cup {head} ELSE heads[ForUsb]
        /\ \A c \in Clients : hd[c] = heads[c]
    BY HeadsNow, ReceiversAre DEF WithHead
  <2> HIDE DEF hd
  <2>7. /\ ReplyCarried(storing', chain') = IF sessions # {} THEN {head} ELSE {}
        /\ UsbCarried(storing', chain', toUsb') = IF usb THEN {head} ELSE {}
    BY <1>2, <1>6, <2>2 DEF ReplyCarried, UsbCarried
  <2>8. /\ hd[Reply] = HeadsIn(gcodeReply') /\ hd[Usb] = HeadsIn(usbOutput')
        /\ hd[ForReply] = ReplyCarried(storing', chain')
        /\ hd[ForUsb] = UsbCarried(storing', chain', toUsb')
        /\ \A c \in Clients : hd[c] = ({outBuf'[c]} \ {Null}) \cup HeadsIn(outStack'[c])
    <3>1. heads[ForReply] = {} /\ heads[ForUsb] = {}
      BY <1>4, HeadsNow
    <3> QED
      BY <1>1, <2>6, <2>7, <3>1, HeadsNow
  <2>9. heads' = hd
    BY <2>5, <2>8, HeadsNext
  <2>10. head \in Bufs /\ chain' # Null /\ chain' \in 0 .. Buffers
    BY <2>2, MayAllocateIs, NullIsNone, BufsAre
  <2>11. Typed' /\ Once'
    BY <1>1, <1>3, <2>2, <2>4, <2>10 DEF Typed, Once
  <2>12. Served'
    BY <1>1, <2>2 DEF Served, Typed
  <2> QED
    BY <2>4, <2>9, <2>11, <2>12 DEF BuffersInv
<1> QED
  BY <1>5, <1>6

\* The heads that an action leaves alone or gives other values.
LEMMA HeadsPut ==
  ASSUME NEW hd \in [Holders -> SUBSET Bufs], NEW j \in Holders, NEW H, NEW k \in Holders, NEW K,
         j # k
  PROVE  /\ [hd EXCEPT ![j] = H][j] = H
         /\ \A i \in Holders \ {j} : [hd EXCEPT ![j] = H][i] = hd[i]
         /\ [hd EXCEPT ![j] = H, ![k] = K][j] = H /\ [hd EXCEPT ![j] = H, ![k] = K][k] = K
         /\ \A i \in Holders \ {j, k} : [hd EXCEPT ![j] = H, ![k] = K][i] = hd[i]
OBVIOUS

LEMMA StoreChainKeeps ==
  ASSUME BuffersInv, StoreChain
  PROVE  BuffersInv'
<1>1. /\ Typed /\ Served /\ Once /\ Sound(buffer, heads) /\ Crossed(buffer, heads)
      /\ storing = "chain" /\ clientsServed' = 0
      /\ storing' = (IF toUsb THEN "usb" ELSE "no") /\ chain' = (IF toUsb THEN chain ELSE Null)
      /\ UNCHANGED <<usbOutput, outBuf, outStack, sessions, toUsb, replies>>
  BY DEF BuffersInv, StoreChain, network, Sound
<1>2. Cardinality(Clients) \in Nat /\ Cardinality(Clients) > 0
  BY <1>1, SessionsCount DEF Served
<1>3. /\ heads \in [Holders -> SUBSET Bufs] /\ Reply \in Holders /\ ForReply \in Holders
      /\ Usb \in Holders /\ ForUsb \in Holders /\ Clients \subseteq Holders
      /\ Reply # ForReply /\ Usb \notin {Reply, ForReply} /\ ForUsb \notin {Reply, ForReply}
      /\ Reply \notin Clients /\ ForReply \notin Clients
  BY HeadsNow, HoldersDiffer
<1>4. /\ chain \in Bufs /\ heads[ForReply] = {chain}
      /\ ReplyCarried(storing', chain') = {}
      /\ UsbCarried(storing', chain', toUsb') = UsbCarried(storing, chain, toUsb)
      /\ chain' \in 0 .. Buffers /\ (storing' = "usb" => chain' # Null)
      /\ storing' \in {"no", "text", "chain", "usb"} /\ storing' \notin {"text", "chain"}
  <2>1. chain \in Bufs /\ heads[ForReply] = {chain}
    BY <1>1, BufsAre, HeadsNow DEF Typed, Once, ReplyCarried
  <2>2. ReplyCarried(storing', chain') = {}
    BY <1>1 DEF ReplyCarried
  <2>3. UsbCarried(storing', chain', toUsb') = UsbCarried(storing, chain, toUsb)
    BY <1>1 DEF UsbCarried
  <2> QED
    BY <1>1, <2>1, <2>2, <2>3, BufsAre DEF Once, Typed
<1>5. CASE Len(gcodeReply) < StackDepth
  <2>1. gcodeReply' = Append(gcodeReply, chain) /\ UNCHANGED buffer
    BY <1>5 DEF StoreChain
  <2>2. chain \notin HeadsIn(gcodeReply)
    <3>1. chain \in ReachIn(buffer, heads[ForReply])
      BY <1>3, <1>4, HeadsAreUsed
    <3>2. ASSUME chain \in heads[Reply] PROVE FALSE
      BY <1>1, <1>3, <3>1, <3>2, HeadsAreUsed DEF Crossed
    <3> QED
      BY <3>2, HeadsNow
  <2>3. /\ gcodeReply' \in Seq(Bufs) /\ Len(gcodeReply') = Len(gcodeReply) + 1
        /\ HeadsIn(gcodeReply') = HeadsIn(gcodeReply) \cup {chain} /\ Injective(gcodeReply')
    BY <1>1, <1>4, <2>1, <2>2, StackPushed DEF Typed, Once
  <2>4. Len(gcodeReply') <= StackDepth
    BY <1>1, <1>5, <2>3, BuffersAssumption DEF Typed
  <2>5. Typed' /\ Served' /\ Once'
    BY <1>1, <1>2, <1>4, <2>1, <2>3, <2>4 DEF Typed, Served, Once
  <2> DEFINE hd == [heads EXCEPT ![Reply] = heads[Reply] \cup heads[ForReply], ![ForReply] = {}]
  <2>6. Sound(buffer, hd)
    <3>1. ReachIn(buffer, heads[ForReply]) \cap ReachIn(buffer, heads[Reply]) = {}
      BY <1>1 DEF Crossed
    <3>2. Reply \notin {ForReply, ForUsb} /\ Reply # Usb
      BY HoldersDiffer
    <3> QED
      BY <1>1, <1>3, <3>1, <3>2, HandOver
  <2>7. hd \in [Holders -> SUBSET Bufs]
    BY <2>6 DEF Sound
  <2>8. /\ hd[Reply] = heads[Reply] \cup {chain} /\ hd[ForReply] = {}
        /\ \A i \in Holders \ {Reply, ForReply} : hd[i] = heads[i]
    BY <1>3, <1>4, HeadsPut
  <2> HIDE DEF hd
  <2>9. /\ hd[Reply] = HeadsIn(gcodeReply') /\ hd[Usb] = HeadsIn(usbOutput')
        /\ hd[ForReply] = ReplyCarried(storing', chain')
        /\ hd[ForUsb] = UsbCarried(storing', chain', toUsb')
        /\ \A c \in Clients : hd[c] = ({outBuf'[c]} \ {Null}) \cup HeadsIn(outStack'[c])
    <3>1. hd[Usb] = heads[Usb] /\ hd[ForUsb] = heads[ForUsb] /\ \A c \in Clients : hd[c] = heads[c]
      BY <1>3, <2>8
    <3> QED
      BY <1>1, <1>4, <2>3, <2>8, <3>1, HeadsNow
  <2>10. heads' = hd
    BY <2>7, <2>9, HeadsNext
  <2> QED
    BY <2>1, <2>5, <2>6, <2>10 DEF BuffersInv, hd
<1>6. CASE ~(Len(gcodeReply) < StackDepth)
  <2>1. Release(Chain(chain)) /\ UNCHANGED gcodeReply
    BY <1>6 DEF StoreChain
  <2>2. Released(buffer, buffer', ChainIn(buffer, chain)) /\ buffer' \in [Bufs -> BufferRecords]
    <3>1. Chain(chain) = ChainIn(buffer, chain)
      BY StateChains
    <3> QED
      BY <1>1, <2>1, <3>1, ReleaseIs
  <2>3. Typed' /\ Served' /\ Once'
    BY <1>1, <1>2, <1>4, <2>1, <2>2 DEF Typed, Served, Once
  <2> DEFINE hd == [heads EXCEPT ![ForReply] = heads[ForReply] \ {chain}]
  <2>4. Sound(buffer', hd)
    BY <1>1, <1>3, <1>4, <2>2, GiveUpWhole
  <2>5. hd \in [Holders -> SUBSET Bufs]
    BY <2>4 DEF Sound
  <2>6. hd[ForReply] = {} /\ \A i \in Holders \ {ForReply} : hd[i] = heads[i]
    BY <1>3, <1>4, HeadsPut
  <2> HIDE DEF hd
  <2>7. /\ hd[Reply] = HeadsIn(gcodeReply') /\ hd[Usb] = HeadsIn(usbOutput')
        /\ hd[ForReply] = ReplyCarried(storing', chain')
        /\ hd[ForUsb] = UsbCarried(storing', chain', toUsb')
        /\ \A c \in Clients : hd[c] = ({outBuf'[c]} \ {Null}) \cup HeadsIn(outStack'[c])
    <3>1. /\ hd[Reply] = heads[Reply] /\ hd[Usb] = heads[Usb] /\ hd[ForUsb] = heads[ForUsb]
          /\ \A c \in Clients : hd[c] = heads[c]
      BY <1>3, <2>6
    <3> QED
      BY <1>1, <1>4, <2>1, <2>6, <3>1, HeadsNow
  <2>8. heads' = hd
    BY <2>5, <2>7, HeadsNext
  <2> QED
    BY <2>3, <2>4, <2>8 DEF BuffersInv
<1> QED
  BY <1>5, <1>6

LEMMA StoreUsbKeeps ==
  ASSUME BuffersInv, StoreUsb
  PROVE  BuffersInv'
<1>1. /\ Typed /\ Served /\ Once /\ Sound(buffer, heads) /\ Crossed(buffer, heads)
      /\ storing = "usb" /\ storing' = "no" /\ chain' = Null /\ toUsb' = FALSE
      /\ UNCHANGED <<gcodeReply, outBuf, outStack, sessions, clientsServed, replies>>
  BY DEF BuffersInv, StoreUsb, network, Sound
<1>2. /\ heads \in [Holders -> SUBSET Bufs] /\ Reply \in Holders /\ ForReply \in Holders
      /\ Usb \in Holders /\ ForUsb \in Holders /\ Clients \subseteq Holders
      /\ Usb # ForUsb /\ Reply \notin {Usb, ForUsb} /\ ForReply \notin {Usb, ForUsb}
      /\ Usb \notin Clients /\ ForUsb \notin Clients
  BY HeadsNow, HoldersDiffer
<1>3. /\ chain \in Bufs /\ heads[ForUsb] = {chain}
      /\ ReplyCarried(storing', chain') = ReplyCarried(storing, chain)
      /\ UsbCarried(storing', chain', toUsb') = {}
      /\ chain' \in 0 .. Buffers
  <2>1. chain \in Bufs
    BY <1>1, BufsAre DEF Typed, Once
  <2>2. heads[ForUsb] = {chain}
    BY <1>1, HeadsNow DEF UsbCarried
  <2> QED
    BY <1>1, <2>1, <2>2, BufsAre DEF ReplyCarried, UsbCarried
<1>4. CASE /\ Len(usbOutput) < StackDepth
           /\ usbOutput' = Append(usbOutput, chain) /\ UNCHANGED buffer
  <2>1. chain \notin HeadsIn(usbOutput)
    <3>1. chain \in ReachIn(buffer, heads[ForUsb])
      BY <1>2, <1>3, HeadsAreUsed
    <3>2. ASSUME chain \in heads[Usb] PROVE FALSE
      BY <1>1, <1>2, <3>1, <3>2, HeadsAreUsed DEF Crossed
    <3> QED
      BY <3>2, HeadsNow
  <2>2. /\ usbOutput' \in Seq(Bufs) /\ Len(usbOutput') = Len(usbOutput) + 1
        /\ HeadsIn(usbOutput') = HeadsIn(usbOutput) \cup {chain} /\ Injective(usbOutput')
    BY <1>1, <1>3, <1>4, <2>1, StackPushed DEF Typed, Once
  <2>3. Len(usbOutput') <= StackDepth
    BY <1>1, <1>4, <2>2, BuffersAssumption DEF Typed
  <2>4. Typed' /\ Served' /\ Once'
    BY <1>1, <1>3, <1>4, <2>2, <2>3 DEF Typed, Served, Once
  <2> DEFINE hd == [heads EXCEPT ![Usb] = heads[Usb] \cup heads[ForUsb], ![ForUsb] = {}]
  <2>5. Sound(buffer, hd)
    <3>1. ReachIn(buffer, heads[ForUsb]) \cap ReachIn(buffer, heads[Usb]) = {}
      BY <1>1 DEF Crossed
    <3>2. Usb \notin {ForReply, ForUsb} /\ Usb # Reply
      BY HoldersDiffer
    <3> QED
      BY <1>1, <1>2, <3>1, <3>2, HandOver
  <2>6. hd \in [Holders -> SUBSET Bufs]
    BY <2>5 DEF Sound
  <2>7. /\ hd[Usb] = heads[Usb] \cup {chain} /\ hd[ForUsb] = {}
        /\ \A i \in Holders \ {Usb, ForUsb} : hd[i] = heads[i]
    BY <1>2, <1>3, HeadsPut
  <2> HIDE DEF hd
  <2>8. /\ hd[Reply] = HeadsIn(gcodeReply') /\ hd[Usb] = HeadsIn(usbOutput')
        /\ hd[ForReply] = ReplyCarried(storing', chain')
        /\ hd[ForUsb] = UsbCarried(storing', chain', toUsb')
        /\ \A c \in Clients : hd[c] = ({outBuf'[c]} \ {Null}) \cup HeadsIn(outStack'[c])
    <3>1. /\ hd[Reply] = heads[Reply] /\ hd[ForReply] = heads[ForReply]
          /\ \A c \in Clients : hd[c] = heads[c]
      BY <1>2, <2>7
    <3> QED
      BY <1>1, <1>3, <2>2, <2>7, <3>1, HeadsNow
  <2>9. heads' = hd
    BY <2>6, <2>8, HeadsNext
  <2> QED
    BY <1>4, <2>4, <2>5, <2>9 DEF BuffersInv, hd
<1>5. CASE Release(Chain(chain)) /\ UNCHANGED usbOutput
  <2>1. Released(buffer, buffer', ChainIn(buffer, chain)) /\ buffer' \in [Bufs -> BufferRecords]
    <3>1. Chain(chain) = ChainIn(buffer, chain)
      BY StateChains
    <3> QED
      BY <1>1, <1>5, <3>1, ReleaseIs
  <2>2. Typed' /\ Served' /\ Once'
    BY <1>1, <1>3, <1>5, <2>1 DEF Typed, Served, Once
  <2> DEFINE hd == [heads EXCEPT ![ForUsb] = heads[ForUsb] \ {chain}]
  <2>3. Sound(buffer', hd)
    BY <1>1, <1>2, <1>3, <2>1, GiveUpWhole
  <2>4. hd \in [Holders -> SUBSET Bufs]
    BY <2>3 DEF Sound
  <2>5. hd[ForUsb] = {} /\ \A i \in Holders \ {ForUsb} : hd[i] = heads[i]
    BY <1>2, <1>3, HeadsPut
  <2> HIDE DEF hd
  <2>6. /\ hd[Reply] = HeadsIn(gcodeReply') /\ hd[Usb] = HeadsIn(usbOutput')
        /\ hd[ForReply] = ReplyCarried(storing', chain')
        /\ hd[ForUsb] = UsbCarried(storing', chain', toUsb')
        /\ \A c \in Clients : hd[c] = ({outBuf'[c]} \ {Null}) \cup HeadsIn(outStack'[c])
    <3>1. /\ hd[Reply] = heads[Reply] /\ hd[Usb] = heads[Usb] /\ hd[ForReply] = heads[ForReply]
          /\ \A c \in Clients : hd[c] = heads[c]
      BY <1>2, <2>5
    <3> QED
      BY <1>1, <1>3, <1>5, <2>5, <3>1, HeadsNow
  <2>7. heads' = hd
    BY <2>4, <2>6, HeadsNext
  <2> QED
    BY <2>2, <2>3, <2>7 DEF BuffersInv
<1>6. \/ Len(usbOutput) < StackDepth /\ usbOutput' = Append(usbOutput, chain) /\ UNCHANGED buffer
      \/ Release(Chain(chain)) /\ UNCHANGED usbOutput
  BY DEF StoreUsb
<1> QED
  BY <1>4, <1>5, <1>6

\* A stack that loses its first chain, or the first buffers of it, and what that
\* does to its holder.
LEMMA FirstGivenUp ==
  ASSUME BuffersInv, NEW k \in Holders, NEW q \in Seq(Bufs), q # <<>>, Injective(q),
         heads[k] = HeadsIn(q), NEW rest \in ChainIn(buffer, Head(q)) \cup {Null}, rest # Head(q),
         Released(buffer, buffer', ChainIn(buffer, Head(q)) \ ChainIn(buffer, rest))
  PROVE  /\ Sound(buffer', [heads EXCEPT ![k] = HeadsIn(Behind(q, rest))])
         /\ Behind(q, rest) \in Seq(Bufs) /\ Len(Behind(q, rest)) <= Len(q)
         /\ Injective(Behind(q, rest))
<1>1. Sound(buffer, heads) /\ Linked(buffer)
  BY DEF BuffersInv, Sound
<1>2. Head(q) \in heads[k] /\ Head(q) \in Bufs
  BY StackPopped
<1>3. /\ Sound(buffer', [heads EXCEPT ![k] = Without(heads[k], Head(q), rest)])
      /\ rest \notin heads[k]
  BY <1>1, <1>2, GiveUpChain
<1>4. rest \in Bufs \cup {Null}
  BY <1>1, ChainBasics
<1>5. /\ Behind(q, rest) \in Seq(Bufs) /\ Len(Behind(q, rest)) <= Len(q)
      /\ HeadsIn(Behind(q, rest)) = Without(heads[k], Head(q), rest)
      /\ Injective(Behind(q, rest))
  BY <1>3, <1>4, StackBehind
<1> QED
  BY <1>3, <1>5

\* The first buffer of a chain is all of it but the rest.
LEMMA FirstAlone ==
  ASSUME NEW buf, Linked(buf), NoLoop(buf), NEW h \in Bufs
  PROVE  /\ buf[h].next \in ChainIn(buf, h) \cup {Null} /\ buf[h].next # h
         /\ ChainIn(buf, h) \ ChainIn(buf, buf[h].next) = {h}
         /\ ChainIn(buf, h) \ ChainIn(buf, Null) = ChainIn(buf, h) /\ Null # h
<1>1. /\ h \in ChainIn(buf, h) /\ ChainIn(buf, Null) = {}
      /\ buf[h].next \in ChainIn(buf, h) \cup {Null}
  BY ChainBasics
<1>2. ChainIn(buf, h) = {h} \cup ChainIn(buf, buf[h].next) /\ h \notin ChainIn(buf, buf[h].next)
  BY ChainSplits DEF NoLoop
<1>3. buf[h].next # h
  BY <1>1, <1>2
<1> QED
  BY <1>1, <1>2, <1>3, NullIsNone

LEMMA UsbShrinks ==
  ASSUME BuffersInv, UNCHANGED <<gcodeReply, network, sessions, clientsServed, main>>,
         buffer' \in [Bufs -> BufferRecords],
         Sound(buffer', [heads EXCEPT ![Usb] = HeadsIn(usbOutput')]),
         usbOutput' \in Seq(Bufs), Len(usbOutput') <= Len(usbOutput), Injective(usbOutput')
  PROVE  BuffersInv'
<1>1. /\ Typed /\ Served /\ Once
      /\ UNCHANGED <<gcodeReply, outBuf, outStack, sessions, clientsServed, storing, chain, toUsb,
                     replies>>
  BY DEF BuffersInv, network, main
<1>2. Len(usbOutput') <= StackDepth
  <2>1. Len(usbOutput') \in Nat /\ Len(usbOutput) \in Nat /\ Len(usbOutput) <= StackDepth
    BY <1>1 DEF Typed
  <2> QED
    BY <2>1, BuffersAssumption
<1>3. Typed' /\ Served' /\ Once'
  BY <1>1, <1>2 DEF Typed, Served, Once
<1> DEFINE hd == [heads EXCEPT ![Usb] = HeadsIn(usbOutput')]
<1>4. hd \in [Holders -> SUBSET Bufs]
  BY DEF Sound
<1>5. /\ hd[Usb] = HeadsIn(usbOutput') /\ hd[Reply] = heads[Reply]
      /\ hd[ForReply] = heads[ForReply] /\ hd[ForUsb] = heads[ForUsb]
      /\ \A c \in Clients : hd[c] = heads[c]
  BY HeadsNow, HoldersDiffer
<1> HIDE DEF hd
<1>6. /\ hd[Reply] = HeadsIn(gcodeReply')
      /\ hd[ForReply] = ReplyCarried(storing', chain')
      /\ hd[ForUsb] = UsbCarried(storing', chain', toUsb')
      /\ \A c \in Clients : hd[c] = ({outBuf'[c]} \ {Null}) \cup HeadsIn(outStack'[c])
  BY <1>1, <1>5, HeadsNow
<1>7. heads' = hd
  BY <1>4, <1>5, <1>6, HeadsNext
<1> QED
  BY <1>3, <1>7 DEF BuffersInv, hd

\* The first chain for USB loses its first buffers.
LEMMA UsbGivesUp ==
  ASSUME BuffersInv, usbOutput # <<>>,
         UNCHANGED <<gcodeReply, network, sessions, clientsServed, main>>,
         ReleaseFirst \/ (Release(Chain(Head(usbOutput))) /\ usbOutput' = Tail(usbOutput))
  PROVE  BuffersInv'
<1> DEFINE first == Head(usbOutput)
<1>1. /\ Typed /\ Once /\ Sound(buffer, heads) /\ Linked(buffer) /\ NoLoop(buffer)
      /\ usbOutput \in Seq(Bufs) /\ Injective(usbOutput)
  BY DEF BuffersInv, Sound, Typed, Once
<1>2. /\ heads \in [Holders -> SUBSET Bufs] /\ Usb \in Holders /\ heads[Usb] = HeadsIn(usbOutput)
      /\ first \in Bufs
  BY <1>1, HeadsNow, StackPopped
<1>3. ASSUME NEW rest \in ChainIn(buffer, first) \cup {Null}, rest # first,
             Release(ChainIn(buffer, first) \ ChainIn(buffer, rest)),
             usbOutput' = Behind(usbOutput, rest)
      PROVE  BuffersInv'
  <2>1. /\ Released(buffer, buffer', ChainIn(buffer, first) \ ChainIn(buffer, rest))
        /\ buffer' \in [Bufs -> BufferRecords]
    BY <1>1, <1>3, ReleaseIs
  <2>2. /\ Sound(buffer', [heads EXCEPT ![Usb] = HeadsIn(usbOutput')])
        /\ usbOutput' \in Seq(Bufs) /\ Len(usbOutput') <= Len(usbOutput) /\ Injective(usbOutput')
    BY <1>1, <1>2, <1>3, <2>1, FirstGivenUp
  <2> QED
    BY <1>1, <2>1, <2>2, UsbShrinks
<1>4. CASE Release({first}) /\ usbOutput' = Behind(usbOutput, buffer[first].next)
  <2>1. /\ buffer[first].next \in ChainIn(buffer, first) \cup {Null} /\ buffer[first].next # first
        /\ ChainIn(buffer, first) \ ChainIn(buffer, buffer[first].next) = {first}
    BY <1>1, <1>2, FirstAlone
  <2>2. Release(ChainIn(buffer, first) \ ChainIn(buffer, buffer[first].next))
    BY <1>4, <2>1
  <2> QED
    BY <1>3, <1>4, <2>1, <2>2
<1>5. CASE Release(Chain(first)) /\ usbOutput' = Tail(usbOutput)
  <2>1. /\ ChainIn(buffer, first) \ ChainIn(buffer, Null) = Chain(first) /\ Null # first
    BY <1>1, <1>2, FirstAlone, StateChains
  <2>2. usbOutput' = Behind(usbOutput, Null)
    BY <1>5 DEF Behind
  <2>3. Release(ChainIn(buffer, first) \ ChainIn(buffer, Null))
    BY <1>5, <2>1
  <2> QED
    BY <1>3, <2>1, <2>2, <2>3
<1> QED
  BY <1>4, <1>5 DEF ReleaseFirst

\* A count is written to a buffer, and nothing else changes.
LEMMA CountKeeps ==
  ASSUME BuffersInv, NEW b \in Bufs, NEW n \in 0 .. Beyond,
         buffer' = [buffer EXCEPT ![b].bytesRead = n],
         UNCHANGED <<gcodeReply, usbOutput, network, sessions, clientsServed, main>>
  PROVE  BuffersInv'
<1>1. /\ Typed /\ Served /\ Once /\ Sound(buffer, heads)
      /\ UNCHANGED <<outBuf, outStack, storing, chain, toUsb, replies>>
  BY DEF BuffersInv, network, main
<1>2. buffer' \in [Bufs -> BufferRecords] /\ SameLinks(buffer, buffer')
  BY <1>1, CountIs
<1>3. Sound(buffer', heads)
  BY <1>1, <1>2, OnlyContents
<1>4. heads' = heads
  BY <1>1 DEF heads
<1>5. Typed' /\ Served' /\ Once'
  BY <1>1, <1>2 DEF Typed, Served, Once
<1> QED
  BY <1>3, <1>4, <1>5 DEF BuffersInv

LEMMA FlushUsbKeeps ==
  ASSUME BuffersInv, CountingInv, FlushUsb
  PROVE  BuffersInv'
<1>1. UNCHANGED <<gcodeReply, network, sessions, clientsServed, main>>
  BY DEF FlushUsb, DropUsb, LookAtUsb, WriteUsb, CountUsb, TestUsb, ReleaseUsb, TimeOutUsb,
         FlushStart, Flush
<1>2. CASE DropUsb
  BY <1>1, <1>2, UsbGivesUp DEF DropUsb, FlushStart
<1>3. CASE UNCHANGED <<buffer, usbOutput>>
  BY <1>1, <1>3, StutterKeeps
<1>4. CASE CountUsb
  <2>1. /\ usbOutput # <<>> /\ usbOutput \in Seq(Bufs) /\ flushing \in Access
        /\ buffer' = [buffer EXCEPT ![Head(usbOutput)].bytesRead = flushing.count]
        /\ UNCHANGED usbOutput
    BY <1>4 DEF CountUsb, Flush, CountingInv, BuffersInv, Typed
  <2>2. Head(usbOutput) \in Bufs /\ flushing.count \in 0 .. Beyond
    BY <2>1, HeadTailProperties DEF Access
  <2> QED
    BY <1>1, <2>1, <2>2, CountKeeps
<1>5. CASE ReleaseFirst /\ flushing.step # "no"
  <2>1. usbOutput # <<>>
    BY <1>5 DEF CountingInv
  <2> QED
    BY <1>1, <1>5, <2>1, UsbGivesUp
<1> QED
  BY <1>2, <1>3, <1>4, <1>5
  DEF FlushUsb, LookAtUsb, WriteUsb, TestUsb, ReleaseUsb, TimeOutUsb, Flush

\* The stored reply becomes less, whatever becomes of the sessions.
LEMMA ReplyShrinks ==
  ASSUME BuffersInv, UNCHANGED <<usbOutput, network, main>>,
         sessions' \subseteq Clients, clientsServed' \in {0, clientsServed},
         buffer' \in [Bufs -> BufferRecords],
         Sound(buffer', [heads EXCEPT ![Reply] = HeadsIn(gcodeReply')]),
         gcodeReply' \in Seq(Bufs), Len(gcodeReply') <= Len(gcodeReply), Injective(gcodeReply')
  PROVE  BuffersInv'
<1>1. /\ Typed /\ Served /\ Once
      /\ UNCHANGED <<usbOutput, outBuf, outStack, storing, chain, toUsb, replies>>
  BY DEF BuffersInv, network, main
<1>2. /\ Len(gcodeReply') <= StackDepth
      /\ gcodeReply' # <<>> => gcodeReply # <<>>
  <2>1. /\ Len(gcodeReply') \in Nat /\ Len(gcodeReply) \in Nat /\ Len(gcodeReply) <= StackDepth
        /\ Len(gcodeReply') # 0 <=> gcodeReply' # <<>>
        /\ Len(gcodeReply) # 0 <=> gcodeReply # <<>>
    BY <1>1 DEF Typed
  <2> QED
    BY <2>1, BuffersAssumption
<1>3. /\ clientsServed' \in 0 .. Cardinality(Clients) /\ clientsServed' <= clientsServed
      /\ clientsServed \in Nat /\ Cardinality(Clients) \in Nat
  BY <1>1, SessionsCount DEF Typed
<1>4. Typed'
  BY <1>1, <1>2, <1>3 DEF Typed
<1>5. Served' /\ Once'
  <2>1. gcodeReply' # <<>> => clientsServed' < Cardinality(Clients)
    BY <1>1, <1>2, <1>3, BuffersAssumption DEF Served
  <2> QED
    BY <1>1, <2>1 DEF Served, Once
<1> DEFINE hd == [heads EXCEPT ![Reply] = HeadsIn(gcodeReply')]
<1>6. hd \in [Holders -> SUBSET Bufs]
  BY DEF Sound
<1>7. /\ hd[Reply] = HeadsIn(gcodeReply') /\ hd[Usb] = heads[Usb]
      /\ hd[ForReply] = heads[ForReply] /\ hd[ForUsb] = heads[ForUsb]
      /\ \A c \in Clients : hd[c] = heads[c]
  BY HeadsNow, HoldersDiffer
<1> HIDE DEF hd
<1>8. /\ hd[Usb] = HeadsIn(usbOutput')
      /\ hd[ForReply] = ReplyCarried(storing', chain')
      /\ hd[ForUsb] = UsbCarried(storing', chain', toUsb')
      /\ \A c \in Clients : hd[c] = ({outBuf'[c]} \ {Null}) \cup HeadsIn(outStack'[c])
  BY <1>1, <1>7, HeadsNow
<1>9. heads' = hd
  BY <1>6, <1>7, <1>8, HeadsNext
<1> QED
  BY <1>4, <1>5, <1>9 DEF BuffersInv, hd

LEMMA TimeOutReplyKeeps ==
  ASSUME BuffersInv, TimeOutReply
  PROVE  BuffersInv'
<1>1. /\ Typed /\ Once /\ Sound(buffer, heads) /\ Linked(buffer)
      /\ gcodeReply # <<>> /\ gcodeReply \in Seq(Bufs) /\ Injective(gcodeReply)
      /\ sessions \subseteq Clients
      /\ UNCHANGED <<usbOutput, network, sessions, clientsServed, main>>
  BY DEF BuffersInv, TimeOutReply, Sound, Typed, Once
<1>2. Reply \in Holders /\ heads[Reply] = HeadsIn(gcodeReply)
  BY HeadsNow
<1>3. PICK rest \in Chain(Head(gcodeReply)) \cup {Null} :
        /\ rest # Head(gcodeReply)
        /\ Release(Chain(Head(gcodeReply)) \ Chain(rest))
        /\ gcodeReply' = Behind(gcodeReply, rest)
  BY DEF TimeOutReply
<1>4. /\ rest \in ChainIn(buffer, Head(gcodeReply)) \cup {Null}
      /\ Release(ChainIn(buffer, Head(gcodeReply)) \ ChainIn(buffer, rest))
  BY <1>3, StateChains
<1>5. /\ Released(buffer, buffer', ChainIn(buffer, Head(gcodeReply)) \ ChainIn(buffer, rest))
      /\ buffer' \in [Bufs -> BufferRecords]
  BY <1>1, <1>4, ReleaseIs
<1>6. /\ Sound(buffer', [heads EXCEPT ![Reply] = HeadsIn(gcodeReply')])
      /\ gcodeReply' \in Seq(Bufs) /\ Len(gcodeReply') <= Len(gcodeReply) /\ Injective(gcodeReply')
  BY <1>1, <1>2, <1>3, <1>4, <1>5, FirstGivenUp
<1>7. sessions' \subseteq Clients /\ clientsServed' \in {0, clientsServed}
  BY <1>1
<1> QED
  BY <1>1, <1>5, <1>6, <1>7, ReplyShrinks

LEMMA NothingInEmpty ==
  /\ <<>> \in Seq(Bufs) /\ Len(<<>>) = 0 /\ HeadsIn(<<>>) = {} /\ Injective(<<>>)
BY DEF HeadsIn, Injective

LEMMA TimeOutClientsKeeps ==
  ASSUME BuffersInv, TimeOutClients
  PROVE  BuffersInv'
<1>1. /\ Typed /\ Once /\ Sound(buffer, heads)
      /\ gcodeReply \in Seq(Bufs) /\ Injective(gcodeReply) /\ buffer \in [Bufs -> BufferRecords]
  BY DEF BuffersInv, Typed, Once
<1>2. /\ heads \in [Holders -> SUBSET Bufs] /\ Reply \in Holders /\ heads[Reply] = HeadsIn(gcodeReply)
  BY HeadsNow
<1>3. /\ sessions' \subseteq Clients /\ clientsServed' = 0
      /\ UNCHANGED <<usbOutput, network, main>>
      /\ \/ Release(ChainsOf(gcodeReply)) /\ gcodeReply' = <<>>
         \/ UNCHANGED <<buffer, gcodeReply>>
  BY <1>1 DEF TimeOutClients, Typed
<1>4. clientsServed' \in {0, clientsServed}
  BY <1>3
<1>5. CASE Release(ChainsOf(gcodeReply)) /\ gcodeReply' = <<>>
  <2>1. Release(ReachIn(buffer, heads[Reply]))
    BY <1>2, <1>5, StateChains
  <2>2. /\ Released(buffer, buffer', ReachIn(buffer, heads[Reply]))
        /\ buffer' \in [Bufs -> BufferRecords]
    BY <1>1, <2>1, ReleaseIs
  <2>3. Sound(buffer', [heads EXCEPT ![Reply] = {}])
    BY <1>1, <1>2, <2>2, GiveUpAll
  <2>4. /\ HeadsIn(gcodeReply') = {} /\ gcodeReply' \in Seq(Bufs)
        /\ Len(gcodeReply') <= Len(gcodeReply) /\ Injective(gcodeReply')
    BY <1>1, <1>5, NothingInEmpty
  <2> QED
    BY <1>3, <1>4, <2>2, <2>3, <2>4, ReplyShrinks
<1>6. CASE UNCHANGED <<buffer, gcodeReply>>
  <2>1. [heads EXCEPT ![Reply] = HeadsIn(gcodeReply')] = heads
    BY <1>2, <1>6
  <2>2. Len(gcodeReply') <= Len(gcodeReply)
    BY <1>1, <1>6
  <2> QED
    BY <1>1, <1>3, <1>4, <1>6, <2>1, <2>2, ReplyShrinks
<1> QED
  BY <1>3, <1>5, <1>6

\* What one client has to send changes.
LEMMA ClientChanges ==
  ASSUME BuffersInv, NEW c \in Clients, NEW current \in 0 .. Buffers, NEW q \in Seq(Bufs),
         Len(q) <= StackDepth, Injective(q), current \notin HeadsIn(q),
         outBuf' = [outBuf EXCEPT ![c] = current], outStack' = [outStack EXCEPT ![c] = q],
         UNCHANGED <<gcodeReply, usbOutput, sessions, clientsServed, main>>,
         buffer' \in [Bufs -> BufferRecords],
         Sound(buffer', [heads EXCEPT ![c] = ({current} \ {Null}) \cup HeadsIn(q)])
  PROVE  BuffersInv'
<1>1. /\ Typed /\ Served /\ Once
      /\ UNCHANGED <<gcodeReply, usbOutput, sessions, clientsServed, storing, chain, toUsb, replies>>
  BY DEF BuffersInv, main
<1>2. /\ outBuf' \in [Clients -> 0 .. Buffers] /\ outStack' \in [Clients -> Seq(Bufs)]
      /\ outBuf'[c] = current /\ outStack'[c] = q
      /\ \A d \in Clients \ {c} : outBuf'[d] = outBuf[d] /\ outStack'[d] = outStack[d]
  BY <1>1 DEF Typed
<1>3. /\ \A d \in Clients : Len(outStack'[d]) <= StackDepth
      /\ \A d \in Clients : Injective(outStack'[d]) /\ outBuf'[d] \notin HeadsIn(outStack'[d])
  <2> SUFFICES ASSUME NEW d \in Clients
               PROVE  /\ Len(outStack'[d]) <= StackDepth
                      /\ Injective(outStack'[d]) /\ outBuf'[d] \notin HeadsIn(outStack'[d])
    OBVIOUS
  <2>1. CASE d = c
    BY <1>2, <2>1
  <2>2. CASE d # c
    <3>1. outBuf'[d] = outBuf[d] /\ outStack'[d] = outStack[d]
      BY <1>2, <2>2
    <3> QED
      BY <1>1, <3>1 DEF Typed, Once
  <2> QED
    BY <2>1, <2>2
<1>4. Typed' /\ Served' /\ Once'
  BY <1>1, <1>2, <1>3 DEF Typed, Served, Once
<1> DEFINE hd == [heads EXCEPT ![c] = ({current} \ {Null}) \cup HeadsIn(q)]
<1>5. hd \in [Holders -> SUBSET Bufs]
  BY DEF Sound
<1>6. /\ hd[c] = ({current} \ {Null}) \cup HeadsIn(q)
      /\ hd[Reply] = heads[Reply] /\ hd[Usb] = heads[Usb]
      /\ hd[ForReply] = heads[ForReply] /\ hd[ForUsb] = heads[ForUsb]
      /\ \A d \in Clients \ {c} : hd[d] = heads[d]
  BY HeadsNow, HoldersDiffer
<1> HIDE DEF hd
<1>7. /\ hd[Reply] = HeadsIn(gcodeReply') /\ hd[Usb] = HeadsIn(usbOutput')
      /\ hd[ForReply] = ReplyCarried(storing', chain')
      /\ hd[ForUsb] = UsbCarried(storing', chain', toUsb')
  BY <1>1, <1>6, HeadsNow
<1>8. ASSUME NEW d \in Clients PROVE hd[d] = ({outBuf'[d]} \ {Null}) \cup HeadsIn(outStack'[d])
  <2>1. CASE d = c
    BY <1>2, <1>6, <2>1
  <2>2. CASE d # c
    BY <1>2, <1>6, <2>2, HeadsNow
  <2> QED
    BY <2>1, <2>2
<1>9. heads' = hd
  BY <1>5, <1>7, <1>8, HeadsNext
<1> QED
  BY <1>4, <1>9 DEF BuffersInv, hd

LEMMA ConnectionLostKeeps ==
  ASSUME BuffersInv, NEW c \in Clients, ConnectionLost(c)
  PROVE  BuffersInv'
<1>1. Typed /\ Sound(buffer, heads) /\ c \in Holders /\ Linked(buffer)
  BY HeadsNow DEF BuffersInv, Sound
<1>2. ReachIn(buffer, heads[c]) = Chain(outBuf[c]) \cup ChainsOf(outStack[c])
  <2>1. heads[c] = ({outBuf[c]} \ {Null}) \cup HeadsIn(outStack[c])
    BY HeadsNow
  <2>2. ChainsOf(outStack[c]) = ReachIn(buffer, HeadsIn(outStack[c]))
    BY StateChains
  <2>3. Chain(outBuf[c]) = ReachIn(buffer, {outBuf[c]} \ {Null})
    <3>1. Chain(outBuf[c]) = ChainIn(buffer, outBuf[c]) /\ ChainIn(buffer, Null) = {}
      BY <1>1, StateChains, ChainBasics
    <3> QED
      BY <3>1 DEF ReachIn
  <2> QED
    BY <2>1, <2>2, <2>3 DEF ReachIn
<1>3. Release(ReachIn(buffer, heads[c]))
  BY <1>2 DEF ConnectionLost
<1>4. Released(buffer, buffer', ReachIn(buffer, heads[c])) /\ buffer' \in [Bufs -> BufferRecords]
  BY <1>1, <1>3, ReleaseIs
<1>5. Sound(buffer', [heads EXCEPT ![c] = {}])
  BY <1>1, <1>4, GiveUpAll
<1>6. ({Null} \ {Null}) \cup HeadsIn(<<>>) = {} /\ Null \notin HeadsIn(<<>>)
  BY NothingInEmpty
<1>7. Null \in 0 .. Buffers /\ Len(<<>>) <= StackDepth
  BY BuffersAssumption, BufsAre, NothingInEmpty
<1>8. /\ outBuf' = [outBuf EXCEPT ![c] = Null] /\ outStack' = [outStack EXCEPT ![c] = <<>>]
      /\ UNCHANGED <<gcodeReply, usbOutput, sessions, clientsServed, main>>
  BY DEF ConnectionLost, Send
<1> DEFINE q == <<>>
<1>9. /\ q \in Seq(Bufs) /\ Len(q) <= StackDepth /\ Injective(q) /\ Null \notin HeadsIn(q)
      /\ ({Null} \ {Null}) \cup HeadsIn(q) = {} /\ outStack' = [outStack EXCEPT ![c] = q]
  BY <1>6, <1>7, <1>8, NothingInEmpty
<1> HIDE DEF q
<1>10. Sound(buffer', [heads EXCEPT ![c] = ({Null} \ {Null}) \cup HeadsIn(q)])
  BY <1>5, <1>9
<1> QED
  BY <1>4, <1>7, <1>8, <1>9, <1>10, ClientChanges

\* A client's responder has some of its output under way, and the rest waits.
LEMMA LookAtBufferKeeps ==
  ASSUME BuffersInv, NEW c \in Clients, LookAtBuffer(c)
  PROVE  BuffersInv'
<1>1. /\ UNCHANGED <<buffer, gcodeReply, usbOutput, sessions, clientsServed, main>>
      /\ outBuf[c] = Null => outStack[c] # <<>>
      /\ IF outBuf[c] # Null
         THEN UNCHANGED network
         ELSE /\ outBuf' = [outBuf EXCEPT ![c] = Head(outStack[c])]
              /\ outStack' = [outStack EXCEPT ![c] = Tail(@)]
  BY DEF LookAtBuffer, Send, Idle
<1>2. CASE outBuf[c] # Null
  BY <1>1, <1>2, StutterKeeps
<1>3. CASE outBuf[c] = Null
  <2> DEFINE item == Head(outStack[c])
             q == Tail(outStack[c])
  <2>1. /\ Typed /\ Once /\ Sound(buffer, heads) /\ buffer \in [Bufs -> BufferRecords]
        /\ heads \in [Holders -> SUBSET Bufs] /\ c \in Holders
        /\ heads[c] = ({outBuf[c]} \ {Null}) \cup HeadsIn(outStack[c])
        /\ outStack[c] \in Seq(Bufs) /\ Injective(outStack[c]) /\ Len(outStack[c]) <= StackDepth
        /\ outStack \in [Clients -> Seq(Bufs)]
    BY HeadsNow DEF BuffersInv, Typed, Once
  <2>2. /\ q \in Seq(Bufs) /\ Injective(q) /\ Len(q) = Len(outStack[c]) - 1
        /\ item \in HeadsIn(outStack[c]) /\ item \in Bufs
        /\ HeadsIn(q) = HeadsIn(outStack[c]) \ {item}
    BY <1>1, <1>3, <2>1, StackPopped
  <2>3. outBuf' = [outBuf EXCEPT ![c] = item] /\ outStack' = [outStack EXCEPT ![c] = q]
    BY <1>1, <1>3, <2>1
  <2> HIDE DEF item, q
  <2>4. Len(q) <= StackDepth
    <3>1. Len(outStack[c]) \in Nat
      BY <2>1
    <3> QED
      BY <2>1, <2>2, <3>1, BuffersAssumption
  <2>5. ({item} \ {Null}) \cup HeadsIn(q) = heads[c]
    BY <1>3, <2>1, <2>2, NullIsNone
  <2>6. [heads EXCEPT ![c] = ({item} \ {Null}) \cup HeadsIn(q)] = heads
    BY <2>1, <2>5
  <2>7. item \in 0 .. Buffers /\ item \notin HeadsIn(q)
    BY <2>2, BufsAre
  <2>8. Sound(buffer', [heads EXCEPT ![c] = ({item} \ {Null}) \cup HeadsIn(q)])
    BY <1>1, <2>1, <2>6
  <2>9. buffer' \in [Bufs -> BufferRecords]
    BY <1>1, <2>1
  <2> QED
    BY <1>1, <2>2, <2>3, <2>4, <2>7, <2>8, <2>9, ClientChanges
<1> QED
  BY <1>2, <1>3

LEMMA ReleaseSentKeeps ==
  ASSUME BuffersInv, CountingInv, NEW c \in Clients, ReleaseSent(c)
  PROVE  BuffersInv'
<1> DEFINE item == outBuf[c]
           q == outStack[c]
           follower == buffer[item].next
<1>1. /\ Typed /\ Once /\ Sound(buffer, heads) /\ Linked(buffer) /\ NoLoop(buffer)
      /\ heads \in [Holders -> SUBSET Bufs]
      /\ heads[c] = ({item} \ {Null}) \cup HeadsIn(q) /\ c \in Holders
      /\ q \in Seq(Bufs) /\ Injective(q) /\ Len(q) <= StackDepth
      /\ item \notin HeadsIn(q) /\ item \in 0 .. Buffers
      /\ outStack \in [Clients -> Seq(Bufs)]
  BY HeadsNow DEF BuffersInv, Sound, Typed, Once
<1>2. /\ UNCHANGED <<gcodeReply, usbOutput, sessions, clientsServed, main>>
      /\ outBuf' = [outBuf EXCEPT ![c] = follower] /\ outStack' = outStack
      /\ Release({item}) /\ item # Null
  BY DEF ReleaseSent, Send, CountingInv
<1>3. outStack' = [outStack EXCEPT ![c] = q]
  BY <1>1, <1>2
<1>4. item \in Bufs /\ item \in heads[c] /\ HeadsIn(q) = heads[c] \ {item}
  BY <1>1, <1>2, BufsAre
<1>5. Released(buffer, buffer', {item}) /\ buffer' \in [Bufs -> BufferRecords]
  BY <1>1, <1>2, ReleaseIs
<1> HIDE DEF item, q
<1>6. /\ Sound(buffer', [heads EXCEPT ![c] = Without(heads[c], item, follower)])
      /\ follower \notin heads[c]
  BY <1>1, <1>4, <1>5, GiveUpFirst
<1>7. Without(heads[c], item, follower) = ({follower} \ {Null}) \cup HeadsIn(q)
  BY <1>4 DEF Without
<1>8. follower \in 0 .. Buffers /\ follower \notin HeadsIn(q)
  BY <1>1, <1>4, <1>6, BufsAre DEF Linked
<1> HIDE DEF follower
<1>9. Sound(buffer', [heads EXCEPT ![c] = ({follower} \ {Null}) \cup HeadsIn(q)])
  BY <1>6, <1>7
<1> QED
  BY <1>1, <1>2, <1>3, <1>5, <1>8, <1>9, ClientChanges

LEMMA SendDataKeeps ==
  ASSUME BuffersInv, CountingInv, NEW c \in Clients, SendData(c)
  PROVE  BuffersInv'
<1>1. CASE LookAtBuffer(c)
  BY <1>1, LookAtBufferKeeps
<1>2. CASE SendBuffer(c)
  BY <1>2, StutterKeeps DEF SendBuffer, Send
<1>3. CASE CountSent(c)
  <2>1. /\ buffer' = [buffer EXCEPT ![outBuf[c]].bytesRead = sending[c].count]
        /\ UNCHANGED <<gcodeReply, usbOutput, network, sessions, clientsServed, main>>
        /\ sending[c] \in Access /\ outBuf[c] # Null /\ outBuf[c] \in 0 .. Buffers
    BY <1>3 DEF CountSent, Send, CountingInv, BuffersInv, Typed
  <2>2. outBuf[c] \in Bufs /\ sending[c].count \in 0 .. Beyond
    BY <2>1, BufsAre DEF Access
  <2> QED
    BY <2>1, <2>2, CountKeeps
<1>4. CASE ReleaseSent(c)
  BY <1>4, ReleaseSentKeeps
<1> QED
  BY <1>1, <1>2, <1>3, <1>4 DEF SendData

LEMMA ShareIs ==
  ASSUME Typed, NEW S, Share(S)
  PROVE  /\ buffer' \in [Bufs -> BufferRecords]
         /\ \A b \in Bufs :
              /\ b \notin S => buffer'[b] = buffer[b]
              /\ b \in S =>
                   /\ buffer'[b].next = buffer[b].next /\ buffer'[b].free = buffer[b].free
                   /\ buffer'[b].references = buffer[b].references + 1
                   /\ buffer'[b].isReferenced = TRUE
<1>1. /\ buffer' = [b \in Bufs |-> buffer'[b]]
      /\ \A b \in Bufs :
           buffer'[b] = IF b \in S
                        THEN [buffer[b] EXCEPT !.references = @ + 1, !.isReferenced = TRUE]
                        ELSE buffer[b]
  BY DEF Share, Bufs
<1>2. ASSUME NEW b \in Bufs
      PROVE  /\ buffer'[b] \in BufferRecords
             /\ b \in S =>
                  /\ buffer'[b].next = buffer[b].next /\ buffer'[b].free = buffer[b].free
                  /\ buffer'[b].references = buffer[b].references + 1
                  /\ buffer'[b].isReferenced = TRUE
  <2>1. buffer[b] \in BufferRecords
    BY DEF Typed
  <2>2. CASE b \in S
    <3>1. buffer'[b] = [buffer[b] EXCEPT !.references = @ + 1, !.isReferenced = TRUE]
      BY <1>1, <2>2
    <3>2. buffer[b].references + 1 \in Nat
      BY <2>1 DEF BufferRecords
    <3>3. buffer'[b] \in BufferRecords
      BY <2>1, <3>1, <3>2 DEF BufferRecords
    <3>4. /\ buffer'[b].next = buffer[b].next /\ buffer'[b].free = buffer[b].free
          /\ buffer'[b].references = buffer[b].references + 1
          /\ buffer'[b].isReferenced = TRUE
      BY <2>1, <3>1 DEF BufferRecords
    <3> QED
      BY <3>3, <3>4
  <2>3. CASE b \notin S
    BY <1>1, <2>1, <2>3
  <2> QED
    BY <2>2, <2>3
<1> QED
  BY <1>1, <1>2

LEMMA FetchKeeps ==
  ASSUME BuffersInv, NEW c \in Clients, Fetch(c)
  PROVE  BuffersInv'
<1>1. /\ Typed /\ Served /\ Once /\ Sound(buffer, heads)
      /\ UNCHANGED <<usbOutput, outBuf, sessions, storing, chain, toUsb, replies>>
      /\ clientsServed' = clientsServed + 1 /\ outStack' = [outStack EXCEPT ![c] = gcodeReply]
      /\ outBuf[c] = Null /\ outStack[c] = <<>> /\ gcodeReply # <<>>
  BY DEF BuffersInv, Fetch, Idle, main
<1>2. /\ heads \in [Holders -> SUBSET Bufs] /\ Reply \in Holders /\ c \in Holders /\ c # Reply
      /\ c \notin {ForReply, ForUsb, Usb}
      /\ heads[Reply] = HeadsIn(gcodeReply)
  BY HeadsNow, HoldersDiffer
<1>3. heads[c] = {}
  BY <1>1, HeadsNow, NothingInEmpty
<1>4. /\ outStack' \in [Clients -> Seq(Bufs)] /\ outStack'[c] = gcodeReply
      /\ \A d \in Clients \ {c} : outStack'[d] = outStack[d]
  BY <1>1 DEF Typed
<1>5. /\ \A d \in Clients : Len(outStack'[d]) <= StackDepth
      /\ \A d \in Clients : Injective(outStack'[d]) /\ outBuf'[d] \notin HeadsIn(outStack'[d])
  <2> SUFFICES ASSUME NEW d \in Clients
               PROVE  /\ Len(outStack'[d]) <= StackDepth
                      /\ Injective(outStack'[d]) /\ outBuf'[d] \notin HeadsIn(outStack'[d])
    OBVIOUS
  <2>1. CASE d = c
    <3>1. Null \notin HeadsIn(gcodeReply)
      BY <1>2, NullIsNone
    <3> QED
      BY <1>1, <1>4, <2>1, <3>1 DEF Typed, Once
  <2>2. CASE d # c
    <3>1. outStack'[d] = outStack[d] /\ outBuf'[d] = outBuf[d]
      BY <1>1, <1>4, <2>2
    <3> QED
      BY <1>1, <3>1 DEF Typed, Once
  <2> QED
    BY <2>1, <2>2
<1>6. /\ clientsServed \in Nat /\ clientsServed < Cardinality(Clients)
      /\ Cardinality(Clients) \in Nat /\ Cardinality(sessions) \in Nat
      /\ Cardinality(sessions) <= Cardinality(Clients)
  BY <1>1, SessionsCount DEF Typed, Served
<1>7. clientsServed' \in 0 .. Cardinality(Clients)
  BY <1>1, <1>6
<1>8. ASSUME NEW hd \in [Holders -> SUBSET Bufs], hd[c] = HeadsIn(gcodeReply),
             hd[Reply] = HeadsIn(gcodeReply'), \A k \in Holders \ {c, Reply} : hd[k] = heads[k]
      PROVE  heads' = hd
  <2>1. /\ hd[Usb] = heads[Usb] /\ hd[ForReply] = heads[ForReply] /\ hd[ForUsb] = heads[ForUsb]
        /\ \A d \in Clients \ {c} : hd[d] = heads[d]
    BY <1>2, <1>8, HeadsNow, HoldersDiffer
  <2>2. ASSUME NEW d \in Clients PROVE hd[d] = ({outBuf'[d]} \ {Null}) \cup HeadsIn(outStack'[d])
    <3>1. CASE d = c
      BY <1>1, <1>4, <1>8, <3>1
    <3>2. CASE d # c
      BY <1>1, <1>4, <2>1, <3>2, HeadsNow
    <3> QED
      BY <3>1, <3>2
  <2>3. /\ hd[Usb] = HeadsIn(usbOutput') /\ hd[ForReply] = ReplyCarried(storing', chain')
        /\ hd[ForUsb] = UsbCarried(storing', chain', toUsb')
    BY <1>1, <2>1, HeadsNow
  <2> QED
    BY <1>8, <2>2, <2>3, HeadsNext
<1>9. CASE clientsServed + 1 < Cardinality(sessions)
  <2>1. Share(ChainsOf(gcodeReply)) /\ gcodeReply' = gcodeReply
    BY <1>9 DEF Fetch
  <2>2. Share(ReachIn(buffer, heads[Reply]))
    BY <1>2, <2>1, StateChains
  <2>3. /\ buffer' \in [Bufs -> BufferRecords]
        /\ \A b \in Bufs :
             /\ b \notin ReachIn(buffer, heads[Reply]) => buffer'[b] = buffer[b]
             /\ b \in ReachIn(buffer, heads[Reply]) =>
                  /\ buffer'[b].next = buffer[b].next /\ buffer'[b].free = buffer[b].free
                  /\ buffer'[b].references = buffer[b].references + 1
                  /\ buffer'[b].isReferenced = TRUE
    BY <1>1, <2>2, ShareIs
  <2> DEFINE hd == [heads EXCEPT ![c] = heads[Reply]]
  <2>4. Sound(buffer', hd)
    BY <1>1, <1>3, <2>3, ShareOut
  <2>5. hd[c] = HeadsIn(gcodeReply) /\ \A k \in Holders \ {c} : hd[k] = heads[k]
    BY <1>2
  <2>6. hd \in [Holders -> SUBSET Bufs]
    BY <2>4 DEF Sound
  <2> HIDE DEF hd
  <2>7. hd[Reply] = HeadsIn(gcodeReply')
    BY <1>2, <2>1, <2>5
  <2>8. heads' = hd
    BY <1>8, <2>5, <2>6, <2>7
  <2>9. clientsServed' < Cardinality(Clients)
    BY <1>1, <1>6, <1>9
  <2>10. Typed' /\ Served' /\ Once'
    BY <1>1, <1>4, <1>5, <1>7, <2>1, <2>3, <2>9 DEF Typed, Served, Once
  <2> QED
    BY <2>4, <2>8, <2>10 DEF BuffersInv
<1>10. CASE ~(clientsServed + 1 < Cardinality(sessions))
  <2>1. gcodeReply' = <<>> /\ buffer' = buffer
    BY <1>10 DEF Fetch
  <2> DEFINE hd == [heads EXCEPT ![c] = heads[c] \cup heads[Reply], ![Reply] = {}]
  <2>2. Sound(buffer, hd)
    <3>1. ReachIn(buffer, heads[Reply]) \cap ReachIn(buffer, heads[c]) = {}
      BY <1>3 DEF ReachIn
    <3> QED
      BY <1>1, <1>2, <3>1, HandOver
  <2>3. /\ hd[c] = HeadsIn(gcodeReply) /\ hd[Reply] = {}
        /\ \A k \in Holders \ {c, Reply} : hd[k] = heads[k]
    BY <1>2, <1>3
  <2>4. hd \in [Holders -> SUBSET Bufs]
    BY <2>2 DEF Sound
  <2> HIDE DEF hd
  <2>5. hd[Reply] = HeadsIn(gcodeReply')
    BY <2>1, <2>3, NothingInEmpty
  <2>6. heads' = hd
    BY <1>8, <2>3, <2>4, <2>5
  <2>7. gcodeReply' \in Seq(Bufs) /\ Len(gcodeReply') <= StackDepth /\ Injective(gcodeReply')
    BY <2>1, NothingInEmpty, BuffersAssumption
  <2>8. Typed' /\ Served' /\ Once'
    BY <1>1, <1>4, <1>5, <1>7, <2>1, <2>7 DEF Typed, Served, Once
  <2> QED
    BY <2>1, <2>2, <2>6, <2>8 DEF BuffersInv
<1> QED
  BY <1>9, <1>10

-----------------------------------------------------------------------------
(* Who sends keeps something to send.                                      *)

LEMMA AccessIs ==
  /\ Resting \in Access /\ Resting.step = "no"
  /\ \A s \in {"send", "some", "all", "write", "read", "test", "release", "timeout"},
        n \in 0 .. Beyond : Before(s, n) \in Access /\ Before(s, n).step = s
  /\ 0 \in 0 .. Beyond
BY DEF Access, Before, Resting, Beyond, Full

LEMMA BytesLeftIs ==
  ASSUME BuffersInv, NEW b \in Bufs
  PROVE  BytesLeft(b) \in 0 .. Beyond /\ \A n \in 0 .. Full : Advanced(b, n) \in 0 .. Beyond
<1>1. buffer[b] \in BufferRecords
  BY DEF BuffersInv, Typed
<1>2. buffer[b].length \in 0 .. 2 /\ buffer[b].bytesRead \in 0 .. 3
  BY <1>1 DEF BufferRecords, Full, Beyond
<1> QED
  BY <1>2 DEF BytesLeft, Advanced, Full, Beyond

\* A responder goes on.
LEMMA ResponderGoesOn ==
  ASSUME CountingInv, NEW c \in Clients, NEW a \in Access,
         sending' = [sending EXCEPT ![c] = a], a.step # "no" => outBuf'[c] # Null,
         \A d \in Clients \ {c} : outBuf'[d] = outBuf[d],
         UNCHANGED <<flushing, usbOutput>>
  PROVE  CountingInv'
<1>1. sending' \in [Clients -> Access]
  BY DEF CountingInv
<1>2. ASSUME NEW d \in Clients, sending'[d].step # "no" PROVE outBuf'[d] # Null
  <2>1. CASE d = c
    <3>1. sending'[d] = a
      BY <2>1 DEF CountingInv
    <3> QED
      BY <1>2, <2>1, <3>1
  <2>2. CASE d # c
    <3>1. sending'[d] = sending[d]
      BY <2>2 DEF CountingInv
    <3> QED
      BY <1>2, <2>2, <3>1 DEF CountingInv
  <2> QED
    BY <2>1, <2>2
<1> QED
  BY <1>1, <1>2 DEF CountingInv

\* Main goes on.
LEMMA UsbGoesOn ==
  ASSUME CountingInv, flushing' \in Access, flushing'.step # "no" => usbOutput' # <<>>,
         UNCHANGED <<sending, outBuf>>
  PROVE  CountingInv'
BY DEF CountingInv

LEMMA FlushUsbCounts ==
  ASSUME BuffersInv, CountingInv, FlushUsb
  PROVE  CountingInv'
<1>1. UNCHANGED <<sending, outBuf>>
  BY DEF FlushUsb, DropUsb, LookAtUsb, WriteUsb, CountUsb, TestUsb, ReleaseUsb, TimeOutUsb,
         FlushStart, Flush, network
<1>2. usbOutput # <<>> /\ Head(usbOutput) \in Bufs
  <2>1. usbOutput # <<>> /\ usbOutput \in Seq(Bufs)
    BY DEF FlushUsb, DropUsb, LookAtUsb, WriteUsb, CountUsb, TestUsb, ReleaseUsb, TimeOutUsb,
           FlushStart, Flush, CountingInv, BuffersInv, Typed
  <2> QED
    BY <2>1, HeadTailProperties
<1>3. /\ BytesLeft(Head(usbOutput)) \in 0 .. Beyond
      /\ \A n \in 0 .. Full : Advanced(Head(usbOutput), n) \in 0 .. Beyond
  BY <1>2, BytesLeftIs
<1>4. CASE DropUsb
  <2>1. flushing' = flushing /\ flushing.step = "no" /\ flushing \in Access
    BY <1>4 DEF DropUsb, FlushStart, Flush, CountingInv
  <2> QED
    BY <1>1, <2>1, UsbGoesOn
<1>5. CASE LookAtUsb \/ TestUsb \/ CountUsb
  <2>1. UNCHANGED usbOutput /\ flushing' \in Access
    BY <1>3, <1>5, AccessIs DEF LookAtUsb, TestUsb, CountUsb
  <2> QED
    BY <1>1, <1>2, <2>1, UsbGoesOn
<1>6. CASE WriteUsb
  <2>1. PICK n \in 0 .. Full :
          flushing' = IF n = 0 THEN Before("test", 0)
                      ELSE Before("read", Advanced(Head(usbOutput), n))
    BY <1>6 DEF WriteUsb
  <2>2. flushing' \in Access /\ UNCHANGED usbOutput
    BY <1>3, <1>6, <2>1, AccessIs DEF WriteUsb
  <2> QED
    BY <1>1, <1>2, <2>2, UsbGoesOn
<1>7. CASE ReleaseUsb
  BY <1>1, <1>7, AccessIs, UsbGoesOn DEF ReleaseUsb
<1>8. CASE TimeOutUsb
  <2>1. CASE flushing' = Resting
    BY <1>1, <2>1, AccessIs, UsbGoesOn
  <2>2. CASE flushing' # Resting
    <3> DEFINE next1 == buffer[Head(usbOutput)].next
    <3>1. /\ flushing' = flushing /\ next1 # Null
          /\ usbOutput' = Behind(usbOutput, next1)
      BY <1>8, <2>2 DEF TimeOutUsb, ReleaseFirst
    <3> HIDE DEF next1
    <3>2. usbOutput' = <<next1>> \o Tail(usbOutput)
      BY <3>1 DEF Behind
    <3>3. usbOutput \in Seq(Bufs) /\ flushing \in Access
      BY DEF BuffersInv, Typed, CountingInv
    <3>4. usbOutput' # <<>>
      <4>1. Tail(usbOutput) \in Seq(Bufs)
        BY <1>2, <3>3, HeadTailProperties
      <4>2. Len(usbOutput') = 1 + Len(Tail(usbOutput)) /\ Len(Tail(usbOutput)) \in Nat
        BY <3>2, <4>1
      <4> QED
        BY <4>2
    <3> QED
      BY <1>1, <3>1, <3>3, <3>4, UsbGoesOn
  <2> QED
    BY <2>1, <2>2
<1> QED
  BY <1>4, <1>5, <1>6, <1>7, <1>8 DEF FlushUsb

LEMMA SendDataCounts ==
  ASSUME BuffersInv, CountingInv, NEW c \in Clients, SendData(c) \/ ConnectionLost(c)
  PROVE  CountingInv'
<1>1. /\ UNCHANGED <<flushing, usbOutput>> /\ Typed
      /\ sending[c] \in Access /\ outBuf \in [Clients -> 0 .. Buffers]
  BY DEF SendData, LookAtBuffer, SendBuffer, CountSent, ReleaseSent, ConnectionLost, Send,
         BuffersInv, Typed, CountingInv
<1>2. CASE LookAtBuffer(c)
  <2>1. /\ outBuf'[c] \in Bufs /\ \A d \in Clients \ {c} : outBuf'[d] = outBuf[d]
        /\ buffer' = buffer
    <3>1. CASE outBuf[c] # Null
      <4>1. outBuf' = outBuf /\ buffer' = buffer
        BY <1>2, <3>1 DEF LookAtBuffer, network
      <4> QED
        BY <1>1, <3>1, <4>1, BufsAre
    <3>2. CASE outBuf[c] = Null
      <4>1. /\ outBuf' = [outBuf EXCEPT ![c] = Head(outStack[c])] /\ buffer' = buffer
            /\ outStack[c] # <<>> /\ outStack[c] \in Seq(Bufs)
        BY <1>1, <1>2, <3>2 DEF LookAtBuffer, Idle, Typed
      <4>2. Head(outStack[c]) \in Bufs
        BY <4>1, HeadTailProperties
      <4> QED
        BY <1>1, <4>1, <4>2
    <3> QED
      BY <3>1, <3>2
  <2>2. BytesLeft(outBuf'[c]) \in 0 .. Beyond /\ outBuf'[c] # Null
    BY <2>1, BytesLeftIs, NullIsNone
  <2> DEFINE left == BytesLeft(outBuf'[c])
             a == Before(IF left = 0 THEN "release" ELSE "send", left)
  <2>3. sending' = [sending EXCEPT ![c] = a]
    BY <1>2 DEF LookAtBuffer
  <2>4. a \in Access
    BY <2>2, AccessIs
  <2> HIDE DEF a
  <2> QED
    BY <1>1, <2>1, <2>2, <2>3, <2>4, ResponderGoesOn
<1>3. CASE SendBuffer(c) \/ CountSent(c)
  <2>1. outBuf' = outBuf /\ outBuf[c] # Null /\ outBuf[c] \in Bufs
    <3>1. outBuf' = outBuf /\ outBuf[c] # Null
      BY <1>3 DEF SendBuffer, CountSent, Send, network, CountingInv
    <3> QED
      BY <1>1, <3>1, BufsAre
  <2>2. PICK a : sending' = [sending EXCEPT ![c] = a] /\ a \in Access
    <3>1. CASE SendBuffer(c)
      <4>1. PICK n \in 0 .. Full :
              sending' = [sending EXCEPT ![c] =
                IF n = 0 THEN Resting
                ELSE Before(IF n < @.count THEN "some" ELSE "all", Advanced(outBuf[c], n))]
        BY <3>1 DEF SendBuffer
      <4> DEFINE a == IF n = 0 THEN Resting
                      ELSE Before(IF n < sending[c].count THEN "some" ELSE "all", Advanced(outBuf[c], n))
      <4>2. Advanced(outBuf[c], n) \in 0 .. Beyond
        BY <2>1, BytesLeftIs
      <4>3. a \in Access
        BY <4>2, AccessIs
      <4>4. sending' = [sending EXCEPT ![c] = a]
        BY <4>1 DEF CountingInv
      <4> QED
        BY <4>3, <4>4
    <3>2. CASE CountSent(c)
      <4> DEFINE a == IF sending[c].step = "all" THEN Before("release", 0) ELSE Resting
      <4>1. sending' = [sending EXCEPT ![c] = a]
        BY <3>2 DEF CountSent, CountingInv
      <4>2. a \in Access
        BY AccessIs
      <4> QED
        BY <4>1, <4>2
    <3> QED
      BY <1>3, <3>1, <3>2
  <2> QED
    BY <1>1, <2>1, <2>2, ResponderGoesOn
<1>4. CASE ReleaseSent(c) \/ ConnectionLost(c)
  <2>1. sending' = [sending EXCEPT ![c] = Resting]
    BY <1>4 DEF ReleaseSent, ConnectionLost
  <2>2. \A d \in Clients \ {c} : outBuf'[d] = outBuf[d]
    BY <1>1, <1>4 DEF ReleaseSent, ConnectionLost
  <2> QED
    BY <1>1, <2>1, <2>2, AccessIs, ResponderGoesOn
<1> QED
  BY <1>2, <1>3, <1>4 DEF SendData

LEMMA OthersCount ==
  ASSUME BuffersInv, CountingInv, UNCHANGED <<counting, outBuf>>,
         usbOutput # <<>> => usbOutput' # <<>>
  PROVE  CountingInv'
BY DEF CountingInv, counting

LEMMA StoreCounts ==
  ASSUME BuffersInv, CountingInv, Store
  PROVE  CountingInv'
<1>1. UNCHANGED <<counting, outBuf>>
  BY DEF Store, StartText, StoreText, StartChain, StoreChain, StoreUsb, network
<1>2. UNCHANGED usbOutput \/ usbOutput' = Append(usbOutput, chain)
  BY DEF Store, StartText, StoreText, StartChain, StoreChain, StoreUsb
<1>3. usbOutput # <<>> => usbOutput' # <<>>
  <2>1. usbOutput \in Seq(Bufs)
    BY DEF BuffersInv, Typed
  <2> QED
    BY <1>2, <2>1
<1> QED
  BY <1>1, <1>3, OthersCount

-----------------------------------------------------------------------------
(* What the actions keep, all reachable states have.                       *)

LEMMA BuffersInvHolds == Spec => [](BuffersInv /\ CountingInv)
<1>1. Init => BuffersInv
  <2> SUFFICES ASSUME Init PROVE BuffersInv
    OBVIOUS
  <2>1. /\ buffer = [b \in Bufs |-> Blank] /\ gcodeReply = <<>> /\ usbOutput = <<>>
        /\ outBuf = [c \in Clients |-> Null] /\ outStack = [c \in Clients |-> <<>>]
        /\ sessions = {} /\ clientsServed = 0
        /\ storing = "no" /\ chain = Null /\ toUsb = FALSE /\ replies = 0
    BY DEF Init, Bufs
  <2>2. Cardinality(Clients) \in Nat /\ Null \in 0 .. Buffers
    BY SessionsCount, BufsAre
  <2>3. Typed
    <3>1. \A c \in Clients : outStack[c] = <<>>
      BY <2>1
    <3>2. outBuf \in [Clients -> 0 .. Buffers]
      BY <2>1, <2>2
    <3>3. outStack \in [Clients -> Seq(Bufs)]
      BY <2>1, NothingInEmpty
    <3>4. buffer \in [Bufs -> BufferRecords]
      BY <2>1, BlankIs
    <3>5. Len(<<>>) <= StackDepth /\ clientsServed \in 0 .. Cardinality(Clients)
          /\ replies \in 0 .. MaxReplies
      BY <2>1, <2>2, NothingInEmpty, BuffersAssumption
    <3> QED
      BY <2>1, <2>2, <3>1, <3>2, <3>3, <3>4, <3>5, NothingInEmpty DEF Typed
  <2>4. Served
    BY <2>1 DEF Served
  <2>5. Once
    BY <2>1, NothingInEmpty DEF Once
  <2>6. \A b \in Bufs : buffer[b].next = Null /\ buffer[b].free /\ buffer[b].references = 0
    BY <2>1, BlankIs
  <2>7. /\ heads \in [Holders -> SUBSET Bufs] /\ \A k \in Holders : heads[k] = {}
    <3>1. /\ HeadsIn(gcodeReply) = {} /\ HeadsIn(usbOutput) = {}
          /\ ReplyCarried(storing, chain) = {} /\ UsbCarried(storing, chain, toUsb) = {}
      BY <2>1, NothingInEmpty DEF ReplyCarried, UsbCarried
    <3>2. \A c \in Clients : ClientHeads(outBuf, outStack)[c] = {}
      BY <2>1, NothingInEmpty DEF ClientHeads
    <3>3. heads = HeadsOf({}, {}, {}, {}, ClientHeads(outBuf, outStack))
      BY <3>1 DEF heads
    <3>4. \A k \in Holders : heads[k] = {}
      <4>1. /\ heads[Reply] = {} /\ heads[Usb] = {} /\ heads[ForReply] = {} /\ heads[ForUsb] = {}
            /\ \A c \in Clients : heads[c] = {}
        BY <3>2, <3>3, HeadsAre
      <4> QED
        BY <4>1 DEF Holders
    <3>5. heads = [k \in Holders |-> heads[k]]
      BY <3>3 DEF HeadsOf
    <3> QED
      BY <3>4, <3>5
  <2>8. \A k \in Holders : ReachIn(buffer, heads[k]) = {} /\ Apart(buffer, heads[k])
    BY <2>7 DEF ReachIn, Apart
  <2>9. \A b : HoldersOf(buffer, heads, b) = {}
    BY <2>8 DEF HoldersOf
  <2>10. Linked(buffer) /\ FreeIsEnd(buffer) /\ Alone(buffer)
    BY <2>6 DEF Linked, FreeIsEnd, Alone
  <2>11. NoLoop(buffer)
    BY <2>6, <2>10, ChainBasics DEF NoLoop
  <2>12. Accounted(buffer, heads)
    BY <2>6, <2>9, FS_EmptySet DEF Accounted
  <2>13. Crossed(buffer, heads)
    BY <2>8 DEF Crossed, Holders
  <2> QED
    BY <2>3, <2>4, <2>5, <2>7, <2>8, <2>10, <2>11, <2>12, <2>13 DEF BuffersInv, Sound
<1>2. Init => CountingInv
  BY AccessIs DEF Init, CountingInv
<1>3. BuffersInv /\ CountingInv /\ [Next]_vars => BuffersInv' /\ CountingInv'
  <2> SUFFICES ASSUME BuffersInv, CountingInv, [Next]_vars PROVE BuffersInv' /\ CountingInv'
    OBVIOUS
  <2>1. CASE Store
    BY <2>1, StartTextKeeps, StoreTextKeeps, StartChainKeeps, StoreChainKeeps, StoreUsbKeeps,
       StoreCounts DEF Store
  <2>2. CASE FlushUsb
    BY <2>2, FlushUsbKeeps, FlushUsbCounts
  <2>3. ASSUME NEW c \in Clients, Serve(c) PROVE BuffersInv' /\ CountingInv'
    <3>1. CASE Connect(c) \/ Disconnect(c) \/ Fetch(c)
      <4>1. UNCHANGED <<counting, outBuf, usbOutput>>
        BY <3>1 DEF Connect, Disconnect, Fetch, Polling, network
      <4> QED
        BY <3>1, <4>1, ConnectKeeps, FetchKeeps, OthersCount
    <3>2. CASE SendData(c) \/ ConnectionLost(c)
      BY <3>2, SendDataKeeps, ConnectionLostKeeps, SendDataCounts
    <3> QED
      BY <2>3, <3>1, <3>2 DEF Serve
  <2>4. CASE TimeOutClients \/ TimeOutReply
    <3>1. UNCHANGED <<counting, outBuf, usbOutput>>
      BY <2>4 DEF TimeOutClients, TimeOutReply, Polling, network
    <3> QED
      BY <2>4, <3>1, TimeOutClientsKeeps, TimeOutReplyKeeps, OthersCount
  <2>5. CASE UNCHANGED vars
    BY <2>5, StutterKeeps, OthersCount DEF vars, network
  <2> QED
    BY <2>1, <2>2, <2>3, <2>4, <2>5 DEF Next
<1> QED
  BY <1>1, <1>2, <1>3, PTL DEF Spec

-----------------------------------------------------------------------------
(* The properties.                                                         *)

\* A condition, counted.
One(p) == IF p THEN 1 ELSE 0

\* A set that has one member more than another when a condition holds.
OneMore(S, T, x, p) == p \in BOOLEAN /\ x \notin T /\ S = T \cup (IF p THEN {x} ELSE {})

LEMMA CountOne ==
  ASSUME NEW S, IsFiniteSet(S), NEW T, NEW x, NEW p, OneMore(S, T, x, p)
  PROVE  /\ IsFiniteSet(T) /\ Cardinality(T) \in Nat
         /\ Cardinality(S) = Cardinality(T) + One(p)
<1>1. T \subseteq S /\ p \in BOOLEAN /\ x \notin T /\ S = T \cup (IF p THEN {x} ELSE {})
  BY DEF OneMore
<1>2. IsFiniteSet(T) /\ Cardinality(T) \in Nat
  BY <1>1, FS_Subset, FS_CardinalityType
<1>3. CASE p
  <2>1. S = T \cup {x}
    BY <1>1, <1>3
  <2> QED
    BY <1>1, <1>2, <1>3, <2>1, FS_AddElement DEF One
<1>4. CASE ~p
  <2>1. S = T
    BY <1>1, <1>4
  <2> QED
    BY <1>2, <1>4, <2>1 DEF One
<1> QED
  BY <1>1, <1>2, <1>3, <1>4

\* The holders of a buffer, one kind after the other.
LEMMA HoldersAdded ==
  ASSUME NEW buf, NEW hd, NEW b
  PROVE  Cardinality(HoldersOf(buf, hd, b)) =
           Cardinality({c \in Clients : b \in ReachIn(buf, hd[c])})
           + One(b \in ReachIn(buf, hd[Reply])) + One(b \in ReachIn(buf, hd[Usb]))
           + One(b \in ReachIn(buf, hd[ForReply])) + One(b \in ReachIn(buf, hd[ForUsb]))
<1> DEFINE H(K) == {k \in K : b \in ReachIn(buf, hd[k])}
           K1 == Clients \cup {Reply}
           K2 == K1 \cup {Usb}
           K3 == K2 \cup {ForReply}
           p == b \in ReachIn(buf, hd[Reply])
           u == b \in ReachIn(buf, hd[Usb])
           f == b \in ReachIn(buf, hd[ForReply])
           g == b \in ReachIn(buf, hd[ForUsb])
<1> DEFINE H0 == H(Clients)  H1 == H(K1)  H2 == H(K2)  H3 == H(K3)  H4 == H(Holders)
<1>1. HoldersOf(buf, hd, b) = H4 /\ IsFiniteSet(H4)
  BY HoldersCount DEF HoldersOf
<1>2. OneMore(H4, H3, ForUsb, g) /\ OneMore(H3, H2, ForReply, f)
  BY HoldersDiffer DEF Holders, OneMore
<1>3. OneMore(H2, H1, Usb, u) /\ OneMore(H1, H0, Reply, p)
  BY HoldersDiffer DEF OneMore
<1> HIDE DEF H0, H1, H2, H3, H4, p, u, f, g
<1>4. /\ IsFiniteSet(H3) /\ Cardinality(H3) \in Nat /\ Cardinality(H4) = Cardinality(H3) + One(g)
  BY <1>1, <1>2, CountOne
<1>5. /\ IsFiniteSet(H2) /\ Cardinality(H2) \in Nat /\ Cardinality(H3) = Cardinality(H2) + One(f)
  BY <1>2, <1>4, CountOne
<1>6. /\ IsFiniteSet(H1) /\ Cardinality(H1) \in Nat /\ Cardinality(H2) = Cardinality(H1) + One(u)
  BY <1>3, <1>5, CountOne
<1>7. /\ Cardinality(H0) \in Nat /\ Cardinality(H1) = Cardinality(H0) + One(p)
  BY <1>3, <1>6, CountOne
<1>8. One(p) \in Nat /\ One(u) \in Nat /\ One(f) \in Nat /\ One(g) \in Nat
  BY DEF One
<1>9. Cardinality(H4) = Cardinality(H0) + One(p) + One(u) + One(f) + One(g)
  BY <1>4, <1>5, <1>6, <1>7, <1>8
<1> QED
  BY <1>1, <1>9 DEF H0, H4, p, u, f, g

\* A buffer is in one chain of a stack, if in any.
LEMMA InOneChain ==
  ASSUME NEW buf, NEW q \in Seq(Bufs), Injective(q), Apart(buf, HeadsIn(q)), NEW b
  PROVE  /\ \A i, k \in DOMAIN q : b \in ChainIn(buf, q[i]) /\ b \in ChainIn(buf, q[k]) => i = k
         /\ b \in ReachIn(buf, HeadsIn(q)) <=> \E i \in DOMAIN q : b \in ChainIn(buf, q[i])
         /\ Cardinality({i \in DOMAIN q : b \in ChainIn(buf, q[i])}) =
              One(b \in ReachIn(buf, HeadsIn(q)))
<1>1. ASSUME NEW i \in DOMAIN q, NEW k \in DOMAIN q,
             b \in ChainIn(buf, q[i]), b \in ChainIn(buf, q[k])
      PROVE  i = k
  <2>1. q[i] \in HeadsIn(q) /\ q[k] \in HeadsIn(q)
    BY DEF HeadsIn
  <2>2. q[i] = q[k]
    BY <1>1, <2>1 DEF Apart
  <2> QED
    BY <2>2 DEF Injective
<1>2. b \in ReachIn(buf, HeadsIn(q)) <=> \E i \in DOMAIN q : b \in ChainIn(buf, q[i])
  BY DEF ReachIn, HeadsIn
<1> DEFINE I == {i \in DOMAIN q : b \in ChainIn(buf, q[i])}
<1>3. CASE b \in ReachIn(buf, HeadsIn(q))
  <2>1. PICK i \in DOMAIN q : b \in ChainIn(buf, q[i])
    BY <1>2, <1>3
  <2>2. I = {i}
    BY <1>1, <2>1
  <2> QED
    BY <1>1, <1>2, <1>3, <2>2, OnlyOne DEF One
<1>4. CASE b \notin ReachIn(buf, HeadsIn(q))
  <2>1. I = {}
    BY <1>2, <1>4
  <2> QED
    BY <1>1, <1>2, <1>4, <2>1, FS_EmptySet DEF One
<1> QED
  BY <1>3, <1>4

\* A buffer that several clients have in their stacks is counted once for each.
StackPlaces(b) ==
  {ci \in Clients \X (1 .. StackDepth) :
     ci[2] \in DOMAIN outStack[ci[1]] /\ b \in Chain(outStack[ci[1]][ci[2]])}

LEMMA ClientsWithStacks ==
  ASSUME BuffersInv, NEW b \in Bufs
  PROVE  Cardinality(StackPlaces(b)) =
           Cardinality({c \in Clients : b \in ReachIn(buffer, HeadsIn(outStack[c]))})
<1> DEFINE C == {c \in Clients : b \in ReachIn(buffer, HeadsIn(outStack[c]))}
           place(c) == CHOOSE i \in DOMAIN outStack[c] : b \in ChainIn(buffer, outStack[c][i])
           f == [c \in C |-> <<c, place(c)>>]
           D == StackPlaces(b)
<1>1. ASSUME NEW c \in Clients
      PROVE  /\ outStack[c] \in Seq(Bufs) /\ Injective(outStack[c])
             /\ Len(outStack[c]) <= StackDepth /\ Apart(buffer, HeadsIn(outStack[c]))
             /\ DOMAIN outStack[c] \subseteq 1 .. StackDepth
  <2>1. /\ outStack[c] \in Seq(Bufs) /\ Injective(outStack[c]) /\ Len(outStack[c]) <= StackDepth
    BY DEF BuffersInv, Typed, Once
  <2>2. Apart(buffer, HeadsIn(outStack[c]))
    <3>1. heads[c] = ({outBuf[c]} \ {Null}) \cup HeadsIn(outStack[c]) /\ c \in Holders
      BY HeadsNow
    <3>2. Apart(buffer, heads[c])
      BY <3>1 DEF BuffersInv, Sound
    <3> QED
      BY <3>1, <3>2 DEF Apart
  <2>3. DOMAIN outStack[c] = 1 .. Len(outStack[c]) /\ Len(outStack[c]) \in Nat
    BY <2>1
  <2> QED
    BY <2>1, <2>2, <2>3, BuffersAssumption
<1>2. ASSUME NEW c \in C
      PROVE  /\ place(c) \in DOMAIN outStack[c] /\ b \in ChainIn(buffer, outStack[c][place(c)])
             /\ place(c) \in 1 .. StackDepth
  <2>1. \E i \in DOMAIN outStack[c] : b \in ChainIn(buffer, outStack[c][i])
    BY <1>1, InOneChain
  <2> QED
    BY <1>1, <2>1
<1>3. ASSUME NEW c \in Clients, NEW i \in DOMAIN outStack[c], b \in ChainIn(buffer, outStack[c][i])
      PROVE  c \in C /\ place(c) = i
  <2>1. c \in C
    BY <1>1, <1>3, InOneChain
  <2>2. place(c) = i
    BY <1>1, <1>2, <1>3, <2>1, InOneChain
  <2> QED
    BY <2>1, <2>2
<1> HIDE DEF place
<1>4. \A x : Chain(x) = ChainIn(buffer, x)
  BY StateChains
<1>5. ASSUME NEW c \in C PROVE <<c, place(c)>> \in D
  BY <1>2, <1>4 DEF StackPlaces
<1>6. ASSUME NEW t \in D PROVE \E c \in C : <<c, place(c)>> = t
  <2>1. /\ t \in Clients \X (1 .. StackDepth)
        /\ t[2] \in DOMAIN outStack[t[1]] /\ b \in ChainIn(buffer, outStack[t[1]][t[2]])
    BY <1>4 DEF StackPlaces
  <2>2. PICK c \in Clients, i \in 1 .. StackDepth : t = <<c, i>>
    BY <2>1
  <2>3. i \in DOMAIN outStack[c] /\ b \in ChainIn(buffer, outStack[c][i])
    BY <2>1, <2>2
  <2>4. c \in C /\ place(c) = i
    BY <1>3, <2>3
  <2> QED
    BY <2>2, <2>4
<1>7. f \in [C -> D] /\ \A c \in C : f[c] = <<c, place(c)>>
  BY <1>5
<1>8. f \in Bijection(C, D)
  <2> HIDE DEF C, D, f
  <2>1. \A c, d \in C : f[c] = f[d] => c = d
    BY <1>7
  <2>2. \A t \in D : \E c \in C : f[c] = t
    BY <1>6, <1>7
  <2>3. f \in Injection(C, D)
    BY <1>7, <2>1 DEF Injection, IsInjective
  <2>4. f \in Surjection(C, D)
    BY <1>7, <2>2 DEF Surjection
  <2> QED
    BY <2>3, <2>4 DEF Bijection
<1>9. ExistsBijection(C, D)
  BY <1>8 DEF ExistsBijection
<1>10. C \in SUBSET Clients
  OBVIOUS
<1>11. IsFiniteSet(C)
  BY <1>10, SessionsCount
<1> HIDE DEF C, D
<1>12. Cardinality(D) = Cardinality(C)
  BY <1>9, <1>11, FS_Bijection
<1> QED
  BY <1>12 DEF C, D

\* A client has a buffer in what it is sending or in its stack, not in both.
LEMMA ClientsAdded ==
  ASSUME BuffersInv, NEW b \in Bufs
  PROVE  Cardinality({c \in Clients : b \in ReachIn(buffer, heads[c])}) =
           Cardinality({c \in Clients : b \in Chain(outBuf[c])}) + Cardinality(StackPlaces(b))
<1> DEFINE A == {c \in Clients : b \in Chain(outBuf[c])}
           B == {c \in Clients : b \in ReachIn(buffer, HeadsIn(outStack[c]))}
           C == {c \in Clients : b \in ReachIn(buffer, heads[c])}
<1>1. Linked(buffer) /\ \A x : Chain(x) = ChainIn(buffer, x)
  BY StateChains DEF BuffersInv, Sound
<1>2. ASSUME NEW c \in Clients
      PROVE  /\ b \in ReachIn(buffer, heads[c]) <=>
                  b \in Chain(outBuf[c]) \/ b \in ReachIn(buffer, HeadsIn(outStack[c]))
             /\ ~(b \in Chain(outBuf[c]) /\ b \in ReachIn(buffer, HeadsIn(outStack[c])))
  <2>1. heads[c] = ({outBuf[c]} \ {Null}) \cup HeadsIn(outStack[c]) /\ c \in Holders
    BY HeadsNow
  <2>2. Apart(buffer, heads[c]) /\ outBuf[c] \notin HeadsIn(outStack[c])
    BY <2>1 DEF BuffersInv, Sound, Once
  <2>3. Chain(outBuf[c]) = ReachIn(buffer, {outBuf[c]} \ {Null})
    BY <1>1, ChainBasics DEF ReachIn
  <2>4. ReachIn(buffer, heads[c]) = Chain(outBuf[c]) \cup ReachIn(buffer, HeadsIn(outStack[c]))
    BY <2>1, <2>3 DEF ReachIn
  <2>5. ASSUME b \in Chain(outBuf[c]), b \in ReachIn(buffer, HeadsIn(outStack[c])) PROVE FALSE
    <3>1. PICK h \in HeadsIn(outStack[c]) : b \in ChainIn(buffer, h)
      BY <2>5 DEF ReachIn
    <3>2. outBuf[c] # Null /\ b \in ChainIn(buffer, outBuf[c])
      BY <1>1, <2>5, ChainBasics
    <3>3. outBuf[c] \in heads[c] /\ h \in heads[c] /\ outBuf[c] # h
      BY <2>1, <2>2, <3>1, <3>2
    <3> QED
      BY <2>2, <3>1, <3>2, <3>3 DEF Apart
  <2> QED
    BY <2>4, <2>5
<1>3. C = A \cup B /\ A \cap B = {}
  BY <1>2
<1>4. A \in SUBSET Clients /\ B \in SUBSET Clients
  OBVIOUS
<1> HIDE DEF A, B, C
<1>5. /\ IsFiniteSet(A) /\ IsFiniteSet(B) /\ Cardinality(A) \in Nat /\ Cardinality(B) \in Nat
      /\ Cardinality({}) = 0
  BY <1>4, SessionsCount, FS_EmptySet
<1>6. Cardinality(A \cup B) = Cardinality(A) + Cardinality(B) - Cardinality(A \cap B)
  BY <1>5, FS_Union
<1>7. Cardinality(C) = Cardinality(A) + Cardinality(B)
  <2>1. Cardinality(A \cap B) = 0 /\ Cardinality(C) = Cardinality(A \cup B)
    BY <1>3, <1>5
  <2> QED
    BY <1>5, <1>6, <2>1
<1>8. Cardinality(StackPlaces(b)) = Cardinality(B)
  BY ClientsWithStacks DEF B
<1> QED
  BY <1>7, <1>8 DEF A, C

LEMMA OneIs == \A p \in BOOLEAN : One(p) \in {0, 1}
BY DEF One

\* Main's share of the count.
MainHoldings(b) ==
  CASE storing = "chain" /\ b \in Chain(chain) -> IF toUsb THEN 2 ELSE 1
    [] storing = "usb" /\ b \in Chain(chain) -> 1
    [] OTHER -> 0

LEMMA MainAdded ==
  ASSUME BuffersInv, NEW b \in Bufs
  PROVE  MainHoldings(b) =
           One(b \in ReachIn(buffer, heads[ForReply])) + One(b \in ReachIn(buffer, heads[ForUsb]))
<1>1. /\ heads[ForReply] = ReplyCarried(storing, chain)
      /\ heads[ForUsb] = UsbCarried(storing, chain, toUsb)
      /\ toUsb \in BOOLEAN
      /\ Chain(chain) = ChainIn(buffer, chain)
  BY HeadsNow, StateChains DEF BuffersInv, Typed
<1>2. ReachIn(buffer, {chain}) = Chain(chain) /\ ReachIn(buffer, {}) = {}
  BY <1>1 DEF ReachIn
<1>3. CASE storing = "chain" /\ toUsb
  <2>1. heads[ForReply] = {chain} /\ heads[ForUsb] = {chain}
    BY <1>1, <1>3 DEF ReplyCarried, UsbCarried
  <2>2. CASE b \in Chain(chain)
    BY <1>2, <1>3, <2>1, <2>2 DEF MainHoldings, One
  <2>3. CASE b \notin Chain(chain)
    BY <1>2, <1>3, <2>1, <2>3 DEF MainHoldings, One
  <2> QED
    BY <2>2, <2>3
<1>4. CASE storing = "chain" /\ ~toUsb
  <2>1. heads[ForReply] = {chain} /\ heads[ForUsb] = {}
    BY <1>1, <1>4 DEF ReplyCarried, UsbCarried
  <2>2. CASE b \in Chain(chain)
    BY <1>2, <1>4, <2>1, <2>2 DEF MainHoldings, One
  <2>3. CASE b \notin Chain(chain)
    BY <1>2, <1>4, <2>1, <2>3 DEF MainHoldings, One
  <2> QED
    BY <2>2, <2>3
<1>5. CASE storing = "usb"
  <2>1. heads[ForReply] = {} /\ heads[ForUsb] = {chain}
    BY <1>1, <1>5 DEF ReplyCarried, UsbCarried
  <2>2. CASE b \in Chain(chain)
    BY <1>2, <1>5, <2>1, <2>2 DEF MainHoldings, One
  <2>3. CASE b \notin Chain(chain)
    BY <1>2, <1>5, <2>1, <2>3 DEF MainHoldings, One
  <2> QED
    BY <2>2, <2>3
<1>6. CASE storing \notin {"chain", "usb"}
  <2>1. heads[ForReply] = {} /\ heads[ForUsb] = {}
    BY <1>1, <1>6 DEF ReplyCarried, UsbCarried
  <2> QED
    BY <1>2, <1>6, <2>1 DEF MainHoldings, One
<1> QED
  BY <1>1, <1>3, <1>4, <1>5, <1>6

\* Holdings counts the holders.
LEMMA HoldingsCountHolders ==
  ASSUME BuffersInv, NEW b \in Bufs
  PROVE  Holdings(b) = Cardinality(HoldersOf(buffer, heads, b))
<1>1. /\ heads[Reply] = HeadsIn(gcodeReply) /\ heads[Usb] = HeadsIn(usbOutput)
      /\ gcodeReply \in Seq(Bufs) /\ usbOutput \in Seq(Bufs)
      /\ Injective(gcodeReply) /\ Injective(usbOutput)
      /\ Apart(buffer, heads[Reply]) /\ Apart(buffer, heads[Usb])
  BY HeadsNow DEF BuffersInv, Typed, Once, Sound
<1>2. \A x : Chain(x) = ChainIn(buffer, x)
  BY StateChains
<1> DEFINE r == Cardinality({i \in DOMAIN gcodeReply : b \in Chain(gcodeReply[i])})
           u == Cardinality({i \in DOMAIN usbOutput : b \in Chain(usbOutput[i])})
           s == Cardinality({c \in Clients : b \in Chain(outBuf[c])})
           k == Cardinality(StackPlaces(b))
           m == MainHoldings(b)
<1>3. Holdings(b) = r + u + s + k + m
  BY DEF Holdings, StackPlaces, MainHoldings
<1>4. r = One(b \in ReachIn(buffer, heads[Reply]))
  BY <1>1, <1>2, InOneChain
<1>5. u = One(b \in ReachIn(buffer, heads[Usb]))
  BY <1>1, <1>2, InOneChain
<1>6. Cardinality({c \in Clients : b \in ReachIn(buffer, heads[c])}) = s + k
  BY ClientsAdded
<1>7. m = One(b \in ReachIn(buffer, heads[ForReply])) + One(b \in ReachIn(buffer, heads[ForUsb]))
  BY MainAdded
<1> DEFINE h == Cardinality(HoldersOf(buffer, heads, b))
           f == One(b \in ReachIn(buffer, heads[ForReply]))
           g == One(b \in ReachIn(buffer, heads[ForUsb]))
<1>8. h = Cardinality({c \in Clients : b \in ReachIn(buffer, heads[c])})
          + One(b \in ReachIn(buffer, heads[Reply])) + One(b \in ReachIn(buffer, heads[Usb]))
          + f + g
  BY HoldersAdded
<1>9. s \in Nat /\ k \in Nat
  <2>1. {c \in Clients : b \in Chain(outBuf[c])} \in SUBSET Clients
    OBVIOUS
  <2>2. {c \in Clients : b \in ReachIn(buffer, HeadsIn(outStack[c]))} \in SUBSET Clients
    OBVIOUS
  <2>3. s \in Nat
    BY <2>1, SessionsCount
  <2>4. k \in Nat
    BY <2>2, SessionsCount, ClientsWithStacks
  <2> QED
    BY <2>3, <2>4
<1>10. r \in Nat /\ u \in Nat /\ f \in Nat /\ g \in Nat
  BY <1>4, <1>5 DEF One
<1> HIDE DEF r, u, s, k, m, h, f, g
<1>11. h = (s + k) + r + u + f + g
  BY <1>4, <1>5, <1>6, <1>8
<1>12. m = f + g
  BY <1>7 DEF f, g
<1>13. Holdings(b) = h
  BY <1>3, <1>9, <1>10, <1>11, <1>12
<1> QED
  BY <1>13 DEF h

LEMMA AccountedIs ==
  ASSUME BuffersInv
  PROVE  BuffersAreAccounted
<1> SUFFICES ASSUME NEW b \in Bufs
             PROVE  buffer[b].references = Holdings(b) /\ (buffer[b].free <=> Holdings(b) = 0)
  BY DEF BuffersAreAccounted, Bufs
<1>1. /\ buffer[b].references = Cardinality(HoldersOf(buffer, heads, b))
      /\ buffer[b].free <=> HoldersOf(buffer, heads, b) = {}
  BY DEF BuffersInv, Sound, Accounted
<1>2. Cardinality(HoldersOf(buffer, heads, b)) = 0 <=> HoldersOf(buffer, heads, b) = {}
  BY HoldersCount
<1>3. Holdings(b) = Cardinality(HoldersOf(buffer, heads, b))
  BY HoldingsCountHolders
<1> QED
  BY <1>1, <1>2, <1>3

\* No buffer is referenced more often than by each client, and once on either way.
LEMMA FewReferences ==
  ASSUME BuffersInv, NEW b \in Bufs
  PROVE  buffer[b].references \in 0 .. 2 + Cardinality(Clients)
<1> DEFINE C == {c \in Clients : b \in ReachIn(buffer, heads[c])}
           n == Cardinality(C)
           r == One(b \in ReachIn(buffer, heads[Reply]))
           u == One(b \in ReachIn(buffer, heads[Usb]))
           f == One(b \in ReachIn(buffer, heads[ForReply]))
           g == One(b \in ReachIn(buffer, heads[ForUsb]))
<1>1. C \in SUBSET Clients
  OBVIOUS
<1>2. n \in Nat /\ n <= Cardinality(Clients) /\ Cardinality(Clients) \in Nat
  BY <1>1, SessionsCount
<1>3. r + f \in 0 .. 1 /\ u + g \in 0 .. 1 /\ r \in 0 .. 1 /\ u \in 0 .. 1 /\ f \in 0 .. 1 /\ g \in 0 .. 1
  <2>1. /\ ~(b \in ReachIn(buffer, heads[Reply]) /\ b \in ReachIn(buffer, heads[ForReply]))
        /\ ~(b \in ReachIn(buffer, heads[Usb]) /\ b \in ReachIn(buffer, heads[ForUsb]))
    BY DEF BuffersInv, Sound, Crossed
  <2> QED
    BY <2>1 DEF One
<1>4. buffer[b].references = n + r + u + f + g
  <2>1. buffer[b].references = Cardinality(HoldersOf(buffer, heads, b))
    BY DEF BuffersInv, Sound, Accounted
  <2> QED
    BY <2>1, HoldersAdded
<1> HIDE DEF n, r, u, f, g
<1> QED
  BY <1>2, <1>3, <1>4

LEMMA TypesAre ==
  ASSUME BuffersInv, CountingInv
  PROVE  TypeOK
<1>1. Typed
  BY DEF BuffersInv
<1> DEFINE Records == [free : BOOLEAN, next : 0 .. Buffers, length : 0 .. Full,
                       bytesRead : 0 .. Beyond, references : 0 .. 2 + Cardinality(Clients),
                       isReferenced : BOOLEAN]
<1>2. buffer \in [Bufs -> Records]
  <2>1. ASSUME NEW b \in Bufs PROVE buffer[b] \in Records
    <3>1. buffer[b] \in BufferRecords
      BY <1>1 DEF Typed
    <3>2. buffer[b].references \in 0 .. 2 + Cardinality(Clients)
      BY FewReferences
    <3> QED
      BY <3>1, <3>2 DEF BufferRecords
  <2>2. buffer \in [Bufs -> BufferRecords]
    BY <1>1 DEF Typed
  <2> QED
    BY <2>1, <2>2
<1>3. sending \in [Clients -> Access] /\ flushing \in Access
  BY DEF CountingInv
<1> QED
  BY <1>1, <1>2, <1>3 DEF Typed, TypeOK, Bufs

\* The buffers, the stacks and the responders are what their types say; a count
\* of references stays within the number of clients and two.  What is counted as
\* sent may be more than there is: the two tasks that count have no common lock.
THEOREM ReplyBuffersTypeCorrect == Spec => []TypeOK
<1>1. BuffersInv /\ CountingInv => TypeOK
  BY TypesAre
<1> QED
  BY <1>1, BuffersInvHolds, PTL

\* However many buffers, clients and replies there are, and whoever lets go of a
\* reply first, a buffer has as many references as there are holders that reach it
\* and is free when there is none: OutputBuffer::Release frees nothing that is
\* still to be sent, and no buffer is lost.
THEOREM RepliesAreAccounted == Spec => []BuffersAreAccounted
<1>1. BuffersInv => BuffersAreAccounted
  BY AccountedIs
<1> QED
  BY <1>1, BuffersInvHolds, PTL

\* What the services do together, the buffers do alone: no other service touches
\* them (the print and the object model have buffers and locks of their own).
THEOREM ServicesRunTheBuffers == ServicesSpec => Spec
<1>1. ServicesInit => Init
  BY DEF ServicesInit
<1>2. [ServicesNext]_serviceVars => [Next]_vars
  <2> SUFFICES ASSUME [ServicesNext]_serviceVars PROVE [Next]_vars
    OBVIOUS
  <2>1. CASE part = "print" /\ Others("print")
    BY <2>1 DEF Others
  <2>2. CASE part = "replies" /\ Next
    BY <2>2
  <2>3. CASE part = "heap" /\ Others("heap")
    BY <2>3 DEF Others
  <2>4. CASE UNCHANGED serviceVars
    BY <2>4 DEF serviceVars
  <2> QED
    BY <2>1, <2>2, <2>3, <2>4 DEF ServicesNext
<1> QED
  BY <1>1, <1>2, PTL DEF ServicesSpec, Spec

-----------------------------------------------------------------------------
(* The heap.  Its slots are seen as counts of references n and contents c. *)

Index == 1 .. Slots
HeapTexts == Heap!Texts \cup {Heap!Nothing}
Entries == [length : Nat, free : BOOLEAN, text : HeapTexts, elements : Seq(0 .. Slots)]

counts == [s \in Index |-> slot[s].refCount]
Holding(blocks, index) ==
  [s \in Index |-> IF index[s].refCount > 0
                   THEN blocks[index[s].storage[1]][index[s].storage[2]] ELSE Heap!Nothing]
contents == Holding(block, slot)

\* Where the slots are stored: one entry each that is not free.
Stored(blocks, index) ==
  /\ blocks \in Seq(Seq(Entries))
  /\ index \in [Index -> [refCount : Nat, storage : Nat \X Nat]]
  /\ \A s \in Index :
       IF index[s].refCount = 0 THEN index[s] = Heap!FreeSlot
       ELSE /\ index[s].storage[1] \in DOMAIN blocks
            /\ index[s].storage[2] \in DOMAIN blocks[index[s].storage[1]]
            /\ ~blocks[index[s].storage[1]][index[s].storage[2]].free
  /\ \A r, s \in Index :
       index[r].refCount > 0 /\ index[s].refCount > 0 /\ index[r].storage = index[s].storage
         => r = s

IsArrayIn(c, s) == c[s].text = Heap!Nothing

\* The arrays whose elements count: not those of which only a reference is left that
\* is about to go.
Dying(h, a, g) == {h[<<t, g[t]>>] : t \in {u \in Tasks : a[u] = "slot"}}
Arrays(n, c, h, a, g) ==
  {s \in Index : n[s] > 0 /\ IsArrayIn(c, s) /\ ~(n[s] = 1 /\ s \in Dying(h, a, g))}

\* What names a slot: handles, and elements of such arrays.
NamedBy(h, s) == {p \in Heap!Places : h[p] = s}
ElementIn(c, arrays, s) ==
  {x \in arrays \X (1 .. Elements) : c[x[1]].elements[x[2]] = s}

HandlesTyped(h, a, g) ==
  /\ h \in [Heap!Places -> 0 .. Slots]
  /\ a \in [Tasks -> {"idle", "elements", "slot"}] /\ g \in [Tasks -> Nat]
  /\ \A t \in Tasks : a[t] # "idle" => <<t, g[t]>> \in Heap!Places /\ h[<<t, g[t]>>] # 0

Counted(n, c, h, a, g) ==
  /\ n \in [Index -> Nat]
  /\ \A s \in Index :
       Cardinality(NamedBy(h, s)) + Cardinality(ElementIn(c, Arrays(n, c, h, a, g), s)) <= n[s]

\* The elements are strings.
Elementary(n, c, h, a, g) ==
  /\ \A b \in Index : n[b] > 0 => c[b] \in Entries
  /\ \A b \in Arrays(n, c, h, a, g) :
       /\ c[b].elements \in [1 .. Elements -> 0 .. Slots]
       /\ \A k \in 1 .. Elements : c[b].elements[k] # 0 => ~IsArrayIn(c, c[b].elements[k])
  /\ \A t \in Tasks : a[t] = "elements" =>
       n[h[<<t, g[t]>>]] = 1 /\ IsArrayIn(c, h[<<t, g[t]>>])

LiveIn(h, a, g) ==
  {p \in Heap!Places : h[p] # 0 /\ ~(a[p[1]] # "idle" /\ g[p[1]] = p[2])}

TextOf(c, s) == IF s = 0 THEN Heap!Nothing ELSE c[s].text

\* A slot has a value.
HasValue(c, s, val) ==
  /\ val.isArray = IsArrayIn(c, s)
  /\ IF val.isArray
     THEN /\ val.texts \in [1 .. Elements -> HeapTexts]
          /\ \A k \in 1 .. Elements : TextOf(c, c[s].elements[k]) = val.texts[k]
     ELSE val.texts # <<>> /\ c[s].text = val.texts[1]

Valued(c, h, a, g, v) ==
  /\ v \in [Heap!Places -> [isArray : BOOLEAN, texts : Seq(HeapTexts)]]
  /\ \A p \in LiveIn(h, a, g) : HasValue(c, h[p], v[p])

Kept(n, c, h, a, g, v) ==
  /\ HandlesTyped(h, a, g)
  /\ Counted(n, c, h, a, g)
  /\ Elementary(n, c, h, a, g)
  /\ Valued(c, h, a, g, v)

HeapInv ==
  /\ Stored(block, slot)
  /\ Kept(counts, contents, handle, at, target, value)

\* What the constants are.
LEMMA HeapConstants ==
  /\ Slots \in Nat /\ Elements \in Nat \ {0} /\ IsFiniteSet(Tasks)
  /\ Handles \in [Tasks -> Nat] /\ Writers \subseteq Tasks
  /\ Heap!Nothing \notin Heap!Texts /\ 0 \notin Index
BY HeapAssumed DEF Heap!HeapAssumption, Heap!Texts, Heap!IsFiniteSet, IsFiniteSet, Index

\* A number of a slot that is not 0 is in the index.
LEMMA NumberIs ==
  ASSUME NEW s \in 0 .. Slots, s # 0
  PROVE  s \in Index
BY HeapConstants DEF Index

LEMMA NumbersFinite == \A n \in Nat : IsFiniteSet(1 .. n)
<1> TAKE n \in Nat
<1>1. 1 \in Int /\ n \in Int
  OBVIOUS
<1> QED
  BY <1>1, FS_Interval

\* There are finitely many handles.
LEMMA PlacesFinite == IsFiniteSet(Heap!Places)
<1> DEFINE own(t) == {t} \X (1 .. Handles[t])
           all == {own(t) : t \in Tasks}
           f == [t \in Tasks |-> own(t)]
<1>1. f \in Surjection(Tasks, all)
  BY DEF Surjection
<1>2. IsFiniteSet(all)
  BY <1>1, HeapConstants, FS_Surjection
<1>3. ASSUME NEW t \in Tasks PROVE IsFiniteSet(own(t))
  <2>1. IsFiniteSet({t}) /\ IsFiniteSet(1 .. Handles[t])
    BY HeapConstants, FS_Singleton, NumbersFinite
  <2> QED
    BY <2>1, FS_Product
<1>4. IsFiniteSet(UNION all)
  BY <1>2, <1>3, FS_UNION
<1> QED
  BY <1>4 DEF Heap!Places

LEMMA PlaceIs ==
  ASSUME NEW p \in Heap!Places
  PROVE  p[1] \in Tasks /\ p[2] \in 1 .. Handles[p[1]] /\ p = <<p[1], p[2]>>
BY DEF Heap!Places

\* Finitely many handles and elements name a slot.
LEMMA NamesFinite ==
  ASSUME NEW h, NEW c, NEW arrays \in SUBSET Index, NEW s
  PROVE  /\ IsFiniteSet(NamedBy(h, s)) /\ Cardinality(NamedBy(h, s)) \in Nat
         /\ IsFiniteSet(ElementIn(c, arrays, s)) /\ Cardinality(ElementIn(c, arrays, s)) \in Nat
<1>1. NamedBy(h, s) \in SUBSET Heap!Places
  BY DEF NamedBy
<1>2. IsFiniteSet(Index \X (1 .. Elements))
  BY HeapConstants, NumbersFinite, FS_Product DEF Index
<1>3. ElementIn(c, arrays, s) \in SUBSET (Index \X (1 .. Elements))
  BY DEF ElementIn
<1> QED
  BY <1>1, <1>2, <1>3, PlacesFinite, FS_Subset, FS_CardinalityType

\* A set that loses some members and gains others.
LEMMA SetChange ==
  ASSUME NEW N, NEW M, NEW X \in SUBSET N, NEW Y,
         IsFiniteSet(N), IsFiniteSet(Y), M \subseteq (N \ X) \cup Y
  PROVE  /\ Cardinality(N) \in Nat /\ Cardinality(X) \in Nat /\ Cardinality(Y) \in Nat
         /\ Cardinality(M) \in Nat /\ Cardinality(X) <= Cardinality(N)
         /\ Cardinality(M) <= Cardinality(N) - Cardinality(X) + Cardinality(Y)
<1> DEFINE R == N \ X
<1>1. IsFiniteSet(X) /\ IsFiniteSet(R) /\ X \cup R = N /\ X \cap R = {}
  BY FS_Subset
<1>2. Cardinality(N) = Cardinality(X) + Cardinality(R) - Cardinality(X \cap R)
  BY <1>1, FS_Union, Zenon
<1>3. /\ IsFiniteSet(R \cup Y)
      /\ Cardinality(R \cup Y) = Cardinality(R) + Cardinality(Y) - Cardinality(R \cap Y)
  BY <1>1, FS_Union
<1>4. IsFiniteSet(R \cap Y)
  BY <1>1, FS_Subset
<1>5. IsFiniteSet(M) /\ Cardinality(M) <= Cardinality(R \cup Y)
  BY <1>3, FS_Subset
<1>6. /\ Cardinality(N) \in Nat /\ Cardinality(X) \in Nat /\ Cardinality(Y) \in Nat
      /\ Cardinality(M) \in Nat /\ Cardinality(R) \in Nat /\ Cardinality(R \cap Y) \in Nat
  BY <1>1, <1>4, <1>5, FS_CardinalityType
<1>7. Cardinality(X \cap R) = 0
  BY <1>1, FS_EmptySet
<1> HIDE DEF R
<1> QED
  BY <1>2, <1>3, <1>5, <1>6, <1>7

\* A handle is given another slot.
LEMMA HandleChange ==
  ASSUME NEW h \in [Heap!Places -> 0 .. Slots], NEW p \in Heap!Places, NEW s \in 0 .. Slots,
         NEW r \in Index
  PROVE  LET m == [h EXCEPT ![p] = s]
         IN  /\ m \in [Heap!Places -> 0 .. Slots]
             /\ Cardinality(NamedBy(m, r)) <=
                  Cardinality(NamedBy(h, r)) - One(h[p] = r) + One(s = r)
<1> DEFINE m == [h EXCEPT ![p] = s]
           X == IF h[p] = r THEN {p} ELSE {}
           Y == IF s = r THEN {p} ELSE {}
<1>1. m \in [Heap!Places -> 0 .. Slots]
  OBVIOUS
<1>2. NamedBy(m, r) \subseteq (NamedBy(h, r) \ X) \cup Y /\ X \subseteq NamedBy(h, r)
  BY DEF NamedBy
<1>3. IsFiniteSet(Y) /\ Cardinality(X) = One(h[p] = r) /\ Cardinality(Y) = One(s = r)
  BY FS_EmptySet, FS_Singleton DEF One
<1>4. IsFiniteSet(NamedBy(h, r))
  BY NamesFinite
<1> HIDE DEF m, X, Y
<1>5. Cardinality(NamedBy(m, r)) <= Cardinality(NamedBy(h, r)) - Cardinality(X) + Cardinality(Y)
  BY <1>2, <1>3, <1>4, SetChange
<1> QED
  BY <1>1, <1>3, <1>5 DEF m

\* The elements of one array that are a slot.
At(c, b, r) == {k \in 1 .. Elements : c[b].elements[k] = r}

\* The elements of array b that name r can be counted.
LEMMA AtCounts ==
  ASSUME NEW c, NEW b, NEW r
  PROVE  /\ IsFiniteSet(At(c, b, r)) /\ Cardinality(At(c, b, r)) \in Nat
         /\ IsFiniteSet({b} \X At(c, b, r))
         /\ Cardinality({b} \X At(c, b, r)) = Cardinality(At(c, b, r))
<1>1. IsFiniteSet(At(c, b, r))
  <2>1. IsFiniteSet(1 .. Elements) /\ At(c, b, r) \in SUBSET (1 .. Elements)
    BY HeapConstants, NumbersFinite DEF At
  <2> QED
    BY <2>1, FS_Subset
<1> DEFINE f == [k \in At(c, b, r) |-> <<b, k>>]
<1>2. f \in Bijection(At(c, b, r), {b} \X At(c, b, r))
  <2>1. f \in [At(c, b, r) -> {b} \X At(c, b, r)]
    OBVIOUS
  <2>2. \A x, y \in At(c, b, r) : f[x] = f[y] => x = y
    OBVIOUS
  <2>3. ASSUME NEW y \in {b} \X At(c, b, r) PROVE \E x \in At(c, b, r) : f[x] = y
    <3>1. y[2] \in At(c, b, r) /\ f[y[2]] = y
      BY <2>3
    <3> QED
      BY <3>1
  <2> HIDE DEF f
  <2> QED
    BY <2>1, <2>2, <2>3 DEF Bijection, Injection, Surjection, IsInjective
<1>3. ExistsBijection(At(c, b, r), {b} \X At(c, b, r))
  BY <1>2 DEF ExistsBijection
<1> QED
  BY <1>1, <1>3, FS_Bijection, FS_CardinalityType

\* The arrays that count get fewer, or one more.
LEMMA ElementsGain ==
  ASSUME NEW c, NEW d, NEW A \in SUBSET Index, NEW B \in SUBSET Index, NEW b \in Index,
         B \subseteq A \cup {b}, b \notin A, NEW r,
         \A x \in A \cap B : d[x].elements = c[x].elements
  PROVE  Cardinality(ElementIn(d, B, r)) <=
           Cardinality(ElementIn(c, A, r)) + Cardinality(At(d, b, r))
<1> DEFINE Y == {b} \X At(d, b, r)
<1>1. ElementIn(d, B, r) \subseteq ElementIn(c, A, r) \cup Y
  BY DEF ElementIn, At
<1>2. ElementIn(d, B, r) \subseteq (ElementIn(c, A, r) \ {}) \cup Y
  BY <1>1
<1>3. IsFiniteSet(ElementIn(c, A, r)) /\ IsFiniteSet(Y) /\ {} \subseteq ElementIn(c, A, r)
  BY NamesFinite, AtCounts
<1>4. Cardinality(Y) = Cardinality(At(d, b, r))
  BY AtCounts
<1> HIDE DEF Y
<1>5. Cardinality(ElementIn(d, B, r)) <= Cardinality(ElementIn(c, A, r)) - Cardinality({}) + Cardinality(Y)
  BY <1>2, <1>3, SetChange
<1> QED
  BY <1>3, <1>4, <1>5, FS_EmptySet, FS_CardinalityType

\* An array less: the elements of the others are fewer by those of that array.
LEMMA ElementsLost ==
  ASSUME NEW c, NEW d, NEW A \in SUBSET Index, NEW B \in SUBSET Index, NEW b \in A,
         B \subseteq A \ {b}, NEW r,
         \A x \in B : d[x].elements = c[x].elements
  PROVE  /\ Cardinality(ElementIn(d, B, r)) <=
              Cardinality(ElementIn(c, A, r)) - Cardinality(At(c, b, r))
         /\ Cardinality(At(c, b, r)) <= Cardinality(ElementIn(c, A, r))
<1> DEFINE X == {b} \X At(c, b, r)
<1>1. ElementIn(d, B, r) \subseteq ElementIn(c, A, r) \ X /\ X \subseteq ElementIn(c, A, r)
  BY DEF ElementIn, At
<1>2. ElementIn(d, B, r) \subseteq (ElementIn(c, A, r) \ X) \cup {}
  BY <1>1
<1>3. IsFiniteSet(ElementIn(c, A, r)) /\ IsFiniteSet({}) /\ Cardinality({}) = 0
  BY NamesFinite, FS_EmptySet
<1>4. Cardinality(X) = Cardinality(At(c, b, r))
  BY AtCounts
<1> HIDE DEF X
<1>5. /\ Cardinality(ElementIn(d, B, r)) <= Cardinality(ElementIn(c, A, r)) - Cardinality(X) + Cardinality({})
      /\ Cardinality(X) <= Cardinality(ElementIn(c, A, r))
      /\ Cardinality(X) \in Nat /\ Cardinality(ElementIn(c, A, r)) \in Nat
  BY <1>1, <1>2, <1>3, SetChange
<1> QED
  BY <1>3, <1>4, <1>5

\* Fewer arrays have no more elements that name a slot.
LEMMA ElementsFewer ==
  ASSUME NEW c, NEW d, NEW A \in SUBSET Index, NEW B \in SUBSET A, NEW r,
         \A x \in B : d[x].elements = c[x].elements
  PROVE  Cardinality(ElementIn(d, B, r)) <= Cardinality(ElementIn(c, A, r))
<1>1. ElementIn(d, B, r) \subseteq ElementIn(c, A, r)
  BY DEF ElementIn
<1> QED
  BY <1>1, NamesFinite, FS_Subset

\* The elements are those of another array, but for one.
ElementsBut(c, s, d, r, k) ==
  \A i \in 1 .. Elements : i # k => d[r].elements[i] = c[s].elements[i]

SameElements(c, d, arrays) == \A b \in arrays : d[b].elements = c[b].elements

\* One element of an array names another slot.
LEMMA ElementChanged ==
  ASSUME NEW c, NEW d, NEW A \in SUBSET Index, NEW B \in SUBSET A, NEW b \in A,
         NEW k \in 1 .. Elements, NEW r, NEW e,
         c[b].elements \in [1 .. Elements -> 0 .. Slots],
         d[b].elements[k] = e, ElementsBut(c, b, d, b, k), SameElements(c, d, B \ {b})
  PROVE  /\ Cardinality(ElementIn(d, B, r)) <=
              Cardinality(ElementIn(c, A, r)) - One(c[b].elements[k] = r) + One(e = r)
         /\ One(c[b].elements[k] = r) <= Cardinality(ElementIn(c, A, r))
<1> DEFINE X == IF c[b].elements[k] = r THEN {<<b, k>>} ELSE {}
           Y == IF e = r THEN {<<b, k>>} ELSE {}
<1>1. X \subseteq ElementIn(c, A, r)
  BY DEF ElementIn
<1>2. ASSUME NEW x \in ElementIn(d, B, r) PROVE x \in (ElementIn(c, A, r) \ X) \cup Y
  <2>1. x[1] \in B /\ x[2] \in 1 .. Elements /\ x = <<x[1], x[2]>> /\ d[x[1]].elements[x[2]] = r
    BY <1>2 DEF ElementIn
  <2>2. CASE x[1] # b
    BY <2>1, <2>2 DEF ElementIn, SameElements
  <2>3. CASE x[1] = b /\ x[2] # k
    <3>4. c[x[1]].elements[x[2]] = r
      BY <2>1, <2>3 DEF ElementsBut
    <3>5. x \in A \X (1 .. Elements) /\ x \notin X
      BY <2>1, <2>3
    <3> QED
      BY <3>4, <3>5 DEF ElementIn
  <2>4. CASE x[1] = b /\ x[2] = k
    BY <2>1, <2>4
  <2> QED
    BY <2>2, <2>3, <2>4
<1>3. /\ IsFiniteSet(Y) /\ Cardinality(X) = One(c[b].elements[k] = r)
      /\ Cardinality(Y) = One(e = r)
  BY FS_EmptySet, FS_Singleton DEF One
<1>4. IsFiniteSet(ElementIn(c, A, r))
  BY NamesFinite
<1> HIDE DEF X, Y
<1> QED
  BY <1>1, <1>2, <1>3, <1>4, SetChange

-----------------------------------------------------------------------------
(* What is named is in use.                                                *)

\* A slot that a handle names is in use, and more than once if two handles name it.
LEMMA NamedOnce ==
  ASSUME NEW n, NEW c, NEW h, NEW a, NEW g, Counted(n, c, h, a, g),
         NEW p \in Heap!Places, h[p] \in Index
  PROVE  /\ n[h[p]] \in Nat /\ n[h[p]] > 0
         /\ \A q \in Heap!Places : q # p /\ h[q] = h[p] => n[h[p]] > 1
<1> DEFINE s == h[p]
           A == Arrays(n, c, h, a, g)
<1>1. /\ IsFiniteSet(NamedBy(h, s)) /\ Cardinality(NamedBy(h, s)) \in Nat
      /\ Cardinality(ElementIn(c, A, s)) \in Nat
  <2>1. A \in SUBSET Index
    BY DEF Arrays
  <2> QED
    BY <2>1, NamesFinite
<1>2. n[s] \in Nat /\ Cardinality(NamedBy(h, s)) + Cardinality(ElementIn(c, A, s)) <= n[s]
  BY DEF Counted
<1>3. IsFiniteSet({p}) /\ Cardinality({p}) = 1 /\ {p} \subseteq NamedBy(h, s)
  BY FS_Singleton DEF NamedBy
<1>4. Cardinality({p}) <= Cardinality(NamedBy(h, s))
  BY <1>1, <1>3, FS_Subset
<1>5. ASSUME NEW q \in Heap!Places, q # p, h[q] = s PROVE n[s] > 1
  <2>1. q \in NamedBy(h, s)
    BY <1>5 DEF NamedBy
  <2> HIDE DEF s, A
  <2>2. {p} \cup {q} \subseteq NamedBy(h, s)
    BY <1>3, <2>1
  <2>3. q \notin {p} /\ Cardinality({p} \cup {q}) = Cardinality({p}) + 1
    BY <1>3, <1>5, FS_AddElement
  <2>4. Cardinality({p} \cup {q}) <= Cardinality(NamedBy(h, s))
    BY <1>1, <2>2, FS_Subset
  <2> QED
    BY <1>1, <1>2, <1>3, <2>3, <2>4 DEF s
<1>6. n[s] > 0
  <2> HIDE DEF s, A
  <2> QED
    BY <1>1, <1>2, <1>3, <1>4 DEF s
<1> QED
  BY <1>2, <1>5, <1>6

\* So is a slot that an element of an array names.
LEMMA ElementNamed ==
  ASSUME NEW n, NEW c, NEW h, NEW a, NEW g, Counted(n, c, h, a, g),
         NEW b \in Arrays(n, c, h, a, g), NEW k \in 1 .. Elements, c[b].elements[k] \in Index
  PROVE  n[c[b].elements[k]] \in Nat /\ n[c[b].elements[k]] > 0
<1> DEFINE s == c[b].elements[k]
           A == Arrays(n, c, h, a, g)
<1>1. /\ Cardinality(NamedBy(h, s)) \in Nat
      /\ IsFiniteSet(ElementIn(c, A, s)) /\ Cardinality(ElementIn(c, A, s)) \in Nat
  <2>1. A \in SUBSET Index
    BY DEF Arrays
  <2> QED
    BY <2>1, NamesFinite
<1>2. n[s] \in Nat /\ Cardinality(NamedBy(h, s)) + Cardinality(ElementIn(c, A, s)) <= n[s]
  BY DEF Counted
<1>3. <<b, k>> \in ElementIn(c, A, s)
  BY DEF ElementIn
<1>4. Cardinality(ElementIn(c, A, s)) # 0
  BY <1>1, <1>3, FS_EmptySet
<1> HIDE DEF s, A
<1> QED
  BY <1>1, <1>2, <1>4 DEF s

\* A handle that is not being deleted names a slot in use; an array of it counts.
LEMMA LiveIsAlive ==
  ASSUME NEW n, NEW c, NEW h, NEW a, NEW g,
         HandlesTyped(h, a, g), Counted(n, c, h, a, g), NEW p \in LiveIn(h, a, g)
  PROVE  /\ p \in Heap!Places /\ h[p] \in Index /\ n[h[p]] > 0
         /\ IsArrayIn(c, h[p]) => h[p] \in Arrays(n, c, h, a, g)
<1>1. p \in Heap!Places /\ h[p] \in Index
  BY HeapConstants DEF LiveIn, HandlesTyped, Index
<1>2. n[h[p]] \in Nat /\ n[h[p]] > 0
  BY <1>1, NamedOnce
<1>3. ASSUME n[h[p]] = 1, h[p] \in Dying(h, a, g) PROVE FALSE
  <2>1. PICK t \in Tasks : a[t] = "slot" /\ h[p] = h[<<t, g[t]>>]
    BY <1>3 DEF Dying
  <2>2. <<t, g[t]>> \in Heap!Places
    BY <2>1 DEF HandlesTyped
  <2>3. <<t, g[t]>> # p
    BY <2>1 DEF LiveIn
  <2> QED
    BY <1>1, <1>3, <2>1, <2>2, <2>3, NamedOnce
<1> QED
  BY <1>1, <1>2, <1>3 DEF Arrays

\* No string in use changes.
SameStrings(n, c, n2, c2) ==
  \A s \in Index : n[s] > 0 /\ n2[s] > 0 /\ ~IsArrayIn(c, s) => c2[s] = c[s]

\* What a handle has stays what it was then.
LEMMA ValueStays ==
  ASSUME NEW n, NEW c, NEW h, NEW a, NEW g, NEW n2, NEW c2, NEW h2, NEW a2, NEW g2,
         HandlesTyped(h, a, g), Counted(n, c, h, a, g), Elementary(n, c, h, a, g),
         HandlesTyped(h2, a2, g2), Counted(n2, c2, h2, a2, g2),
         NEW p \in LiveIn(h, a, g) \cap LiveIn(h2, a2, g2), h2[p] = h[p],
         NEW val, HasValue(c, h[p], val), c2[h[p]] = c[h[p]], SameStrings(n, c, n2, c2)
  PROVE  HasValue(c2, h2[p], val)
<1>1. h[p] \in Index /\ n[h[p]] > 0 /\ n2[h[p]] > 0
  BY LiveIsAlive
<1>2. c2[h[p]] = c[h[p]]
  OBVIOUS
<1>3. CASE ~val.isArray
  BY <1>2, <1>3 DEF HasValue, IsArrayIn
<1>4. CASE val.isArray
  <2>1. IsArrayIn(c, h[p]) /\ IsArrayIn(c2, h2[p])
    BY <1>2, <1>4 DEF HasValue, IsArrayIn
  <2>2. h[p] \in Arrays(n, c, h, a, g) /\ h[p] \in Arrays(n2, c2, h2, a2, g2)
    BY <2>1, LiveIsAlive
  <2>3. ASSUME NEW k \in 1 .. Elements
        PROVE  TextOf(c2, c2[h2[p]].elements[k]) = TextOf(c, c[h[p]].elements[k])
    <3> DEFINE e == c[h[p]].elements[k]
    <3>1. c2[h2[p]].elements[k] = e
      BY <1>2
    <3>2. CASE e = 0
      BY <3>1, <3>2 DEF TextOf
    <3>3. CASE e # 0
      <4>1. e \in Index /\ ~IsArrayIn(c, e)
        BY <2>2, <3>3, HeapConstants DEF Elementary, Index
      <4>2. n[e] > 0
        BY <2>2, <4>1, ElementNamed
      <4>3. n2[e] > 0
        BY <2>2, <3>1, <4>1, ElementNamed
      <4>4. c2[e] = c[e]
        BY <4>1, <4>2, <4>3 DEF SameStrings
      <4>5. TextOf(c2, e) = TextOf(c, e)
        BY <4>4 DEF TextOf
      <4> QED
        BY <3>1, <4>5
    <3> QED
      BY <3>2, <3>3
  <2> QED
    BY <1>2, <1>4, <2>3 DEF HasValue, IsArrayIn
<1> QED
  BY <1>3, <1>4

\* Nor does an array that goes on counting.
LEMMA ElementsStay ==
  ASSUME NEW n, NEW c, NEW h, NEW a, NEW g, NEW n2, NEW c2, NEW h2, NEW a2, NEW g2,
         Counted(n, c, h, a, g), Elementary(n, c, h, a, g), Counted(n2, c2, h2, a2, g2),
         NEW b \in Arrays(n, c, h, a, g) \cap Arrays(n2, c2, h2, a2, g2),
         c2[b].elements = c[b].elements, SameStrings(n, c, n2, c2)
  PROVE  /\ c2[b].elements \in [1 .. Elements -> 0 .. Slots]
         /\ \A k \in 1 .. Elements :
              c2[b].elements[k] # 0 => ~IsArrayIn(c2, c2[b].elements[k])
<1>1. c2[b].elements \in [1 .. Elements -> 0 .. Slots]
  BY DEF Elementary
<1>2. ASSUME NEW k \in 1 .. Elements, c2[b].elements[k] # 0
      PROVE  ~IsArrayIn(c2, c2[b].elements[k])
  <2> DEFINE e == c[b].elements[k]
  <2>1. e \in Index /\ ~IsArrayIn(c, e) /\ c2[b].elements[k] = e
    BY <1>2, HeapConstants DEF Elementary, Index
  <2>2. n[e] > 0 /\ n2[e] > 0
    BY <2>1, ElementNamed
  <2>3. c2[e] = c[e]
    BY <2>1, <2>2 DEF SameStrings
  <2> HIDE DEF e
  <2> QED
    BY <2>1, <2>3 DEF IsArrayIn
<1> QED
  BY <1>1, <1>2

-----------------------------------------------------------------------------
(* What the actions do to counts, contents and handles.                    *)

LEMMA KeptHas ==
  ASSUME NEW n, NEW c, NEW h, NEW a, NEW g, NEW v, Kept(n, c, h, a, g, v)
  PROVE  /\ n \in [Index -> Nat] /\ h \in [Heap!Places -> 0 .. Slots]
         /\ a \in [Tasks -> {"idle", "elements", "slot"}] /\ g \in [Tasks -> Nat]
         /\ \A t \in Tasks : a[t] # "idle" =>
              <<t, g[t]>> \in Heap!Places /\ h[<<t, g[t]>>] \in Index
         /\ Arrays(n, c, h, a, g) \in SUBSET Index
         /\ v \in [Heap!Places -> [isArray : BOOLEAN, texts : Seq(HeapTexts)]]
BY HeapConstants DEF Kept, HandlesTyped, Counted, Valued, Arrays, Index

LEMMA CardsAre ==
  ASSUME NEW n, NEW c, NEW h, NEW a, NEW g, Counted(n, c, h, a, g), NEW r \in Index
  PROVE  /\ n[r] \in Nat /\ Cardinality(NamedBy(h, r)) \in Nat
         /\ Cardinality(ElementIn(c, Arrays(n, c, h, a, g), r)) \in Nat
         /\ Cardinality(NamedBy(h, r)) + Cardinality(ElementIn(c, Arrays(n, c, h, a, g), r)) <= n[r]
<1>1. Arrays(n, c, h, a, g) \in SUBSET Index
  BY DEF Arrays
<1> QED
  BY <1>1, NamesFinite DEF Counted

\* Under the write lock no handle is being deleted.
LEMMA IdleIsNotDying ==
  ASSUME NEW h, NEW a, NEW g, \A t \in Tasks : a[t] = "idle"
  PROVE  Dying(h, a, g) = {}
BY DEF Dying

\* A slot that was free is given to an empty handle.
LEMMA FreshSlotKeeps ==
  ASSUME NEW n, NEW c, NEW h, NEW a, NEW g, NEW v, Kept(n, c, h, a, g, v),
         \A t \in Tasks : a[t] = "idle",
         NEW p \in Heap!Places, h[p] = 0, NEW s \in Index, n[s] = 0,
         NEW d, d[s] \in Entries, \A r \in Index : n[r] > 0 => d[r] = c[r],
         IsArrayIn(d, s) => d[s].elements = [k \in 1 .. Elements |-> 0],
         NEW val \in [isArray : BOOLEAN, texts : Seq(HeapTexts)], HasValue(d, s, val)
  PROVE  Kept([n EXCEPT ![s] = 1], d, [h EXCEPT ![p] = s], a, g, [v EXCEPT ![p] = val])
<1> DEFINE m == [n EXCEPT ![s] = 1]
           j == [h EXCEPT ![p] = s]
           w == [v EXCEPT ![p] = val]
           A == Arrays(n, c, h, a, g)
           B == Arrays(m, d, j, a, g)
<1>1. /\ HandlesTyped(h, a, g) /\ Counted(n, c, h, a, g) /\ Elementary(n, c, h, a, g)
      /\ Valued(c, h, a, g, v)
  BY DEF Kept
<1>2. /\ n \in [Index -> Nat] /\ h \in [Heap!Places -> 0 .. Slots] /\ s \in 0 .. Slots
      /\ A \in SUBSET Index /\ B \in SUBSET Index
  BY KeptHas DEF Arrays, Index
<1>3. m \in [Index -> Nat] /\ m[s] = 1 /\ \A r \in Index : r # s => m[r] = n[r]
  BY <1>2
<1>4. j \in [Heap!Places -> 0 .. Slots] /\ j[p] = s /\ \A q \in Heap!Places : q # p => j[q] = h[q]
  BY <1>2
<1>5. HandlesTyped(j, a, g)
  BY <1>1, <1>4 DEF HandlesTyped
<1>6. Dying(h, a, g) = {} /\ Dying(j, a, g) = {}
  BY IdleIsNotDying
<1>7. s \notin A /\ A \subseteq B /\ B \subseteq A \cup {s} /\ (s \in B => IsArrayIn(d, s))
  <2> HIDE DEF m, j
  <2> QED
    BY <1>3, <1>6 DEF Arrays, IsArrayIn
<1>8. \A x \in A \cap B : d[x].elements = c[x].elements
  BY DEF Arrays
<1>9. Counted(m, d, j, a, g)
  <2>1. ASSUME NEW r \in Index
        PROVE  Cardinality(NamedBy(j, r)) + Cardinality(ElementIn(d, B, r)) <= m[r]
    <3>1. Cardinality(NamedBy(j, r)) <= Cardinality(NamedBy(h, r)) - One(h[p] = r) + One(s = r)
      BY <1>2, HandleChange
    <3>2. Cardinality(ElementIn(d, B, r)) <= Cardinality(ElementIn(c, A, r))
      <4>1. CASE s \in B
        <5>1. Cardinality(ElementIn(d, B, r)) <=
                Cardinality(ElementIn(c, A, r)) + Cardinality(At(d, s, r))
          BY <1>2, <1>7, <1>8, ElementsGain
        <5>2. At(d, s, r) = {}
          BY <1>7, <4>1, HeapConstants DEF At
        <5>3. Cardinality(At(d, s, r)) = 0
          BY <5>2, FS_EmptySet
        <5> QED
          BY <1>1, <5>1, <5>3, CardsAre
      <4>2. CASE s \notin B
        <5>1. B \in SUBSET A /\ \A x \in B : d[x].elements = c[x].elements
          BY <1>7, <1>8, <4>2
        <5> QED
          BY <1>2, <5>1, ElementsFewer
      <4> QED
        BY <4>1, <4>2
    <3>3. /\ n[r] \in Nat /\ Cardinality(NamedBy(h, r)) \in Nat
          /\ Cardinality(ElementIn(c, A, r)) \in Nat
          /\ Cardinality(NamedBy(h, r)) + Cardinality(ElementIn(c, A, r)) <= n[r]
      BY <1>1, CardsAre
    <3>4. Cardinality(NamedBy(j, r)) \in Nat /\ Cardinality(ElementIn(d, B, r)) \in Nat
      BY <1>2, NamesFinite
    <3>5. One(h[p] = r) = 0 /\ m[r] = n[r] + One(s = r)
      <4> HIDE DEF m
      <4> QED
        BY <1>3, <3>3, HeapConstants DEF One
    <3>6. One(s = r) \in Nat
      BY DEF One
    <3> HIDE DEF m, j, A, B
    <3> QED
      BY <3>1, <3>2, <3>3, <3>4, <3>5, <3>6
  <2> HIDE DEF m, j
  <2> QED
    BY <1>3, <2>1 DEF Counted
<1>10. SameStrings(n, c, m, d)
  BY DEF SameStrings
<1>11. Elementary(m, d, j, a, g)
  <2>1. ASSUME NEW b \in Index, m[b] > 0 PROVE d[b] \in Entries
    BY <1>1, <1>3, <2>1 DEF Elementary
  <2>2. ASSUME NEW b \in B
        PROVE  /\ d[b].elements \in [1 .. Elements -> 0 .. Slots]
               /\ \A k \in 1 .. Elements : d[b].elements[k] # 0 => ~IsArrayIn(d, d[b].elements[k])
    <3>1. CASE b = s
      <4>1. d[s].elements = [k \in 1 .. Elements |-> 0] /\ 0 \in 0 .. Slots
        BY <1>7, <2>2, <3>1, HeapConstants
      <4> QED
        BY <3>1, <4>1
    <3>2. CASE b # s
      <4>1. b \in A \cap B /\ d[b].elements = c[b].elements
        BY <1>7, <1>8, <3>2
      <4> QED
        BY <1>1, <1>9, <1>10, <4>1, ElementsStay
    <3> QED
      BY <3>1, <3>2
  <2> QED
    BY <2>1, <2>2 DEF Elementary
<1>12. w \in [Heap!Places -> [isArray : BOOLEAN, texts : Seq(HeapTexts)]] /\ w[p] = val
       /\ \A q \in Heap!Places : q # p => w[q] = v[q]
  BY KeptHas
<1>13. ASSUME NEW q \in LiveIn(j, a, g) PROVE HasValue(d, j[q], w[q])
  <2>1. CASE q = p
    BY <1>4, <1>12, <2>1
  <2>2. CASE q # p
    <3>1. q \in Heap!Places /\ j[q] = h[q] /\ w[q] = v[q] /\ q \in LiveIn(h, a, g)
      BY <1>4, <1>12, <1>13, <2>2 DEF LiveIn
    <3>2. HasValue(c, h[q], v[q])
      BY <1>1, <3>1 DEF Valued
    <3> HIDE DEF m, j, w
    <3>3. h[q] \in Index /\ n[h[q]] > 0
      BY <1>1, <3>1, LiveIsAlive
    <3>4. d[h[q]] = c[h[q]]
      BY <3>3
    <3>5. HasValue(d, j[q], v[q])
      BY <1>1, <1>5, <1>9, <1>10, <1>13, <3>1, <3>2, <3>4, ValueStays
    <3> QED
      BY <3>1, <3>5
  <2> QED
    BY <2>1, <2>2
<1>14. Valued(d, j, a, g, w)
  BY <1>12, <1>13 DEF Valued
<1> QED
  BY <1>5, <1>9, <1>11, <1>14 DEF Kept

\* A handle is copied.
LEMMA CopyKeepsHandles ==
  ASSUME NEW n, NEW c, NEW h, NEW a, NEW g, NEW v, Kept(n, c, h, a, g, v),
         NEW p \in Heap!Places, h[p] = 0, NEW q \in LiveIn(h, a, g)
  PROVE  Kept([n EXCEPT ![h[q]] = @ + 1], c, [h EXCEPT ![p] = h[q]], a, g, [v EXCEPT ![p] = v[q]])
<1> DEFINE s == h[q]
           m == [n EXCEPT ![s] = @ + 1]
           j == [h EXCEPT ![p] = s]
           w == [v EXCEPT ![p] = v[q]]
           A == Arrays(n, c, h, a, g)
           B == Arrays(m, c, j, a, g)
<1>1. /\ HandlesTyped(h, a, g) /\ Counted(n, c, h, a, g) /\ Elementary(n, c, h, a, g)
      /\ Valued(c, h, a, g, v)
  BY DEF Kept
<1>2. /\ n \in [Index -> Nat] /\ h \in [Heap!Places -> 0 .. Slots]
      /\ A \in SUBSET Index /\ B \in SUBSET Index
  BY KeptHas DEF Arrays
<1>3. /\ q \in Heap!Places /\ s \in Index /\ s \in 0 .. Slots /\ n[s] > 0
      /\ IsArrayIn(c, s) => s \in A
  BY <1>1, LiveIsAlive DEF Index
<1>4. m \in [Index -> Nat] /\ m[s] = n[s] + 1 /\ \A r \in Index : r # s => m[r] = n[r]
  BY <1>2, <1>3
<1>5. j \in [Heap!Places -> 0 .. Slots] /\ j[p] = s /\ \A x \in Heap!Places : x # p => j[x] = h[x]
  BY <1>2, <1>3
<1>6. \A t \in Tasks : a[t] # "idle" =>
        <<t, g[t]>> \in Heap!Places /\ <<t, g[t]>> # p /\ j[<<t, g[t]>>] = h[<<t, g[t]>>]
  BY <1>1, <1>5 DEF HandlesTyped
<1>7. HandlesTyped(j, a, g) /\ Dying(j, a, g) = Dying(h, a, g)
  <2> HIDE DEF j
  <2>1. HandlesTyped(j, a, g)
    BY <1>1, <1>5, <1>6 DEF HandlesTyped
  <2>2. Dying(j, a, g) = Dying(h, a, g)
    BY <1>6 DEF Dying
  <2> QED
    BY <2>1, <2>2
<1>8. B \subseteq A
  <2> HIDE DEF m, j
  <2>1. ASSUME NEW x \in B PROVE x \in A
    <3>1. x \in Index /\ m[x] > 0 /\ IsArrayIn(c, x) /\ ~(m[x] = 1 /\ x \in Dying(h, a, g))
      BY <1>7, <2>1 DEF Arrays
    <3>2. CASE x = s
      BY <1>3, <3>1, <3>2
    <3>3. CASE x # s
      BY <1>4, <3>1, <3>3 DEF Arrays
    <3> QED
      BY <3>2, <3>3
  <2> HIDE DEF A, B
  <2> QED
    BY <2>1
<1>9. Counted(m, c, j, a, g)
  <2>1. ASSUME NEW r \in Index
        PROVE  Cardinality(NamedBy(j, r)) + Cardinality(ElementIn(c, B, r)) <= m[r]
    <3>1. Cardinality(NamedBy(j, r)) <= Cardinality(NamedBy(h, r)) - One(h[p] = r) + One(s = r)
      BY <1>2, <1>3, HandleChange
    <3>2. Cardinality(ElementIn(c, B, r)) <= Cardinality(ElementIn(c, A, r))
      BY <1>2, <1>8, ElementsFewer
    <3>3. /\ n[r] \in Nat /\ Cardinality(NamedBy(h, r)) \in Nat
          /\ Cardinality(ElementIn(c, A, r)) \in Nat
          /\ Cardinality(NamedBy(h, r)) + Cardinality(ElementIn(c, A, r)) <= n[r]
      BY <1>1, CardsAre
    <3>4. Cardinality(NamedBy(j, r)) \in Nat /\ Cardinality(ElementIn(c, B, r)) \in Nat
      BY <1>2, NamesFinite
    <3>5. One(h[p] = r) = 0 /\ m[r] = n[r] + One(s = r)
      <4> HIDE DEF m, s
      <4> QED
        BY <1>4, <3>3, HeapConstants DEF One
    <3>6. One(s = r) \in Nat
      BY DEF One
    <3> HIDE DEF m, j, A, B, s
    <3> QED
      BY <3>1, <3>2, <3>3, <3>4, <3>5, <3>6
  <2> HIDE DEF m, j
  <2> QED
    BY <1>4, <2>1 DEF Counted
<1>10. Elementary(m, c, j, a, g)
  <2>1. ASSUME NEW b \in Index, m[b] > 0 PROVE c[b] \in Entries
    <3> HIDE DEF m, s
    <3> QED
      BY <1>1, <1>3, <1>4, <2>1 DEF Elementary
  <2>2. ASSUME NEW b \in B
        PROVE  /\ c[b].elements \in [1 .. Elements -> 0 .. Slots]
               /\ \A k \in 1 .. Elements : c[b].elements[k] # 0 => ~IsArrayIn(c, c[b].elements[k])
    BY <1>1, <1>8, <2>2 DEF Elementary
  <2>3. ASSUME NEW t \in Tasks, a[t] = "elements"
        PROVE  m[j[<<t, g[t]>>]] = 1 /\ IsArrayIn(c, j[<<t, g[t]>>])
    <3> DEFINE x == <<t, g[t]>>
    <3>1. x \in Heap!Places /\ j[x] = h[x] /\ n[h[x]] = 1 /\ IsArrayIn(c, h[x]) /\ h[x] \in Index
      BY <1>1, <1>6, <2>3, KeptHas DEF Elementary
    <3>2. x # q
      BY <2>3 DEF LiveIn
    <3>3. h[x] # s
      BY <1>1, <1>3, <3>1, <3>2, NamedOnce
    <3> HIDE DEF x, m, j, s
    <3> QED
      BY <1>4, <3>1, <3>3 DEF x
  <2> QED
    BY <2>1, <2>2, <2>3 DEF Elementary
<1>11. w \in [Heap!Places -> [isArray : BOOLEAN, texts : Seq(HeapTexts)]] /\ w[p] = v[q]
       /\ \A x \in Heap!Places : x # p => w[x] = v[x]
  BY <1>3, KeptHas
<1>12. ASSUME NEW x \in LiveIn(j, a, g) PROVE HasValue(c, j[x], w[x])
  <2>1. CASE x = p
    BY <1>1, <1>5, <1>11, <2>1 DEF Valued
  <2>2. CASE x # p
    <3>1. x \in Heap!Places /\ j[x] = h[x] /\ w[x] = v[x] /\ x \in LiveIn(h, a, g)
      BY <1>5, <1>11, <1>12, <2>2 DEF LiveIn
    <3> QED
      BY <1>1, <3>1 DEF Valued
  <2> QED
    BY <2>1, <2>2
<1>13. Valued(c, j, a, g, w)
  BY <1>11, <1>12 DEF Valued
<1> QED
  BY <1>7, <1>9, <1>10, <1>13 DEF Kept

\* Deleting a handle begins.
LEMMA DeleteKeepsHandles ==
  ASSUME NEW n, NEW c, NEW h, NEW a, NEW g, NEW v, Kept(n, c, h, a, g, v),
         NEW t \in Tasks, a[t] = "idle", NEW i \in 1 .. Handles[t], h[<<t, i>>] # 0,
         NEW to, to = IF IsArrayIn(c, h[<<t, i>>]) /\ n[h[<<t, i>>]] = 1 THEN "elements" ELSE "slot"
  PROVE  Kept(n, c, h, [a EXCEPT ![t] = to], [g EXCEPT ![t] = i], v)
<1> DEFINE s == h[<<t, i>>]
           e == [a EXCEPT ![t] = to]
           f == [g EXCEPT ![t] = i]
           A == Arrays(n, c, h, a, g)
           B == Arrays(n, c, h, e, f)
<1>1. /\ HandlesTyped(h, a, g) /\ Counted(n, c, h, a, g) /\ Elementary(n, c, h, a, g)
      /\ Valued(c, h, a, g, v)
  BY DEF Kept
<1>2. /\ a \in [Tasks -> {"idle", "elements", "slot"}] /\ g \in [Tasks -> Nat] /\ i \in Nat
      /\ <<t, i>> \in Heap!Places /\ to \in {"elements", "slot"}
  <2>1. <<t, i>> \in Heap!Places /\ i \in Nat
    BY HeapConstants DEF Heap!Places
  <2> QED
    BY <2>1, KeptHas
<1>3. /\ e[t] = to /\ f[t] = i /\ e \in [Tasks -> {"idle", "elements", "slot"}] /\ f \in [Tasks -> Nat]
      /\ \A u \in Tasks : u # t => e[u] = a[u] /\ f[u] = g[u]
  BY <1>2
<1>4. HandlesTyped(h, e, f)
  <2> HIDE DEF e, f
  <2> QED
    BY <1>1, <1>2, <1>3 DEF HandlesTyped
<1>5. s \in Index
  BY <1>1, <1>2, HeapConstants DEF HandlesTyped, Index
<1>6. B \subseteq A
  <2>1. ASSUME NEW x \in Dying(h, a, g) PROVE x \in Dying(h, e, f)
    <3>1. PICK u \in Tasks : a[u] = "slot" /\ x = h[<<u, g[u]>>]
      BY <2>1 DEF Dying
    <3>2. u # t
      BY <3>1
    <3> HIDE DEF e, f
    <3>3. e[u] = "slot" /\ x = h[<<u, f[u]>>]
      BY <1>3, <3>1, <3>2
    <3> QED
      BY <3>3 DEF Dying
  <2> QED
    BY <2>1 DEF Arrays
<1>7. Counted(n, c, h, e, f)
  <2>1. ASSUME NEW r \in Index
        PROVE  Cardinality(NamedBy(h, r)) + Cardinality(ElementIn(c, B, r)) <= n[r]
    <3>1. A \in SUBSET Index /\ B \in SUBSET Index
      BY DEF Arrays
    <3>2. Cardinality(ElementIn(c, B, r)) <= Cardinality(ElementIn(c, A, r))
      BY <1>6, <3>1, ElementsFewer
    <3>3. /\ n[r] \in Nat /\ Cardinality(NamedBy(h, r)) \in Nat
          /\ Cardinality(ElementIn(c, A, r)) \in Nat
          /\ Cardinality(NamedBy(h, r)) + Cardinality(ElementIn(c, A, r)) <= n[r]
      BY <1>1, CardsAre
    <3>4. Cardinality(ElementIn(c, B, r)) \in Nat
      BY <3>1, NamesFinite
    <3> HIDE DEF A, B
    <3> QED
      BY <3>2, <3>3, <3>4
  <2> HIDE DEF e, f
  <2> QED
    BY <1>1, <2>1 DEF Counted
<1>8. Elementary(n, c, h, e, f)
  <2>1. ASSUME NEW b \in B
        PROVE  /\ c[b].elements \in [1 .. Elements -> 0 .. Slots]
               /\ \A k \in 1 .. Elements : c[b].elements[k] # 0 => ~IsArrayIn(c, c[b].elements[k])
    BY <1>1, <1>6, <2>1 DEF Elementary
  <2>2. ASSUME NEW u \in Tasks, e[u] = "elements"
        PROVE  n[h[<<u, f[u]>>]] = 1 /\ IsArrayIn(c, h[<<u, f[u]>>])
    <3>1. CASE u = t
      BY <1>3, <2>2, <3>1
    <3>2. CASE u # t
      <4>1. a[u] = "elements" /\ f[u] = g[u]
        BY <1>3, <2>2, <3>2
      <4> QED
        BY <1>1, <4>1 DEF Elementary
    <3> QED
      BY <3>1, <3>2
  <2> HIDE DEF e, f
  <2> QED
    BY <1>1, <2>1, <2>2 DEF Elementary
<1>9. LiveIn(h, e, f) \subseteq LiveIn(h, a, g)
  <2>1. ASSUME NEW p \in LiveIn(h, e, f) PROVE p \in LiveIn(h, a, g)
    <3>1. p \in Heap!Places /\ h[p] # 0 /\ ~(e[p[1]] # "idle" /\ f[p[1]] = p[2]) /\ p[1] \in Tasks
      BY <2>1, PlaceIs DEF LiveIn
    <3> HIDE DEF e, f
    <3>2. ~(a[p[1]] # "idle" /\ g[p[1]] = p[2])
      BY <1>3, <3>1
    <3> QED
      BY <3>1, <3>2 DEF LiveIn
  <2> QED
    BY <2>1
<1>10. Valued(c, h, e, f, v)
  BY <1>1, <1>9 DEF Valued
<1> QED
  BY <1>4, <1>7, <1>8, <1>10 DEF Kept

\* Arrays are not elements of arrays, nor is a string of which one task deletes the
\* elements.
LEMMA NotElements ==
  ASSUME NEW n, NEW c, NEW h, NEW a, NEW g, Elementary(n, c, h, a, g),
         NEW b \in Arrays(n, c, h, a, g), NEW r \in Index, IsArrayIn(c, r)
  PROVE  Cardinality(At(c, b, r)) = 0
<1>1. ASSUME NEW k \in At(c, b, r) PROVE FALSE
  BY <1>1, HeapConstants DEF At, Elementary
<1>2. At(c, b, r) = {}
  BY <1>1
<1> QED
  BY <1>2, FS_EmptySet

\* The elements of an array of which nothing else is left are deleted.
LEMMA DeleteElementsKeepsHandles ==
  ASSUME NEW n, NEW c, NEW h, NEW a, NEW g, NEW v, Kept(n, c, h, a, g, v),
         NEW t \in Tasks, a[t] = "elements", NEW m, NEW d,
         m = [r \in Index |-> n[r] - Cardinality(At(c, h[<<t, g[t]>>], r))],
         \A r \in Index : m[r] > 0 => d[r] = c[r]
  PROVE  Kept(m, d, h, [a EXCEPT ![t] = "slot"], g, v)
<1> DEFINE b == h[<<t, g[t]>>]
           L(r) == Cardinality(At(c, b, r))
           e == [a EXCEPT ![t] = "slot"]
           A == Arrays(n, c, h, a, g)
           B == Arrays(m, d, h, e, g)
<1>1. /\ HandlesTyped(h, a, g) /\ Counted(n, c, h, a, g) /\ Elementary(n, c, h, a, g)
      /\ Valued(c, h, a, g, v)
  BY DEF Kept
<1>2. /\ b \in Index /\ <<t, g[t]>> \in Heap!Places
      /\ a \in [Tasks -> {"idle", "elements", "slot"}]
      /\ A \in SUBSET Index /\ B \in SUBSET Index
  BY KeptHas DEF Arrays
<1>3. /\ e[t] = "slot" /\ e \in [Tasks -> {"idle", "elements", "slot"}]
      /\ \A u \in Tasks : u # t => e[u] = a[u]
  BY <1>2
<1>4. n[b] = 1 /\ IsArrayIn(c, b) /\ b \in A
  <2>1. n[b] = 1 /\ IsArrayIn(c, b)
    BY <1>1 DEF Elementary
  <2>2. ASSUME b \in Dying(h, a, g) PROVE FALSE
    <3>1. PICK u \in Tasks : a[u] = "slot" /\ b = h[<<u, g[u]>>]
      BY <2>2 DEF Dying
    <3>2. <<u, g[u]>> \in Heap!Places /\ <<u, g[u]>> # <<t, g[t]>>
      BY <3>1, KeptHas
    <3> QED
      BY <1>1, <1>2, <2>1, <3>1, <3>2, NamedOnce
  <2> QED
    BY <1>2, <2>1, <2>2 DEF Arrays
<1>5. ASSUME NEW r \in Index
      PROVE  /\ n[r] \in Nat /\ L(r) \in Nat /\ L(r) <= n[r] /\ m[r] = n[r] - L(r) /\ m[r] \in Nat
             /\ Cardinality(NamedBy(h, r)) \in Nat
             /\ Cardinality(ElementIn(c, A, r)) \in Nat
             /\ Cardinality(NamedBy(h, r)) + Cardinality(ElementIn(c, A, r)) <= n[r]
             /\ L(r) <= Cardinality(ElementIn(c, A, r))
  <2>1. L(r) \in Nat
    BY AtCounts
  <2>2. L(r) <= Cardinality(ElementIn(c, A, r))
    <3>1. A \ {b} \in SUBSET Index /\ \A x \in A \ {b} : c[x].elements = c[x].elements
      BY <1>2
    <3> QED
      BY <1>2, <1>4, <3>1, ElementsLost
  <2>3. /\ n[r] \in Nat /\ Cardinality(NamedBy(h, r)) \in Nat
        /\ Cardinality(ElementIn(c, A, r)) \in Nat
        /\ Cardinality(NamedBy(h, r)) + Cardinality(ElementIn(c, A, r)) <= n[r]
    BY <1>1, <1>5, CardsAre
  <2>4. m[r] = n[r] - L(r)
    BY <1>5
  <2> HIDE DEF L, A
  <2> QED
    BY <2>1, <2>2, <2>3, <2>4
<1>6. ASSUME NEW r \in Index, IsArrayIn(c, r) PROVE m[r] = n[r]
  <2>1. L(r) = 0
    BY <1>1, <1>4, <1>6, NotElements
  <2> HIDE DEF L
  <2> QED
    BY <1>5, <2>1
<1>7. HandlesTyped(h, e, g)
  <2> HIDE DEF e
  <2> QED
    BY <1>1, <1>2, <1>3, HeapConstants DEF HandlesTyped
<1>8. ASSUME NEW r \in Index, m[r] > 0 PROVE d[r] = c[r] /\ n[r] > 0
  BY <1>5, <1>8
<1>9. B \subseteq A \ {b}
  <2>1. ASSUME NEW x \in B PROVE x \in A \ {b}
    <3>1. x \in Index /\ m[x] > 0 /\ IsArrayIn(d, x) /\ ~(m[x] = 1 /\ x \in Dying(h, e, g))
      BY <2>1 DEF Arrays
    <3>2. IsArrayIn(c, x) /\ n[x] > 0 /\ m[x] = n[x]
      BY <1>6, <1>8, <3>1 DEF IsArrayIn
    <3>3. b \in Dying(h, e, g)
      BY <1>3 DEF Dying
    <3>4. x # b
      BY <1>4, <3>1, <3>2, <3>3
    <3>5. ASSUME x \in Dying(h, a, g) PROVE x \in Dying(h, e, g)
      <4>1. PICK u \in Tasks : a[u] = "slot" /\ x = h[<<u, g[u]>>]
        BY <3>5 DEF Dying
      <4>2. e[u] = "slot"
        BY <1>3, <4>1
      <4> HIDE DEF e
      <4> QED
        BY <4>1, <4>2 DEF Dying
    <3> QED
      BY <3>1, <3>2, <3>4, <3>5 DEF Arrays
  <2> HIDE DEF A, B
  <2> QED
    BY <2>1
<1>10. Counted(m, d, h, e, g)
  <2>1. ASSUME NEW r \in Index
        PROVE  Cardinality(NamedBy(h, r)) + Cardinality(ElementIn(d, B, r)) <= m[r]
    <3>1. \A x \in B : d[x].elements = c[x].elements
      BY <1>8 DEF Arrays
    <3>2. Cardinality(ElementIn(d, B, r)) <= Cardinality(ElementIn(c, A, r)) - L(r)
      BY <1>2, <1>4, <1>9, <3>1, ElementsLost
    <3>3. Cardinality(ElementIn(d, B, r)) \in Nat
      BY <1>2, NamesFinite
    <3> HIDE DEF A, B, L
    <3> QED
      BY <1>5, <3>2, <3>3
  <2>2. m \in [Index -> Nat]
    <3>1. \A r \in Index : m[r] \in Nat
      BY <1>5
    <3> QED
      BY <3>1
  <2> HIDE DEF e
  <2> QED
    BY <2>1, <2>2 DEF Counted
<1>11. SameStrings(n, c, m, d)
  BY DEF SameStrings
<1>12. Elementary(m, d, h, e, g)
  <2>1. ASSUME NEW x \in Index, m[x] > 0 PROVE d[x] \in Entries
    BY <1>1, <1>8, <2>1 DEF Elementary
  <2>2. ASSUME NEW x \in B
        PROVE  /\ d[x].elements \in [1 .. Elements -> 0 .. Slots]
               /\ \A k \in 1 .. Elements : d[x].elements[k] # 0 => ~IsArrayIn(d, d[x].elements[k])
    <3>1. x \in A \cap B /\ d[x].elements = c[x].elements
      BY <1>8, <1>9 DEF Arrays
    <3> QED
      BY <1>1, <1>10, <1>11, <3>1, ElementsStay
  <2>3. ASSUME NEW u \in Tasks, e[u] = "elements"
        PROVE  m[h[<<u, g[u]>>]] = 1 /\ IsArrayIn(d, h[<<u, g[u]>>])
    <3> DEFINE x == h[<<u, g[u]>>]
    <3>1. a[u] = "elements"
      BY <1>3, <2>3
    <3>2. x \in Index /\ n[x] = 1 /\ IsArrayIn(c, x)
      BY <1>1, <3>1, KeptHas DEF Elementary
    <3>3. m[x] = 1 /\ d[x] = c[x]
      BY <1>6, <1>8, <3>2
    <3> QED
      BY <3>2, <3>3 DEF IsArrayIn
  <2> HIDE DEF e
  <2> QED
    BY <2>1, <2>2, <2>3 DEF Elementary
<1>13. LiveIn(h, e, g) \subseteq LiveIn(h, a, g)
  <2>1. ASSUME NEW p \in LiveIn(h, e, g) PROVE p \in LiveIn(h, a, g)
    <3>1. p \in Heap!Places /\ h[p] # 0 /\ ~(e[p[1]] # "idle" /\ g[p[1]] = p[2]) /\ p[1] \in Tasks
      BY <2>1, PlaceIs DEF LiveIn
    <3>2. ~(a[p[1]] # "idle" /\ g[p[1]] = p[2])
      BY <1>3, <3>1
    <3> QED
      BY <3>1, <3>2 DEF LiveIn
  <2> QED
    BY <2>1
<1>14. ASSUME NEW p \in LiveIn(h, e, g) PROVE HasValue(d, h[p], v[p])
  <2>1. p \in LiveIn(h, a, g) \cap LiveIn(h, e, g) /\ HasValue(c, h[p], v[p])
    BY <1>1, <1>13, <1>14 DEF Valued
  <2>2. h[p] \in Index /\ m[h[p]] > 0
    BY <1>7, <1>10, <2>1, LiveIsAlive
  <2>3. d[h[p]] = c[h[p]]
    BY <1>8, <2>2
  <2> HIDE DEF e
  <2> QED
    BY <1>1, <1>7, <1>10, <1>11, <2>1, <2>3, ValueStays
<1>15. Valued(d, h, e, g, v)
  BY <1>1, <1>14 DEF Valued
<1> QED
  BY <1>7, <1>10, <1>12, <1>15 DEF Kept

\* The counts and the contents when slot s has lost a reference.
LetGo(n, c, d, s, m) ==
  /\ m \in [Index -> Nat] /\ m[s] = n[s] - 1 /\ \A r \in Index : r # s => m[r] = n[r]
  /\ \A r \in Index : m[r] > 0 => d[r] = c[r]

\* DeleteHandle, seen in the counts and contents: a handle and a reference less.
LEMMA DeleteHandleKeepsHandles ==
  ASSUME NEW n, NEW c, NEW h, NEW a, NEW g, NEW v, Kept(n, c, h, a, g, v),
         NEW t \in Tasks, a[t] = "slot", NEW p, p = <<t, g[t]>>,
         NEW m, NEW d, LetGo(n, c, d, h[p], m),
         NEW val \in [isArray : BOOLEAN, texts : Seq(HeapTexts)]
  PROVE  Kept(m, d, [h EXCEPT ![p] = 0],
              [a EXCEPT ![t] = "idle"], [g EXCEPT ![t] = 1], [v EXCEPT ![p] = val])
<1> DEFINE s == h[p]
           j == [h EXCEPT ![p] = 0]
           e == [a EXCEPT ![t] = "idle"]
           f == [g EXCEPT ![t] = 1]
           w == [v EXCEPT ![p] = val]
           A == Arrays(n, c, h, a, g)
           B == Arrays(m, d, j, e, f)
<1>1. /\ HandlesTyped(h, a, g) /\ Counted(n, c, h, a, g) /\ Elementary(n, c, h, a, g)
      /\ Valued(c, h, a, g, v)
  BY DEF Kept
<1>2. /\ n \in [Index -> Nat] /\ h \in [Heap!Places -> 0 .. Slots]
      /\ a \in [Tasks -> {"idle", "elements", "slot"}] /\ g \in [Tasks -> Nat]
      /\ A \in SUBSET Index /\ B \in SUBSET Index
      /\ p \in Heap!Places /\ s \in Index /\ 0 \in 0 .. Slots
  <2>1. p \in Heap!Places /\ s \in Index
    BY KeptHas
  <2>2. 0 \in 0 .. Slots
    BY HeapConstants
  <2>3. B \in SUBSET Index
    BY DEF Arrays
  <2>4. /\ n \in [Index -> Nat] /\ h \in [Heap!Places -> 0 .. Slots]
        /\ a \in [Tasks -> {"idle", "elements", "slot"}] /\ g \in [Tasks -> Nat]
        /\ A \in SUBSET Index
    BY KeptHas
  <2> HIDE DEF s, A, B
  <2> QED
    BY <2>1, <2>2, <2>3, <2>4
<1>3. n[s] \in Nat /\ n[s] > 0
  BY <1>1, <1>2, NamedOnce
<1>4. m \in [Index -> Nat] /\ m[s] = n[s] - 1 /\ \A r \in Index : r # s => m[r] = n[r]
  BY DEF LetGo
<1>5. j \in [Heap!Places -> 0 .. Slots] /\ j[p] = 0 /\ \A q \in Heap!Places : q # p => j[q] = h[q]
  BY <1>2
<1>6. /\ e[t] = "idle" /\ e \in [Tasks -> {"idle", "elements", "slot"}] /\ f \in [Tasks -> Nat]
      /\ \A u \in Tasks : u # t => e[u] = a[u] /\ f[u] = g[u]
  BY <1>2
<1>7. \A u \in Tasks : e[u] # "idle" =>
        /\ u # t /\ a[u] = e[u] /\ f[u] = g[u]
        /\ <<u, g[u]>> \in Heap!Places /\ j[<<u, g[u]>>] = h[<<u, g[u]>>] /\ h[<<u, g[u]>>] \in Index
  <2> HIDE DEF j, e, f
  <2>1. ASSUME NEW u \in Tasks, e[u] # "idle"
        PROVE /\ u # t /\ a[u] = e[u] /\ f[u] = g[u]
              /\ <<u, g[u]>> \in Heap!Places /\ j[<<u, g[u]>>] = h[<<u, g[u]>>]
              /\ h[<<u, g[u]>>] \in Index
    <3>1. u # t /\ a[u] = e[u] /\ f[u] = g[u]
      BY <1>6, <2>1
    <3>2. <<u, g[u]>> \in Heap!Places /\ h[<<u, g[u]>>] \in Index /\ <<u, g[u]>> # p
      BY <2>1, <3>1, KeptHas
    <3> QED
      BY <1>5, <3>1, <3>2
  <2> QED
    BY <2>1
<1>8. HandlesTyped(j, e, f)
  <2> HIDE DEF j, e, f
  <2>1. ASSUME NEW u \in Tasks, e[u] # "idle"
        PROVE  <<u, f[u]>> \in Heap!Places /\ j[<<u, f[u]>>] # 0
    <3>1. /\ f[u] = g[u] /\ <<u, g[u]>> \in Heap!Places
          /\ j[<<u, g[u]>>] = h[<<u, g[u]>>] /\ h[<<u, g[u]>>] \in Index
      BY <1>7, <2>1
    <3> QED
      BY <3>1, HeapConstants
  <2> QED
    BY <1>5, <1>6, <2>1 DEF HandlesTyped
<1>9. ASSUME NEW r \in Index, m[r] > 0 PROVE d[r] = c[r] /\ n[r] > 0
  <2>1. d[r] = c[r]
    BY <1>9 DEF LetGo
  <2> HIDE DEF s
  <2> QED
    BY <1>3, <1>4, <1>9, <2>1
<1>10. ASSUME NEW r \in Dying(h, a, g), r # s PROVE r \in Dying(j, e, f)
  <2>1. PICK u \in Tasks : a[u] = "slot" /\ r = h[<<u, g[u]>>]
    BY <1>10 DEF Dying
  <2>2. u # t
    BY <1>10, <2>1
  <2> HIDE DEF j, e, f, s
  <2>3. e[u] = "slot" /\ r = j[<<u, f[u]>>]
    BY <1>6, <1>7, <2>1, <2>2
  <2> QED
    BY <2>3 DEF Dying
<1>11. B \subseteq A
  <2>1. ASSUME NEW x \in B PROVE x \in A
    <3>1. x \in Index /\ m[x] > 0 /\ IsArrayIn(d, x) /\ ~(m[x] = 1 /\ x \in Dying(j, e, f))
      BY <2>1 DEF Arrays
    <3>2. IsArrayIn(c, x) /\ n[x] > 0
      BY <1>9, <3>1 DEF IsArrayIn
    <3>3. CASE x = s
      <4> HIDE DEF s
      <4>1. n[x] # 1
        BY <1>3, <1>4, <3>1, <3>3
      <4> QED
        BY <3>1, <3>2, <4>1 DEF Arrays
    <3>4. CASE x # s
      <4> HIDE DEF s, j, e, f
      <4> QED
        BY <1>4, <1>10, <3>1, <3>2, <3>4 DEF Arrays
    <3> QED
      BY <3>3, <3>4
  <2> HIDE DEF A, B
  <2> QED
    BY <2>1
<1>12. \A x \in B : d[x].elements = c[x].elements
  BY <1>9 DEF Arrays
<1>13. Counted(m, d, j, e, f)
  <2>1. ASSUME NEW r \in Index
        PROVE  Cardinality(NamedBy(j, r)) + Cardinality(ElementIn(d, B, r)) <= m[r]
    <3>1. Cardinality(NamedBy(j, r)) <= Cardinality(NamedBy(h, r)) - One(s = r) + One(0 = r)
      BY <1>2, HandleChange
    <3>2. Cardinality(ElementIn(d, B, r)) <= Cardinality(ElementIn(c, A, r))
      BY <1>2, <1>11, <1>12, ElementsFewer
    <3>3. /\ n[r] \in Nat /\ Cardinality(NamedBy(h, r)) \in Nat
          /\ Cardinality(ElementIn(c, A, r)) \in Nat
          /\ Cardinality(NamedBy(h, r)) + Cardinality(ElementIn(c, A, r)) <= n[r]
      BY <1>1, CardsAre
    <3>4. Cardinality(NamedBy(j, r)) \in Nat /\ Cardinality(ElementIn(d, B, r)) \in Nat
      BY <1>2, NamesFinite
    <3>5. One(0 = r) = 0 /\ m[r] = n[r] - One(s = r) /\ One(s = r) \in Nat
      <4> HIDE DEF s
      <4> QED
        BY <1>4, <3>3, HeapConstants DEF One
    <3> HIDE DEF j, A, B, s
    <3> QED
      BY <3>1, <3>2, <3>3, <3>4, <3>5
  <2> HIDE DEF j, e, f
  <2> QED
    BY <1>4, <2>1 DEF Counted
<1>14. SameStrings(n, c, m, d)
  BY <1>9 DEF SameStrings
<1>15. Elementary(m, d, j, e, f)
  <2>1. ASSUME NEW x \in Index, m[x] > 0 PROVE d[x] \in Entries
    BY <1>1, <1>9, <2>1 DEF Elementary
  <2>2. ASSUME NEW x \in B
        PROVE  /\ d[x].elements \in [1 .. Elements -> 0 .. Slots]
               /\ \A k \in 1 .. Elements : d[x].elements[k] # 0 => ~IsArrayIn(d, d[x].elements[k])
    <3>1. x \in A \cap B /\ d[x].elements = c[x].elements
      BY <1>11, <1>12
    <3> QED
      BY <1>1, <1>13, <1>14, <3>1, ElementsStay
  <2>3. ASSUME NEW u \in Tasks, e[u] = "elements"
        PROVE  m[j[<<u, f[u]>>]] = 1 /\ IsArrayIn(d, j[<<u, f[u]>>])
    <3> DEFINE q == <<u, g[u]>>
    <3> HIDE DEF j, e, f
    <3>1. /\ a[u] = "elements" /\ f[u] = g[u] /\ u # t
          /\ q \in Heap!Places /\ j[q] = h[q] /\ h[q] \in Index
      BY <1>7, <2>3
    <3>2. n[h[q]] = 1 /\ IsArrayIn(c, h[q])
      BY <1>1, <3>1 DEF Elementary
    <3>3. h[q] # s
      <4>1. q # p
        BY <3>1
      <4>2. h[p] = h[q] => n[h[q]] > 1
        BY <1>1, <1>2, <3>1, <4>1, NamedOnce
      <4> HIDE DEF q
      <4> QED
        BY <3>2, <4>2
    <3> HIDE DEF q
    <3>4. m[h[q]] = 1
      BY <1>4, <3>1, <3>2, <3>3
    <3>5. d[h[q]] = c[h[q]]
      BY <1>9, <3>1, <3>4
    <3> QED
      BY <3>1, <3>2, <3>4, <3>5 DEF IsArrayIn, q
  <2> HIDE DEF j, e, f
  <2> QED
    BY <2>1, <2>2, <2>3 DEF Elementary
<1>16. w \in [Heap!Places -> [isArray : BOOLEAN, texts : Seq(HeapTexts)]]
       /\ \A q \in Heap!Places : q # p => w[q] = v[q]
  BY KeptHas
<1>17. ASSUME NEW q \in LiveIn(j, e, f) PROVE HasValue(d, j[q], w[q])
  <2> HIDE DEF j, e, f, w
  <2>1. /\ q \in Heap!Places /\ j[q] # 0 /\ ~(e[q[1]] # "idle" /\ f[q[1]] = q[2]) /\ q[1] \in Tasks
        /\ q = <<q[1], q[2]>>
    BY <1>17, PlaceIs DEF LiveIn
  <2>2. q # p
    BY <1>5, <2>1
  <2>3. j[q] = h[q] /\ w[q] = v[q]
    BY <1>5, <1>16, <2>1, <2>2
  <2>4. ~(a[q[1]] # "idle" /\ g[q[1]] = q[2])
    BY <1>6, <2>1, <2>2
  <2>5. q \in LiveIn(h, a, g)
    BY <2>1, <2>3, <2>4 DEF LiveIn
  <2>6. HasValue(c, h[q], v[q])
    BY <1>1, <2>5 DEF Valued
  <2>7. HasValue(d, j[q], v[q])
    <3>1. /\ HandlesTyped(h, a, g) /\ Counted(n, c, h, a, g) /\ Elementary(n, c, h, a, g)
          /\ HandlesTyped(j, e, f) /\ Counted(m, d, j, e, f)
          /\ q \in LiveIn(h, a, g) \cap LiveIn(j, e, f) /\ j[q] = h[q]
          /\ HasValue(c, h[q], v[q])
      BY <1>1, <1>8, <1>13, <1>17, <2>3, <2>5, <2>6
    <3>2. h[q] \in Index /\ m[h[q]] > 0
      BY <3>1, LiveIsAlive
    <3>3. d[h[q]] = c[h[q]]
      BY <1>9, <3>2
    <3> QED
      BY <1>14, <3>1, <3>3, ValueStays
  <2> QED
    BY <2>3, <2>7
<1>18. Valued(d, j, e, f, w)
  BY <1>16, <1>17 DEF Valued
<1> QED
  BY <1>8, <1>13, <1>15, <1>18 DEF Kept

\* An element of an array is assigned to.
Assigned(val, k, text) == [val EXCEPT !.texts[k] = text]

\* An array of texts with one of them assigned.
LEMMA AssignedIs ==
  ASSUME NEW val \in [isArray : BOOLEAN, texts : Seq(HeapTexts)],
         val.texts \in [1 .. Elements -> HeapTexts],
         NEW k \in 1 .. Elements, NEW text \in HeapTexts
  PROVE  /\ Assigned(val, k, text) \in [isArray : BOOLEAN, texts : Seq(HeapTexts)]
         /\ Assigned(val, k, text).isArray = val.isArray
         /\ Assigned(val, k, text).texts \in [1 .. Elements -> HeapTexts]
         /\ Assigned(val, k, text).texts[k] = text
         /\ \A x \in 1 .. Elements : x # k => Assigned(val, k, text).texts[x] = val.texts[x]
<1> DEFINE X == [val.texts EXCEPT ![k] = text]
<1>1. /\ X \in [1 .. Elements -> HeapTexts] /\ X[k] = text
      /\ \A x \in 1 .. Elements : x # k => X[x] = val.texts[x]
  OBVIOUS
<1>2. X \in Seq(HeapTexts)
  BY <1>1, HeapConstants, SeqDef
<1>3. Assigned(val, k, text) = [val EXCEPT !.texts = X]
  BY DEF Assigned
<1> HIDE DEF X
<1> QED
  BY <1>1, <1>2, <1>3

\* An array whose element has changed has the value with that text assigned.
LEMMA AssignedValue ==
  ASSUME NEW c, NEW d, NEW s \in Index, NEW r, NEW val, HasValue(c, s, val), val.isArray,
         val \in [isArray : BOOLEAN, texts : Seq(HeapTexts)],
         NEW k \in 1 .. Elements, NEW text \in HeapTexts,
         IsArrayIn(d, r), TextOf(d, d[r].elements[k]) = text, ElementsBut(c, s, d, r, k),
         \A x \in 1 .. Elements : x # k => TextOf(d, c[s].elements[x]) = TextOf(c, c[s].elements[x])
  PROVE  HasValue(d, r, Assigned(val, k, text))
<1> DEFINE w == Assigned(val, k, text)
<1>1. /\ val.texts \in [1 .. Elements -> HeapTexts]
      /\ \A x \in 1 .. Elements : TextOf(c, c[s].elements[x]) = val.texts[x]
  BY DEF HasValue
<1>2. /\ w.isArray = val.isArray /\ w.texts \in [1 .. Elements -> HeapTexts] /\ w.texts[k] = text
      /\ \A x \in 1 .. Elements : x # k => w.texts[x] = val.texts[x]
  <2>1. val.texts \in [1 .. Elements -> HeapTexts]
    BY <1>1
  <2>2. /\ val \in [isArray : BOOLEAN, texts : Seq(HeapTexts)]
        /\ k \in 1 .. Elements /\ text \in HeapTexts
    OBVIOUS
  <2>3. w.isArray = val.isArray /\ w.texts \in [1 .. Elements -> HeapTexts]
    BY <2>1, <2>2, AssignedIs
  <2>4. w.texts[k] = text
    BY <2>1, <2>2, AssignedIs
  <2>5. ASSUME NEW x \in 1 .. Elements, x # k PROVE w.texts[x] = val.texts[x]
    BY <2>1, <2>2, <2>5, AssignedIs
  <2> QED
    BY <2>3, <2>4, <2>5
<1> HIDE DEF w
<1>3. ASSUME NEW x \in 1 .. Elements PROVE TextOf(d, d[r].elements[x]) = w.texts[x]
  <2>1. CASE x = k
    BY <1>2, <2>1
  <2>2. CASE x # k
    <3>1. d[r].elements[x] = c[s].elements[x]
      BY <2>2 DEF ElementsBut
    <3>2. TextOf(d, c[s].elements[x]) = TextOf(c, c[s].elements[x])
      BY <2>2
    <3>3. w.texts[x] = TextOf(c, c[s].elements[x])
      BY <1>1, <1>2, <2>2
    <3> QED
      BY <3>1, <3>2, <3>3
  <2> QED
    BY <2>1, <2>2
<1>4. HasValue(d, r, w)
  BY <1>2, <1>3 DEF HasValue
<1> QED
  BY <1>4 DEF w

\* In the array itself, when nothing else names it.
LEMMA AssignInPlaceKeepsHandles ==
  ASSUME NEW n, NEW c, NEW h, NEW a, NEW g, NEW v, Kept(n, c, h, a, g, v),
         \A u \in Tasks : a[u] = "idle",
         NEW p \in Heap!Places, NEW q \in Heap!Places, h[p] # 0, h[q] # 0,
         IsArrayIn(c, h[p]), ~IsArrayIn(c, h[q]), n[h[p]] = 1, NEW k \in 1 .. Elements,
         NEW m, m \in [Index -> Nat],
         \A r \in Index :
           m[r] = n[r] - One(r = c[h[p]].elements[k] /\ r # h[q])
                       + One(r = h[q] /\ r # c[h[p]].elements[k]),
         NEW d, d[h[p]] \in Entries, IsArrayIn(d, h[p]),
         d[h[p]].elements \in [1 .. Elements -> 0 .. Slots], d[h[p]].elements[k] = h[q],
         ElementsBut(c, h[p], d, h[p], k),
         \A r \in Index : m[r] > 0 /\ r # h[p] => d[r] = c[r]
  PROVE  Kept(m, d, h, a, g, [v EXCEPT ![p] = Assigned(v[p], k, v[q].texts[1])])
<1> DEFINE b == h[p]
           s == h[q]
           o == c[b].elements[k]
           w == [v EXCEPT ![p] = Assigned(v[p], k, v[q].texts[1])]
           A == Arrays(n, c, h, a, g)
           B == Arrays(m, d, h, a, g)
<1>1. /\ HandlesTyped(h, a, g) /\ Counted(n, c, h, a, g) /\ Elementary(n, c, h, a, g)
      /\ Valued(c, h, a, g, v)
  BY DEF Kept
<1>2. Dying(h, a, g) = {}
  BY IdleIsNotDying
<1>3. /\ p \in LiveIn(h, a, g) /\ q \in LiveIn(h, a, g)
      /\ \A x \in LiveIn(h, a, g) : x \in Heap!Places
  BY PlaceIs DEF LiveIn
<1>4. b \in Index /\ s \in Index /\ n[s] > 0 /\ b \in A /\ A \in SUBSET Index /\ B \in SUBSET Index
      /\ p # q /\ b # s
  <2>1. b \in Index /\ s \in Index /\ n[s] > 0 /\ b \in A
    BY <1>1, <1>3, LiveIsAlive
  <2>2. A \in SUBSET Index /\ B \in SUBSET Index
    BY DEF Arrays
  <2>3. p # q /\ b # s
    OBVIOUS
  <2> HIDE DEF A, B, b, s
  <2> QED
    BY <2>1, <2>2, <2>3
<1>5. /\ c[b].elements \in [1 .. Elements -> 0 .. Slots]
      /\ o # 0 => o \in Index /\ ~IsArrayIn(c, o)
  <2>1. c[b].elements \in [1 .. Elements -> 0 .. Slots] /\ (o # 0 => ~IsArrayIn(c, o))
    BY <1>1, <1>4 DEF Elementary
  <2>2. o \in 0 .. Slots
    BY <2>1
  <2> HIDE DEF o, b
  <2> QED
    BY <2>1, <2>2, NumberIs
<1>6. \A r \in Index : m[r] \in Nat /\ n[r] \in Nat
                       /\ m[r] = n[r] - One(r = o /\ r # s) + One(r = s /\ r # o)
  BY <1>1, CardsAre
<1>7. ASSUME NEW r \in Index, IsArrayIn(c, r) PROVE m[r] = n[r]
  <2>1. r # o /\ r # s
    BY <1>5, <1>7, HeapConstants
  <2> HIDE DEF o, s
  <2> QED
    BY <1>6, <2>1 DEF One
<1>8. ASSUME NEW r \in Index, m[r] > 0 PROVE n[r] > 0
  <2> HIDE DEF o, s
  <2> QED
    BY <1>4, <1>6, <1>8 DEF One
<1>9. B \subseteq A
  <2>1. ASSUME NEW x \in B PROVE x \in A
    <3>1. x \in Index /\ m[x] > 0 /\ IsArrayIn(d, x) /\ n[x] > 0
      BY <1>8, <2>1 DEF Arrays
    <3>2. CASE x = b
      BY <1>4, <3>2
    <3>3. CASE x # b
      <4>1. d[x] = c[x]
        BY <3>1, <3>3
      <4> QED
        BY <1>2, <3>1, <4>1 DEF Arrays, IsArrayIn
    <3> QED
      BY <3>2, <3>3
  <2> HIDE DEF A, B
  <2> QED
    BY <2>1
<1>10. b \in B
  <2>1. m[b] = 1
    BY <1>4, <1>7
  <2> QED
    BY <1>2, <1>4, <2>1 DEF Arrays
<1>11. /\ SameElements(c, d, B \ {b}) /\ ElementsBut(c, b, d, b, k) /\ d[b].elements[k] = s
       /\ \A x \in 1 .. Elements : x # k => d[b].elements[x] = c[b].elements[x]
  BY DEF Arrays, SameElements, ElementsBut
<1>12. Counted(m, d, h, a, g)
  <2>1. ASSUME NEW r \in Index
        PROVE  Cardinality(NamedBy(h, r)) + Cardinality(ElementIn(d, B, r)) <= m[r]
    <3>1. Cardinality(ElementIn(d, B, r)) <= Cardinality(ElementIn(c, A, r)) - One(o = r) + One(s = r)
      <4>1. /\ A \in SUBSET Index /\ B \in SUBSET A /\ b \in A
            /\ c[b].elements \in [1 .. Elements -> 0 .. Slots]
        BY <1>4, <1>5, <1>9
      <4> HIDE DEF A, B, b, s
      <4> QED
        BY <1>11, <4>1, ElementChanged
    <3>2. /\ n[r] \in Nat /\ Cardinality(NamedBy(h, r)) \in Nat
          /\ Cardinality(ElementIn(c, A, r)) \in Nat
          /\ Cardinality(NamedBy(h, r)) + Cardinality(ElementIn(c, A, r)) <= n[r]
      BY <1>1, CardsAre
    <3>3. Cardinality(ElementIn(d, B, r)) \in Nat
      BY <1>4, NamesFinite
    <3>4. m[r] = n[r] - One(o = r) + One(s = r) /\ One(o = r) \in Nat /\ One(s = r) \in Nat
      <4> HIDE DEF o, s
      <4> QED
        BY <1>6 DEF One
    <3> HIDE DEF A, B, o, s
    <3> QED
      BY <3>1, <3>2, <3>3, <3>4
  <2> QED
    BY <2>1 DEF Counted
<1>13. ASSUME NEW r \in Index, m[r] > 0, ~IsArrayIn(c, r) PROVE d[r] = c[r]
  BY <1>13
<1>14. SameStrings(n, c, m, d)
  BY <1>13 DEF SameStrings
<1>15. ASSUME NEW x \in 1 .. Elements, x # k
       PROVE  /\ TextOf(d, c[b].elements[x]) = TextOf(c, c[b].elements[x])
              /\ c[b].elements[x] # 0 => /\ c[b].elements[x] \in Index
                                         /\ d[c[b].elements[x]] = c[c[b].elements[x]]
                                         /\ ~IsArrayIn(c, c[b].elements[x])
  <2> DEFINE y == c[b].elements[x]
  <2>1. CASE y = 0
    BY <2>1 DEF TextOf
  <2>2. CASE y # 0
    <3>1. y \in Index /\ ~IsArrayIn(c, y)
      <4>1. y \in 0 .. Slots /\ ~IsArrayIn(c, y)
        BY <1>1, <1>4, <2>2 DEF Elementary
      <4> HIDE DEF y, b
      <4> QED
        BY <2>2, <4>1, NumberIs
    <3>2. d[b].elements[x] = y
      BY <1>11, <1>15
    <3>3. m[y] > 0
      BY <1>10, <1>12, <3>1, <3>2, ElementNamed
    <3>4. d[y] = c[y]
      BY <1>13, <3>1, <3>3
    <3>5. TextOf(d, y) = TextOf(c, y)
      BY <3>4 DEF TextOf
    <3> HIDE DEF y
    <3> QED
      BY <3>1, <3>4, <3>5 DEF y
  <2> QED
    BY <2>1, <2>2
<1>16. m[s] > 0 /\ d[s] = c[s] /\ ~IsArrayIn(d, s)
  <2>1. m[s] > 0
    BY <1>1, <1>4, <1>12, NamedOnce
  <2>2. d[s] = c[s]
    BY <1>4, <1>13, <2>1
  <2> QED
    BY <2>1, <2>2 DEF IsArrayIn
<1>17. Elementary(m, d, h, a, g)
  <2>1. ASSUME NEW x \in Index, m[x] > 0 PROVE d[x] \in Entries
    <3>1. CASE x = b
      BY <3>1
    <3>2. CASE x # b
      BY <1>1, <1>8, <2>1, <3>2 DEF Elementary
    <3> QED
      BY <3>1, <3>2
  <2>2. ASSUME NEW x \in B
        PROVE  /\ d[x].elements \in [1 .. Elements -> 0 .. Slots]
               /\ \A i \in 1 .. Elements : d[x].elements[i] # 0 => ~IsArrayIn(d, d[x].elements[i])
    <3>1. CASE x # b
      <4>1. x \in A \cap B /\ d[x].elements = c[x].elements
        BY <1>9, <1>11, <2>2, <3>1 DEF SameElements
      <4> QED
        BY <1>1, <1>12, <1>14, <4>1, ElementsStay
    <3>2. CASE x = b
      <4>1. d[b].elements \in [1 .. Elements -> 0 .. Slots]
        OBVIOUS
      <4>2. ASSUME NEW i \in 1 .. Elements, d[b].elements[i] # 0
            PROVE  ~IsArrayIn(d, d[b].elements[i])
        <5>1. CASE i = k
          <6>1. d[b].elements[i] = s
            BY <1>11, <5>1
          <6> QED
            BY <1>16, <6>1
        <5>2. CASE i # k
          <6>1. d[b].elements[i] = c[b].elements[i]
            BY <1>11, <5>2
          <6> QED
            BY <1>15, <4>2, <5>2, <6>1 DEF IsArrayIn
        <5> QED
          BY <5>1, <5>2
      <4> QED
        BY <3>2, <4>1, <4>2
    <3> QED
      BY <3>1, <3>2
  <2> QED
    BY <2>1, <2>2 DEF Elementary
<1>18. /\ HasValue(c, b, v[p]) /\ v[p].isArray
       /\ HasValue(c, s, v[q]) /\ ~v[q].isArray /\ v[q].texts[1] = c[s].text
       /\ v[p] \in [isArray : BOOLEAN, texts : Seq(HeapTexts)]
       /\ v[q].texts[1] \in HeapTexts
  <2>1. HasValue(c, b, v[p]) /\ HasValue(c, s, v[q])
    BY <1>1, <1>3 DEF Valued
  <2>2. v[p].isArray /\ ~v[q].isArray /\ v[q].texts[1] = c[s].text /\ v[q].texts # <<>>
    BY <2>1 DEF HasValue
  <2>3. v[p] \in [isArray : BOOLEAN, texts : Seq(HeapTexts)] /\ v[q].texts \in Seq(HeapTexts)
    BY KeptHas
  <2>4. v[q].texts[1] \in HeapTexts
    BY <2>2, <2>3
  <2> QED
    BY <2>1, <2>2, <2>3, <2>4
<1>19. TextOf(d, s) = v[q].texts[1]
  BY <1>4, <1>16, <1>18, HeapConstants DEF TextOf
<1>20. HasValue(d, b, Assigned(v[p], k, v[q].texts[1]))
  <2>1. \A x \in 1 .. Elements : x # k => TextOf(d, c[b].elements[x]) = TextOf(c, c[b].elements[x])
    BY <1>15
  <2>2. /\ v[q].texts[1] \in HeapTexts /\ b \in Index /\ IsArrayIn(d, b)
        /\ TextOf(d, d[b].elements[k]) = v[q].texts[1]
    BY <1>4, <1>11, <1>18, <1>19
  <2> DEFINE text == v[q].texts[1]
             val == v[p]
  <2>3. HasValue(c, b, val) /\ val.isArray /\ val \in [isArray : BOOLEAN, texts : Seq(HeapTexts)]
    BY <1>18
  <2> HIDE DEF b, s, text, val
  <2> QED
    BY <1>11, <2>1, <2>2, <2>3, AssignedValue DEF text, val
<1>21. /\ w \in [Heap!Places -> [isArray : BOOLEAN, texts : Seq(HeapTexts)]]
       /\ w[p] = Assigned(v[p], k, v[q].texts[1])
       /\ \A x \in Heap!Places : x # p => w[x] = v[x]
  <2> DEFINE X == Assigned(v[p], k, v[q].texts[1])
  <2>1. X \in [isArray : BOOLEAN, texts : Seq(HeapTexts)]
    BY <1>18, AssignedIs DEF HasValue
  <2> HIDE DEF X
  <2>2. /\ [v EXCEPT ![p] = X] \in [Heap!Places -> [isArray : BOOLEAN, texts : Seq(HeapTexts)]]
        /\ [v EXCEPT ![p] = X][p] = X
        /\ \A x \in Heap!Places : x # p => [v EXCEPT ![p] = X][x] = v[x]
    BY <2>1, KeptHas
  <2> QED
    BY <2>2 DEF X
<1>22. ASSUME NEW x \in LiveIn(h, a, g) PROVE HasValue(d, h[x], w[x])
  <2>1. CASE x = p
    BY <1>20, <1>21, <2>1
  <2>2. CASE x # p
    <3>1. x \in Heap!Places /\ w[x] = v[x] /\ HasValue(c, h[x], v[x])
      BY <1>1, <1>3, <1>21, <1>22, <2>2 DEF Valued
    <3>2. h[x] # b
      <4>1. \A y \in Heap!Places : y # p /\ h[y] = h[p] => n[h[p]] > 1
        BY <1>1, <1>4, NamedOnce
      <4> QED
        BY <2>2, <3>1, <4>1
    <3>3. h[x] \in Index /\ m[h[x]] > 0
      BY <1>1, <1>12, <1>22, LiveIsAlive
    <3>4. d[h[x]] = c[h[x]]
      BY <3>2, <3>3
    <3>5. HasValue(d, h[x], v[x])
      BY <1>1, <1>12, <1>14, <1>22, <3>1, <3>4, ValueStays
    <3> QED
      BY <3>1, <3>5
  <2> QED
    BY <2>1, <2>2
<1>23. Valued(d, h, a, g, w)
  BY <1>21, <1>22 DEF Valued
<1> QED
  BY <1>1, <1>12, <1>17, <1>23 DEF Kept

\* Slot s has a copy of the array in slot b but for element k, slot new, and what the
\* counts are then.
CopyOf(n, c, b, new, k, s, m, d) ==
  /\ m \in [Index -> Nat] /\ m[s] = 1
  /\ \A r \in Index : r # s => m[r] = n[r] + Cardinality(At(d, s, r)) - One(r = b)
  /\ \A r \in Index : n[r] > 0 => d[r] = c[r]
  /\ d[s] \in Entries /\ IsArrayIn(d, s) /\ d[s].elements \in [1 .. Elements -> 0 .. Slots]
  /\ d[s].elements[k] = new /\ ElementsBut(c, b, d, s, k)

\* In a copy, when something else names the array.
LEMMA CopyAndAssignKeepsHandles ==
  ASSUME NEW n, NEW c, NEW h, NEW a, NEW g, NEW v, Kept(n, c, h, a, g, v),
         \A u \in Tasks : a[u] = "idle",
         NEW p \in Heap!Places, NEW q \in Heap!Places, h[p] # 0, h[q] # 0,
         IsArrayIn(c, h[p]), ~IsArrayIn(c, h[q]), NEW k \in 1 .. Elements,
         NEW s \in Index, n[s] = 0, NEW m, NEW d, CopyOf(n, c, h[p], h[q], k, s, m, d)
  PROVE  Kept(m, d, [h EXCEPT ![p] = s], a, g,
              [v EXCEPT ![p] = Assigned(v[p], k, v[q].texts[1])])
<1> DEFINE b == h[p]
           new == h[q]
           j == [h EXCEPT ![p] = s]
           w == [v EXCEPT ![p] = Assigned(v[p], k, v[q].texts[1])]
           A == Arrays(n, c, h, a, g)
           B == Arrays(m, d, j, a, g)
<1>0. /\ m \in [Index -> Nat] /\ m[s] = 1
      /\ \A r \in Index : r # s => m[r] = n[r] + Cardinality(At(d, s, r)) - One(r = b)
      /\ \A r \in Index : n[r] > 0 => d[r] = c[r]
      /\ d[s] \in Entries /\ IsArrayIn(d, s) /\ d[s].elements \in [1 .. Elements -> 0 .. Slots]
      /\ d[s].elements[k] = new /\ ElementsBut(c, b, d, s, k)
  BY DEF CopyOf
<1>1. /\ HandlesTyped(h, a, g) /\ Counted(n, c, h, a, g) /\ Elementary(n, c, h, a, g)
      /\ Valued(c, h, a, g, v)
  BY DEF Kept
<1>2. Dying(h, a, g) = {} /\ Dying(j, a, g) = {}
  BY IdleIsNotDying
<1>3. p \in LiveIn(h, a, g) /\ q \in LiveIn(h, a, g)
  BY PlaceIs DEF LiveIn
<1>4. /\ b \in Index /\ new \in Index /\ n[b] > 0 /\ n[new] > 0 /\ b \in A
      /\ A \in SUBSET Index /\ B \in SUBSET Index /\ new # s /\ b # s /\ s \in 0 .. Slots
      /\ n \in [Index -> Nat] /\ h \in [Heap!Places -> 0 .. Slots]
  <2>1. b \in Index /\ new \in Index /\ n[b] > 0 /\ n[new] > 0 /\ b \in A
    BY <1>1, <1>3, LiveIsAlive
  <2>2. A \in SUBSET Index /\ B \in SUBSET Index
    BY DEF Arrays
  <2>3. n \in [Index -> Nat] /\ h \in [Heap!Places -> 0 .. Slots] /\ s \in 0 .. Slots
    BY KeptHas DEF Index
  <2>4. new # s /\ b # s
    BY <2>1, <2>3
  <2> HIDE DEF A, B, b, new
  <2> QED
    BY <2>1, <2>2, <2>3, <2>4
<1>5. ASSUME NEW i \in 1 .. Elements, d[s].elements[i] # 0
      PROVE  /\ d[s].elements[i] \in Index /\ n[d[s].elements[i]] > 0
             /\ ~IsArrayIn(c, d[s].elements[i])
  <2>1. CASE i = k
    BY <1>0, <1>4, <2>1
  <2>2. CASE i # k
    <3> DEFINE e == c[b].elements[i]
    <3>1. d[s].elements[i] = e /\ e # 0
      BY <1>0, <1>5, <2>2 DEF ElementsBut
    <3>2. e \in 0 .. Slots /\ ~IsArrayIn(c, e)
      BY <1>1, <1>4, <3>1 DEF Elementary
    <3>3. e \in Index
      <4> HIDE DEF e
      <4> QED
        BY <3>1, <3>2, NumberIs
    <3>4. n[e] > 0
      <4> HIDE DEF A, b
      <4> QED
        BY <1>1, <1>4, <3>3, ElementNamed DEF A
    <3> HIDE DEF e
    <3> QED
      BY <3>1, <3>2, <3>3, <3>4
  <2> QED
    BY <2>1, <2>2
<1>6. Cardinality(At(d, s, s)) = 0
  <2>1. ASSUME NEW i \in At(d, s, s) PROVE FALSE
    <3>1. i \in 1 .. Elements /\ d[s].elements[i] = s /\ s # 0
      BY HeapConstants DEF At
    <3>2. n[s] > 0
      BY <1>5, <3>1
    <3> QED
      BY <3>2
  <2>2. At(d, s, s) = {}
    BY <2>1
  <2> QED
    BY <2>2, FS_EmptySet
<1>7. ASSUME NEW r \in Index, r # s, m[r] > 0 PROVE n[r] > 0 /\ d[r] = c[r]
  <2>1. CASE n[r] = 0
    <3>1. b # r
      BY <1>4, <2>1
    <3>2. m[r] = Cardinality(At(d, s, r)) - One(r = b) + 0
      <4>1. m[r] = n[r] + Cardinality(At(d, s, r)) - One(r = b) /\ Cardinality(At(d, s, r)) \in Nat
        BY <1>0, <1>7, AtCounts
      <4> HIDE DEF b
      <4> QED
        BY <2>1, <4>1 DEF One
    <3>3. Cardinality(At(d, s, r)) # 0
      <4> HIDE DEF b
      <4> QED
        BY <1>7, <3>1, <3>2 DEF One
    <3>4. PICK i \in At(d, s, r) : TRUE
      BY <3>3, FS_EmptySet
    <3>5. n[r] > 0
      <4>1. i \in 1 .. Elements /\ d[s].elements[i] = r /\ r # 0
        BY HeapConstants DEF At
      <4> QED
        BY <1>5, <4>1
    <3> QED
      BY <2>1, <3>5
  <2>2. CASE n[r] # 0
    <3>1. n[r] > 0
      BY <1>4, <2>2
    <3> QED
      BY <1>0, <3>1
  <2> QED
    BY <2>1, <2>2
<1>8. j \in [Heap!Places -> 0 .. Slots] /\ j[p] = s /\ \A x \in Heap!Places : x # p => j[x] = h[x]
  BY <1>4
<1>9. HandlesTyped(j, a, g)
  <2> HIDE DEF j
  <2> QED
    BY <1>1, <1>8 DEF HandlesTyped
<1>10. B \subseteq A \cup {s} /\ s \notin A /\ s \in B
  <2>1. ASSUME NEW x \in B, x # s PROVE x \in A
    <3>1. x \in Index /\ m[x] > 0 /\ IsArrayIn(d, x)
      BY <2>1 DEF Arrays
    <3>2. n[x] > 0 /\ IsArrayIn(c, x)
      BY <1>7, <2>1, <3>1 DEF IsArrayIn
    <3> QED
      BY <1>2, <3>1, <3>2 DEF Arrays
  <2>2. s \notin A
    BY DEF Arrays
  <2>3. s \in B
    <3> HIDE DEF j
    <3> QED
      BY <1>0, <1>2 DEF Arrays
  <2> HIDE DEF A, B
  <2> QED
    BY <2>1, <2>2, <2>3
<1>11. \A x \in A \cap B : d[x].elements = c[x].elements
  BY <1>0 DEF Arrays
<1>12. Counted(m, d, j, a, g)
  <2>1. ASSUME NEW r \in Index
        PROVE  Cardinality(NamedBy(j, r)) + Cardinality(ElementIn(d, B, r)) <= m[r]
    <3>1. Cardinality(NamedBy(j, r)) <= Cardinality(NamedBy(h, r)) - One(b = r) + One(s = r)
      BY <1>4, HandleChange
    <3>2. Cardinality(ElementIn(d, B, r)) <=
            Cardinality(ElementIn(c, A, r)) + Cardinality(At(d, s, r))
      BY <1>4, <1>10, <1>11, ElementsGain
    <3>3. /\ n[r] \in Nat /\ Cardinality(NamedBy(h, r)) \in Nat
          /\ Cardinality(ElementIn(c, A, r)) \in Nat
          /\ Cardinality(NamedBy(h, r)) + Cardinality(ElementIn(c, A, r)) <= n[r]
      BY <1>1, CardsAre
    <3>4. /\ Cardinality(NamedBy(j, r)) \in Nat /\ Cardinality(ElementIn(d, B, r)) \in Nat
          /\ Cardinality(At(d, s, r)) \in Nat
      BY <1>4, NamesFinite, AtCounts
    <3>5. m[r] >= n[r] - One(b = r) + One(s = r) + Cardinality(At(d, s, r))
      <4>1. CASE r = s
        <5> HIDE DEF b
        <5> QED
          BY <1>0, <1>4, <1>6, <4>1 DEF One
      <4>2. CASE r # s
        <5>1. m[r] = n[r] + Cardinality(At(d, s, r)) - One(r = b)
          BY <1>0, <4>2
        <5> HIDE DEF b
        <5> QED
          BY <3>3, <3>4, <4>2, <5>1 DEF One
      <4> QED
        BY <4>1, <4>2
    <3> DEFINE x == One(b = r)
               y == One(s = r)
               z == Cardinality(At(d, s, r))
    <3>6. x \in Nat /\ y \in Nat /\ z \in Nat /\ m[r] \in Nat
      BY <1>0, <3>4 DEF One
    <3> HIDE DEF j, A, B, b, x, y, z
    <3>7. Cardinality(NamedBy(j, r)) <= Cardinality(NamedBy(h, r)) - x + y
      BY <3>1 DEF x, y
    <3>8. Cardinality(ElementIn(d, B, r)) <= Cardinality(ElementIn(c, A, r)) + z
      BY <3>2 DEF z
    <3>9. m[r] >= n[r] - x + y + z
      BY <3>5 DEF x, y, z
    <3> QED
      BY <3>3, <3>4, <3>6, <3>7, <3>8, <3>9
  <2> HIDE DEF j
  <2> QED
    BY <1>0, <2>1 DEF Counted
<1>13. SameStrings(n, c, m, d)
  BY <1>0 DEF SameStrings
<1>14. Elementary(m, d, j, a, g)
  <2>1. ASSUME NEW x \in Index, m[x] > 0 PROVE d[x] \in Entries
    <3>1. CASE x # s
      BY <1>1, <1>7, <2>1, <3>1 DEF Elementary
    <3> QED
      BY <1>0, <3>1
  <2>2. ASSUME NEW x \in B
        PROVE  /\ d[x].elements \in [1 .. Elements -> 0 .. Slots]
               /\ \A i \in 1 .. Elements : d[x].elements[i] # 0 => ~IsArrayIn(d, d[x].elements[i])
    <3>1. CASE x # s
      <4>1. x \in A \cap B /\ d[x].elements = c[x].elements
        BY <1>10, <1>11, <3>1
      <4> QED
        BY <1>1, <1>12, <1>13, <4>1, ElementsStay
    <3>2. CASE x = s
      <4>1. ASSUME NEW i \in 1 .. Elements, d[s].elements[i] # 0
            PROVE  ~IsArrayIn(d, d[s].elements[i])
        BY <1>0, <1>5, <4>1 DEF IsArrayIn
      <4> QED
        BY <1>0, <3>2, <4>1
    <3> QED
      BY <3>1, <3>2
  <2> HIDE DEF j
  <2> QED
    BY <2>1, <2>2 DEF Elementary
<1>15. /\ HasValue(c, b, v[p]) /\ v[p].isArray
       /\ v[q].texts[1] = c[new].text
       /\ v[p] \in [isArray : BOOLEAN, texts : Seq(HeapTexts)]
       /\ v[q].texts[1] \in HeapTexts
  <2>1. HasValue(c, b, v[p]) /\ HasValue(c, new, v[q])
    BY <1>1, <1>3 DEF Valued
  <2>2. v[p].isArray /\ v[q].texts[1] = c[new].text /\ v[q].texts # <<>>
    BY <2>1 DEF HasValue
  <2>3. v[p] \in [isArray : BOOLEAN, texts : Seq(HeapTexts)] /\ v[q].texts \in Seq(HeapTexts)
    BY KeptHas
  <2>4. v[q].texts[1] \in HeapTexts
    BY <2>2, <2>3
  <2> QED
    BY <2>1, <2>2, <2>3, <2>4
<1>16. HasValue(d, s, Assigned(v[p], k, v[q].texts[1]))
  <2>1. ASSUME NEW x \in 1 .. Elements, x # k
        PROVE  TextOf(d, c[b].elements[x]) = TextOf(c, c[b].elements[x])
    <3>1. d[s].elements[x] = c[b].elements[x]
      BY <1>0, <2>1 DEF ElementsBut
    <3>2. CASE c[b].elements[x] = 0
      BY <3>2 DEF TextOf
    <3>3. CASE c[b].elements[x] # 0
      <4>1. d[c[b].elements[x]] = c[c[b].elements[x]]
        BY <1>0, <1>5, <3>1, <3>3
      <4> QED
        BY <4>1 DEF TextOf
    <3> QED
      BY <3>2, <3>3
  <2>2. TextOf(d, d[s].elements[k]) = v[q].texts[1]
    <3>1. d[s].elements[k] = new /\ new # 0 /\ d[new] = c[new]
      BY <1>0, <1>4
    <3> QED
      BY <1>15, <3>1 DEF TextOf
  <2> DEFINE text == v[q].texts[1]
             val == v[p]
  <2>3. /\ HasValue(c, b, val) /\ val.isArray /\ val \in [isArray : BOOLEAN, texts : Seq(HeapTexts)]
        /\ text \in HeapTexts /\ b \in Index /\ ElementsBut(c, b, d, s, k)
        /\ TextOf(d, d[s].elements[k]) = text
    BY <1>0, <1>4, <1>15, <2>2
  <2> HIDE DEF b, text, val
  <2> QED
    BY <1>0, <2>1, <2>3, AssignedValue DEF text, val
<1>17. /\ w \in [Heap!Places -> [isArray : BOOLEAN, texts : Seq(HeapTexts)]]
       /\ w[p] = Assigned(v[p], k, v[q].texts[1])
       /\ \A x \in Heap!Places : x # p => w[x] = v[x]
  <2> DEFINE X == Assigned(v[p], k, v[q].texts[1])
  <2>1. X \in [isArray : BOOLEAN, texts : Seq(HeapTexts)]
    BY <1>15, AssignedIs DEF HasValue
  <2> HIDE DEF X
  <2>2. /\ [v EXCEPT ![p] = X] \in [Heap!Places -> [isArray : BOOLEAN, texts : Seq(HeapTexts)]]
        /\ [v EXCEPT ![p] = X][p] = X
        /\ \A x \in Heap!Places : x # p => [v EXCEPT ![p] = X][x] = v[x]
    BY <2>1, KeptHas
  <2> QED
    BY <2>2 DEF X
<1>18. ASSUME NEW x \in LiveIn(j, a, g) PROVE HasValue(d, j[x], w[x])
  <2> HIDE DEF j, w
  <2>1. CASE x = p
    BY <1>8, <1>16, <1>17, <2>1
  <2>2. CASE x # p
    <3>1. x \in Heap!Places /\ j[x] = h[x] /\ w[x] = v[x] /\ x \in LiveIn(h, a, g)
      BY <1>8, <1>17, <1>18, <2>2 DEF LiveIn
    <3>2. HasValue(c, h[x], v[x])
      BY <1>1, <3>1 DEF Valued
    <3>3. h[x] \in Index /\ n[h[x]] > 0
      BY <1>1, <3>1, LiveIsAlive
    <3>4. d[h[x]] = c[h[x]]
      BY <1>0, <3>3
    <3>5. HasValue(d, j[x], v[x])
      BY <1>1, <1>9, <1>12, <1>13, <1>18, <3>1, <3>2, <3>4, ValueStays
    <3> QED
      BY <3>1, <3>5
  <2> QED
    BY <2>1, <2>2
<1>19. Valued(d, j, a, g, w)
  BY <1>17, <1>18 DEF Valued
<1> QED
  BY <1>9, <1>12, <1>14, <1>19 DEF Kept

-----------------------------------------------------------------------------
(* Storage.                                                                *)

\* The entries of a block that are in use, and the block without the others.
UsedIn(entries, k) == {i \in 1 .. k : ~entries[i].free}
InUse(entries) == UsedIn(entries, Len(entries))
Closed(entries) ==
  [i \in 1 .. Cardinality(InUse(entries)) |->
     entries[CHOOSE k \in InUse(entries) : Cardinality(UsedIn(entries, k)) = i]]

\* The entries of a block that are in use can be counted.
LEMMA UsedCounts ==
  ASSUME NEW entries, NEW k \in Nat
  PROVE  IsFiniteSet(UsedIn(entries, k)) /\ Cardinality(UsedIn(entries, k)) \in Nat
<1>1. UsedIn(entries, k) \in SUBSET (1 .. k)
  BY DEF UsedIn
<1> QED
  BY <1>1, NumbersFinite, FS_Subset, FS_CardinalityType

LEMMA UsedGrows ==
  ASSUME NEW entries, NEW i \in Nat, NEW k \in Nat, i < k, ~entries[k].free
  PROVE  Cardinality(UsedIn(entries, i)) < Cardinality(UsedIn(entries, k))
<1>1. UsedIn(entries, i) \cup {k} \subseteq UsedIn(entries, k) /\ k \notin UsedIn(entries, i)
  BY DEF UsedIn
<1>2. Cardinality(UsedIn(entries, i) \cup {k}) = Cardinality(UsedIn(entries, i)) + 1
  BY <1>1, UsedCounts, FS_AddElement
<1>3. Cardinality(UsedIn(entries, i) \cup {k}) <= Cardinality(UsedIn(entries, k))
  BY <1>1, UsedCounts, FS_Subset
<1> QED
  BY <1>2, <1>3, UsedCounts

\* Where an entry in use moves to.
LEMMA Ranks ==
  ASSUME NEW entries \in Seq(Entries)
  PROVE  /\ Cardinality(InUse(entries)) \in Nat
         /\ \A k \in InUse(entries) :
              Cardinality(UsedIn(entries, k)) \in 1 .. Cardinality(InUse(entries))
         /\ \A i, k \in InUse(entries) :
              Cardinality(UsedIn(entries, i)) = Cardinality(UsedIn(entries, k)) => i = k
         /\ \A r \in 1 .. Cardinality(InUse(entries)) :
              \E k \in InUse(entries) : Cardinality(UsedIn(entries, k)) = r
<1> DEFINE U == InUse(entries)
           rank(k) == Cardinality(UsedIn(entries, k))
           f == [k \in U |-> rank(k)]
<1>1. Len(entries) \in Nat
  BY LenProperties
<1>2. IsFiniteSet(U) /\ Cardinality(U) \in Nat
  BY <1>1, UsedCounts DEF InUse
<1>3. ASSUME NEW k \in U PROVE k \in Nat /\ k \in 1 .. Len(entries) /\ ~entries[k].free
  BY DEF InUse, UsedIn
<1>4. ASSUME NEW k \in U PROVE rank(k) \in 1 .. Cardinality(U)
  <2>1. k \in UsedIn(entries, k) /\ UsedIn(entries, k) \subseteq U
    BY <1>1, <1>3 DEF UsedIn, InUse
  <2>2. IsFiniteSet(UsedIn(entries, k)) /\ rank(k) \in Nat
    BY <1>3, UsedCounts
  <2>3. rank(k) <= Cardinality(U)
    BY <1>2, <2>1, FS_Subset
  <2>4. rank(k) # 0
    BY <2>1, <2>2, FS_EmptySet
  <2> HIDE DEF rank, U
  <2> QED
    BY <1>2, <2>2, <2>3, <2>4
<1>5. ASSUME NEW i \in U, NEW k \in U, rank(i) = rank(k) PROVE i = k
  <2>1. i \in Nat /\ k \in Nat /\ ~entries[i].free /\ ~entries[k].free
    BY <1>3
  <2>2. rank(i) \in Nat /\ rank(k) \in Nat
    BY <2>1, UsedCounts
  <2>3. CASE i < k
    <3>1. rank(i) < rank(k)
      BY <2>1, <2>3, UsedGrows
    <3> HIDE DEF rank
    <3> QED
      BY <1>5, <2>2, <3>1
  <2>4. CASE k < i
    <3>1. rank(k) < rank(i)
      BY <2>1, <2>4, UsedGrows
    <3> HIDE DEF rank
    <3> QED
      BY <1>5, <2>2, <3>1
  <2> HIDE DEF rank
  <2> QED
    BY <2>1, <2>3, <2>4
<1>6. f \in Injection(U, 1 .. Cardinality(U))
  <2>1. f \in [U -> 1 .. Cardinality(U)]
    BY <1>4
  <2>2. \A i, k \in U : f[i] = f[k] => i = k
    <3> SUFFICES ASSUME NEW i \in U, NEW k \in U, f[i] = f[k] PROVE i = k
      OBVIOUS
    <3>1. rank(i) = rank(k)
      OBVIOUS
    <3> HIDE DEF rank, f
    <3> QED
      BY <1>5, <3>1
  <2> HIDE DEF f, U
  <2> QED
    BY <2>1, <2>2 DEF Injection, IsInjective
<1>7. IsFiniteSet(1 .. Cardinality(U)) /\ Cardinality(1 .. Cardinality(U)) = Cardinality(U)
  <2>1. 1 \in Int /\ Cardinality(U) \in Int /\ Cardinality(U) - 1 + 1 = Cardinality(U)
    BY <1>2
  <2>2. Cardinality(1 .. Cardinality(U)) =
          IF 1 > Cardinality(U) THEN 0 ELSE Cardinality(U) - 1 + 1
    BY <2>1, FS_Interval
  <2> HIDE DEF U
  <2> QED
    BY <1>2, <2>2, NumbersFinite
<1>8. f \in Surjection(U, 1 .. Cardinality(U))
  <2> HIDE DEF f, U
  <2> QED
    BY <1>6, <1>7, FS_Injection
<1>9. ASSUME NEW r \in 1 .. Cardinality(U) PROVE \E k \in U : rank(k) = r
  <2>1. PICK k \in U : f[k] = r
    <3> HIDE DEF f, U
    <3> QED
      BY <1>8 DEF Surjection
  <2> QED
    BY <2>1
<1> HIDE DEF f
<1> QED
  BY <1>2, <1>4, <1>5, <1>9

\* Each entry in use is found again at its rank.
LEMMA ClosedKeeps ==
  ASSUME NEW entries \in Seq(Entries)
  PROVE  /\ Closed(entries) \in Seq(Entries)
         /\ \A k \in InUse(entries) :
              /\ Cardinality(UsedIn(entries, k)) \in DOMAIN Closed(entries)
              /\ Closed(entries)[Cardinality(UsedIn(entries, k))] = entries[k]
<1> DEFINE U == InUse(entries)
           rank(k) == Cardinality(UsedIn(entries, k))
           N == Cardinality(U)
           at1(i) == CHOOSE k \in U : rank(k) = i
<1>1. /\ N \in Nat /\ (\A k \in U : rank(k) \in 1 .. N)
      /\ (\A i, k \in U : rank(i) = rank(k) => i = k)
      /\ (\A r \in 1 .. N : \E k \in U : rank(k) = r)
  BY Ranks
<1>2. Closed(entries) = [i \in 1 .. N |-> entries[at1(i)]]
  BY DEF Closed
<1>3. ASSUME NEW k \in U PROVE entries[k] \in Entries
  BY ElementOfSeq DEF InUse, UsedIn
<1> HIDE DEF U, rank, N
<1>4. ASSUME NEW i \in 1 .. N PROVE at1(i) \in U /\ rank(at1(i)) = i
  BY <1>1
<1>5. \A i \in 1 .. N : entries[at1(i)] \in Entries
  BY <1>3, <1>4
<1>6. Closed(entries) \in Seq(Entries)
  <2>1. Closed(entries) \in [1 .. N -> Entries]
    BY <1>2, <1>5
  <2> QED
    BY <1>1, <2>1, SeqDef
<1>7. ASSUME NEW k \in U PROVE rank(k) \in DOMAIN Closed(entries) /\ Closed(entries)[rank(k)] = entries[k]
  <2>1. rank(k) \in 1 .. N /\ DOMAIN Closed(entries) = 1 .. N
    BY <1>1, <1>2
  <2>2. at1(rank(k)) \in U /\ rank(at1(rank(k))) = rank(k)
    BY <1>4, <2>1
  <2>3. at1(rank(k)) = k
    <3> HIDE DEF at1
    <3> QED
      BY <1>1, <2>2
  <2>4. Closed(entries)[rank(k)] = entries[at1(rank(k))]
    BY <1>2, <2>1
  <2> HIDE DEF at1
  <2> QED
    BY <2>1, <2>3, <2>4
<1> QED
  BY <1>6, <1>7 DEF U, rank

\* A collection keeps what the slots hold.
Moved(blocks, address) ==
  IF address = <<0, 0>> THEN <<0, 0>>
  ELSE <<address[1], Cardinality(UsedIn(blocks[address[1]], address[2]))>>

ClosedBlocks(blocks) == [b \in DOMAIN blocks |-> Closed(blocks[b])]
AdjustedTo(blocks, index) ==
  [s \in Index |-> [index[s] EXCEPT !.storage = Moved(blocks, index[s].storage)]]

\* The collection of the heap is that of any blocks and index.
LEMMA CollectionIs ==
  Heap!Collected = ClosedBlocks(block) /\ Heap!Adjusted = AdjustedTo(block, slot)
<1>1. Heap!Collected = ClosedBlocks(block)
  BY DEF Heap!Collected, Heap!Movable, Heap!UsedUpTo, ClosedBlocks, Closed, InUse, UsedIn,
         Heap!Cardinality, Cardinality
<1>2. ASSUME NEW s \in Index
      PROVE  Heap!Adjusted[s] = [slot[s] EXCEPT !.storage = Moved(block, slot[s].storage)]
  <2>1. Heap!MovedTo(slot[s].storage) = Moved(block, slot[s].storage)
    BY DEF Heap!MovedTo, Moved, Heap!Nowhere, Heap!UsedUpTo, UsedIn, Heap!Cardinality, Cardinality
  <2>2. Heap!Adjusted[s] = [slot[s] EXCEPT !.storage = Heap!MovedTo(slot[s].storage)]
    BY DEF Heap!Adjusted, Index
  <2> QED
    BY <2>1, <2>2
<1>3. Heap!Adjusted = AdjustedTo(block, slot)
  BY <1>2 DEF Heap!Adjusted, AdjustedTo, Index
<1> QED
  BY <1>1, <1>3

\* What is known of blocks and index where slots are stored.
LEMMA StoredHas ==
  ASSUME NEW blocks, NEW index, Stored(blocks, index)
  PROVE  /\ blocks \in Seq(Seq(Entries)) /\ Len(blocks) \in Nat /\ DOMAIN blocks = 1 .. Len(blocks)
         /\ \A b \in DOMAIN blocks :
              /\ blocks[b] \in Seq(Entries) /\ Len(blocks[b]) \in Nat
              /\ DOMAIN blocks[b] = 1 .. Len(blocks[b])
              /\ \A k \in DOMAIN blocks[b] : blocks[b][k] \in Entries
         /\ \A s \in Index :
              /\ index[s].refCount \in Nat /\ index[s] = [refCount |-> index[s].refCount, storage |-> index[s].storage]
              /\ index[s].storage = <<index[s].storage[1], index[s].storage[2]>>
              /\ index[s].storage[1] \in Nat /\ index[s].storage[2] \in Nat
<1>1. blocks \in Seq(Seq(Entries)) /\ Len(blocks) \in Nat /\ DOMAIN blocks = 1 .. Len(blocks)
  BY LenProperties DEF Stored
<1>2. ASSUME NEW b \in DOMAIN blocks
      PROVE  /\ blocks[b] \in Seq(Entries) /\ Len(blocks[b]) \in Nat
             /\ DOMAIN blocks[b] = 1 .. Len(blocks[b])
             /\ \A k \in DOMAIN blocks[b] : blocks[b][k] \in Entries
  <2>1. blocks[b] \in Seq(Entries)
    BY <1>1, ElementOfSeq
  <2>2. Len(blocks[b]) \in Nat /\ DOMAIN blocks[b] = 1 .. Len(blocks[b])
    BY <2>1, LenProperties
  <2>3. \A k \in DOMAIN blocks[b] : blocks[b][k] \in Entries
    BY <2>1, <2>2, ElementOfSeq
  <2> QED
    BY <2>1, <2>2, <2>3
<1>3. ASSUME NEW s \in Index
      PROVE  /\ index[s].refCount \in Nat /\ index[s] = [refCount |-> index[s].refCount, storage |-> index[s].storage]
             /\ index[s].storage = <<index[s].storage[1], index[s].storage[2]>>
             /\ index[s].storage[1] \in Nat /\ index[s].storage[2] \in Nat
  <2>1. index[s] \in [refCount : Nat, storage : Nat \X Nat]
    BY DEF Stored
  <2> QED
    BY <2>1
<1> QED
  BY <1>1, <1>2, <1>3

\* A slot.
LEMMA SlotHas ==
  ASSUME NEW blocks, NEW index, Stored(blocks, index), NEW s \in Index
  PROVE  /\ index[s].refCount \in Nat
         /\ index[s].storage = <<index[s].storage[1], index[s].storage[2]>>
BY StoredHas

\* A collection changes no count.
LEMMA MovedCount ==
  ASSUME NEW blocks, NEW index, Stored(blocks, index), NEW s \in Index
  PROVE  AdjustedTo(blocks, index)[s].refCount = index[s].refCount
<1>1. index[s] = [refCount |-> index[s].refCount, storage |-> index[s].storage]
  BY StoredHas
<1>2. AdjustedTo(blocks, index)[s] = [index[s] EXCEPT !.storage = Moved(blocks, index[s].storage)]
  BY DEF AdjustedTo
<1> QED
  BY <1>1, <1>2

\* A slot after the collection.
LEMMA MovedIs ==
  ASSUME NEW blocks, NEW index, Stored(blocks, index), NEW s \in Index
  PROVE  /\ AdjustedTo(blocks, index)[s].refCount = index[s].refCount
         /\ AdjustedTo(blocks, index)[s].storage = Moved(blocks, index[s].storage)
         /\ AdjustedTo(blocks, index)[s] =
              [refCount |-> index[s].refCount, storage |-> Moved(blocks, index[s].storage)]
<1>1. index[s] = [refCount |-> index[s].refCount, storage |-> index[s].storage]
  BY StoredHas
<1>2. AdjustedTo(blocks, index)[s] = [index[s] EXCEPT !.storage = Moved(blocks, index[s].storage)]
  BY DEF AdjustedTo
<1>3. AdjustedTo(blocks, index)[s] =
        [refCount |-> index[s].refCount, storage |-> Moved(blocks, index[s].storage)]
  BY <1>1, <1>2
<1> QED
  BY <1>3

\* The slots a and b of a collected heap, where they were.
LEMMA MovesTo ==
  ASSUME NEW blocks, NEW index, Stored(blocks, index), NEW s \in Index, index[s].refCount # 0,
         NEW b, b = index[s].storage[1], NEW k, k = index[s].storage[2],
         NEW r, r = Cardinality(UsedIn(blocks[b], k))
  PROVE  /\ b \in DOMAIN blocks /\ k \in InUse(blocks[b]) /\ blocks[b] \in Seq(Entries)
         /\ b \in Nat /\ r \in Nat /\ index[s].storage = <<b, k>>
         /\ AdjustedTo(blocks, index)[s].storage = <<b, r>>
         /\ r \in DOMAIN ClosedBlocks(blocks)[b] /\ ClosedBlocks(blocks)[b][r] = blocks[b][k]
         /\ ~blocks[b][k].free
<1>1. b \in DOMAIN blocks /\ k \in DOMAIN blocks[b] /\ ~blocks[b][k].free
  BY DEF Stored
<1>2. /\ k \in 1 .. Len(blocks[b]) /\ blocks[b] \in Seq(Entries) /\ b \in 1 .. Len(blocks)
      /\ b \in Nat /\ k \in Nat /\ index[s].storage = <<b, k>>
  BY <1>1, StoredHas
<1>3. k \in InUse(blocks[b])
  BY <1>1, <1>2 DEF InUse, UsedIn
<1>4. ClosedBlocks(blocks)[b] = Closed(blocks[b])
  BY <1>1 DEF ClosedBlocks
<1>5. r \in DOMAIN Closed(blocks[b]) /\ Closed(blocks[b])[r] = blocks[b][k]
  BY <1>2, <1>3, ClosedKeeps
<1>6. r \in Nat
  BY <1>2, UsedCounts
<1>7. Moved(blocks, index[s].storage) = <<b, r>>
  <2>1. b # 0
    BY <1>2
  <2> QED
    BY <1>2, <2>1 DEF Moved
<1>8. AdjustedTo(blocks, index)[s].storage = <<b, r>>
  BY <1>7, MovedIs
<1> QED
  BY <1>1, <1>2, <1>3, <1>4, <1>5, <1>6, <1>8

\* A collection moves what slots name and changes none of it.
LEMMA CollectKeeps ==
  ASSUME NEW blocks, NEW index, Stored(blocks, index)
  PROVE  /\ Stored(ClosedBlocks(blocks), AdjustedTo(blocks, index))
         /\ \A s \in Index : AdjustedTo(blocks, index)[s].refCount = index[s].refCount
         /\ Holding(ClosedBlocks(blocks), AdjustedTo(blocks, index)) = Holding(blocks, index)
<1> DEFINE B(s) == index[s].storage[1]
           K(s) == index[s].storage[2]
           rank(s) == Cardinality(UsedIn(blocks[B(s)], K(s)))
           closed == ClosedBlocks(blocks)
           moved == AdjustedTo(blocks, index)
<1>1. closed \in Seq(Seq(Entries)) /\ DOMAIN closed = DOMAIN blocks
  <2>1. \A b \in DOMAIN blocks : Closed(blocks[b]) \in Seq(Entries)
    BY StoredHas, ClosedKeeps
  <2>2. DOMAIN blocks = 1 .. Len(blocks) /\ Len(blocks) \in Nat
    BY StoredHas
  <2>3. closed \in [DOMAIN blocks -> Seq(Entries)] /\ DOMAIN closed = DOMAIN blocks
    BY <2>1 DEF ClosedBlocks
  <2> HIDE DEF closed
  <2>4. closed \in [1 .. Len(blocks) -> Seq(Entries)]
    BY <2>2, <2>3
  <2>5. closed \in Seq(Seq(Entries))
    BY <2>2, <2>4, SeqDef
  <2> QED
    BY <2>3, <2>5
<1>2. ASSUME NEW s \in Index PROVE moved[s].refCount = index[s].refCount /\ index[s].refCount \in Nat
  <2>1. moved[s].refCount = index[s].refCount
    BY MovedCount
  <2>2. index[s].refCount \in Nat
    BY SlotHas
  <2> QED
    BY <2>1, <2>2
<1>3. ASSUME NEW s \in Index, index[s].refCount # 0
      PROVE  /\ B(s) \in DOMAIN blocks /\ K(s) \in InUse(blocks[B(s)]) /\ blocks[B(s)] \in Seq(Entries)
             /\ B(s) \in Nat /\ rank(s) \in Nat /\ index[s].storage = <<B(s), K(s)>>
             /\ moved[s].storage = <<B(s), rank(s)>>
             /\ rank(s) \in DOMAIN closed[B(s)] /\ closed[B(s)][rank(s)] = blocks[B(s)][K(s)]
             /\ ~blocks[B(s)][K(s)].free
  BY <1>3, MovesTo
<1>4. ASSUME NEW s \in Index, index[s].refCount = 0 PROVE moved[s] = Heap!FreeSlot
  <2>1. index[s] = Heap!FreeSlot
    BY <1>4 DEF Stored
  <2>2. Moved(blocks, index[s].storage) = <<0, 0>>
    BY <2>1 DEF Moved, Heap!FreeSlot, Heap!Nowhere
  <2>3. moved[s] = [refCount |-> 0, storage |-> <<0, 0>>]
    BY <1>4, <2>2, MovedIs
  <2> HIDE DEF moved
  <2> QED
    BY <2>3 DEF Heap!FreeSlot, Heap!Nowhere
<1> HIDE DEF B, K, rank, closed
<1>5. moved \in [Index -> [refCount : Nat, storage : Nat \X Nat]]
  <2>1. ASSUME NEW s \in Index PROVE moved[s] \in [refCount : Nat, storage : Nat \X Nat]
    <3>1. CASE index[s].refCount = 0
      <4> HIDE DEF moved
      <4>1. moved[s] = [refCount |-> 0, storage |-> <<0, 0>>]
        BY <1>4, <3>1 DEF Heap!FreeSlot, Heap!Nowhere
      <4> QED
        BY <4>1
    <3>2. CASE index[s].refCount # 0
      <4> HIDE DEF moved
      <4>1. B(s) \in Nat /\ rank(s) \in Nat /\ moved[s].storage = <<B(s), rank(s)>>
        BY <1>3, <3>2
      <4>2. index[s].refCount \in Nat
        BY <1>2
      <4> DEFINE to == Moved(blocks, index[s].storage)
      <4>3. moved[s].storage = to /\ moved[s] = [refCount |-> index[s].refCount, storage |-> to]
        BY MovedIs DEF moved
      <4> HIDE DEF to
      <4> QED
        BY <4>1, <4>2, <4>3
    <3> QED
      BY <3>1, <3>2
  <2>2. moved = [s \in Index |-> moved[s]]
    BY DEF AdjustedTo
  <2> HIDE DEF moved
  <2> QED
    BY <2>1, <2>2
<1> HIDE DEF moved
<1>6. ASSUME NEW s \in Index, moved[s].refCount # 0
      PROVE  /\ index[s].refCount # 0
             /\ moved[s].storage[1] \in DOMAIN closed
             /\ moved[s].storage[2] \in DOMAIN closed[moved[s].storage[1]]
             /\ ~closed[moved[s].storage[1]][moved[s].storage[2]].free
             /\ closed[moved[s].storage[1]][moved[s].storage[2]] = blocks[B(s)][K(s)]
  <2>1. index[s].refCount # 0
    BY <1>2, <1>6
  <2>2. moved[s].storage[1] = B(s) /\ moved[s].storage[2] = rank(s)
    BY <1>3, <2>1
  <2>3. /\ B(s) \in DOMAIN closed /\ rank(s) \in DOMAIN closed[B(s)]
        /\ closed[B(s)][rank(s)] = blocks[B(s)][K(s)] /\ ~blocks[B(s)][K(s)].free
    BY <1>1, <1>3, <2>1
  <2> QED
    BY <2>1, <2>2, <2>3
<1>7. ASSUME NEW r \in Index, NEW s \in Index, moved[r].refCount > 0, moved[s].refCount > 0,
             moved[r].storage = moved[s].storage
      PROVE  r = s
  <2>1. /\ index[r].refCount # 0 /\ index[s].refCount # 0
        /\ index[r].refCount > 0 /\ index[s].refCount > 0
    BY <1>2, <1>7
  <2>2. moved[r].storage = <<B(r), rank(r)>> /\ moved[s].storage = <<B(s), rank(s)>>
    BY <1>3, <2>1
  <2>3. B(r) = B(s) /\ rank(r) = rank(s)
    <3>1. <<B(r), rank(r)>> = <<B(s), rank(s)>>
      BY <1>7, <2>2, Zenon
    <3> QED
      BY <3>1
  <2>4. /\ K(r) \in InUse(blocks[B(r)]) /\ K(s) \in InUse(blocks[B(s)])
        /\ blocks[B(r)] \in Seq(Entries)
        /\ index[r].storage = <<B(r), K(r)>> /\ index[s].storage = <<B(s), K(s)>>
    BY <1>3, <2>1
  <2>5. K(r) = K(s)
    <3>1. Cardinality(UsedIn(blocks[B(r)], K(r))) = Cardinality(UsedIn(blocks[B(r)], K(s)))
      BY <2>3 DEF rank
    <3> QED
      BY <2>3, <2>4, <3>1, Ranks
  <2>6. index[r].storage = index[s].storage
    BY <2>3, <2>4, <2>5
  <2> QED
    BY <2>1, <2>6 DEF Stored
<1>8. Stored(closed, moved)
  <2>1. ASSUME NEW s \in Index, moved[s].refCount = 0 PROVE moved[s] = Heap!FreeSlot
    BY <1>2, <1>4, <2>1
  <2> QED
    BY <1>1, <1>5, <1>6, <1>7, <2>1 DEF Stored
<1>9. ASSUME NEW s \in Index PROVE Holding(closed, moved)[s] = Holding(blocks, index)[s]
  <2>1. CASE index[s].refCount = 0
    BY <1>2, <2>1 DEF Holding
  <2>2. CASE index[s].refCount # 0
    <3>1. index[s].refCount > 0 /\ moved[s].refCount > 0 /\ moved[s].refCount # 0
      BY <1>2, <2>2
    <3>2. Holding(closed, moved)[s] = blocks[B(s)][K(s)]
      BY <1>6, <3>1 DEF Holding
    <3>3. Holding(blocks, index)[s] = blocks[B(s)][K(s)]
      BY <3>1 DEF Holding, B, K
    <3> QED
      BY <3>2, <3>3
  <2> QED
    BY <2>1, <2>2
<1>10. Holding(closed, moved) = Holding(blocks, index)
  BY <1>9 DEF Holding
<1> QED
  BY <1>2, <1>8, <1>10 DEF closed, moved

\* A new entry is put where there is none.
LEMMA SmallestIn ==
  ASSUME NEW T \in SUBSET Nat, T # {}
  PROVE  Heap!Min(T) \in T
<1>1. \E x \in T : \A y \in T : x <= y
  BY Smallest
<1> QED
  BY <1>1 DEF Heap!Min

LEMMA LargestIn ==
  ASSUME NEW n \in Nat, NEW T \in SUBSET (1 .. n), T # {}
  PROVE  Heap!Max(T) \in T
<1> DEFINE S == {n - x : x \in T}
<1>1. S \in SUBSET Nat /\ S # {}
  <2>1. \A x \in T : n - x \in Nat
    OBVIOUS
  <2>2. PICK x \in T : TRUE
    OBVIOUS
  <2>3. n - x \in S
    OBVIOUS
  <2> QED
    BY <2>1, <2>3
<1>2. PICK z \in S : \A y \in S : z <= y
  <2> HIDE DEF S
  <2> QED
    BY <1>1, Smallest
<1>3. PICK x \in T : z = n - x
  OBVIOUS
<1>4. ASSUME NEW y \in T PROVE x >= y
  <2>1. n - x <= n - y
    BY <1>2, <1>3
  <2> HIDE DEF S
  <2> QED
    BY <2>1
<1>5. \E w \in T : \A y \in T : w >= y
  BY <1>4
<1> QED
  BY <1>5 DEF Heap!Max

\* An added entry is at its place and moves no other.
LEMMA PlaceKeeps ==
  ASSUME NEW blocks \in Seq(Seq(Entries)), NEW entry \in Entries,
         NEW more, more = Heap!Placed(blocks, entry), NEW to, to = Heap!PlaceOf(blocks, entry)
  PROVE  /\ more \in Seq(Seq(Entries))
         /\ to \in Nat \X Nat /\ to[1] \in DOMAIN more /\ to[2] \in DOMAIN more[to[1]]
         /\ more[to[1]][to[2]] = entry
         /\ \A b \in DOMAIN blocks : \A k \in DOMAIN blocks[b] :
              /\ b \in DOMAIN more /\ k \in DOMAIN more[b] /\ more[b][k] = blocks[b][k]
              /\ to # <<b, k>>
<1> DEFINE room == Heap!Fits(blocks, entry.length)
<1>1. Len(blocks) \in Nat /\ DOMAIN blocks = 1 .. Len(blocks)
  BY LenProperties
<1>2. ASSUME NEW b \in DOMAIN blocks
      PROVE  blocks[b] \in Seq(Entries) /\ Len(blocks[b]) \in Nat /\ DOMAIN blocks[b] = 1 .. Len(blocks[b])
  <2>1. blocks[b] \in Seq(Entries)
    BY <1>1, ElementOfSeq
  <2> QED
    BY <2>1, LenProperties
<1>3. room \in SUBSET (1 .. Len(blocks))
  BY <1>1 DEF Heap!Fits
<1>4. CASE room # {}
  <2> DEFINE b == Heap!Max(room)
             q == Append(blocks[b], entry)
  <2>1. b \in 1 .. Len(blocks) /\ b \in DOMAIN blocks
    <3> HIDE DEF room
    <3> QED
      BY <1>1, <1>3, <1>4, LargestIn
  <2>2. /\ more = [blocks EXCEPT ![b] = q] /\ to = <<b, Len(blocks[b]) + 1>>
    <3>1. more = [blocks EXCEPT ![b] = q]
      BY <1>4 DEF Heap!Placed
    <3>2. to = <<b, Len(blocks[b]) + 1>>
      BY <1>4 DEF Heap!PlaceOf
    <3> QED
      BY <3>1, <3>2
  <2> HIDE DEF b, room
  <2>3. /\ q \in Seq(Entries) /\ Len(q) = Len(blocks[b]) + 1 /\ q[Len(blocks[b]) + 1] = entry
        /\ (\A k \in 1 .. Len(blocks[b]) : q[k] = blocks[b][k])
        /\ DOMAIN q = 1 .. Len(blocks[b]) + 1
    <3>1. /\ q \in Seq(Entries) /\ Len(q) = Len(blocks[b]) + 1 /\ q[Len(blocks[b]) + 1] = entry
          /\ (\A k \in 1 .. Len(blocks[b]) : q[k] = blocks[b][k])
      BY <1>2, <2>1, AppendProperties
    <3>2. DOMAIN q = 1 .. Len(q)
      BY <3>1, LenProperties
    <3> QED
      BY <3>1, <3>2
  <2> HIDE DEF q
  <2>4. more \in Seq(Seq(Entries)) /\ DOMAIN more = DOMAIN blocks /\ more[b] = q
        /\ \A x \in DOMAIN blocks : x # b => more[x] = blocks[x]
    <3>1. [blocks EXCEPT ![b] = q] \in Seq(Seq(Entries))
      BY <2>1, <2>3, ExceptSeq
    <3>2. DOMAIN [blocks EXCEPT ![b] = q] = DOMAIN blocks /\ [blocks EXCEPT ![b] = q][b] = q
          /\ \A x \in DOMAIN blocks : x # b => [blocks EXCEPT ![b] = q][x] = blocks[x]
      BY <2>1
    <3> QED
      BY <2>2, <3>1, <3>2
  <2>5. Len(blocks[b]) \in Nat /\ DOMAIN blocks[b] = 1 .. Len(blocks[b]) /\ b \in Nat
    BY <1>1, <1>2, <2>1
  <2>6. /\ to \in Nat \X Nat /\ to[1] = b /\ to[2] = Len(blocks[b]) + 1
        /\ to[2] \in DOMAIN q
    BY <2>2, <2>3, <2>5
  <2>7. ASSUME NEW x \in DOMAIN blocks, NEW k \in DOMAIN blocks[x]
        PROVE  /\ x \in DOMAIN more /\ k \in DOMAIN more[x] /\ more[x][k] = blocks[x][k]
               /\ to # <<x, k>>
    <3>1. CASE x # b
      <4>1. more[x] = blocks[x] /\ to # <<x, k>>
        BY <2>4, <2>6, <3>1
      <4> QED
        BY <2>4, <4>1
    <3>2. CASE x = b
      <4>1. k \in 1 .. Len(blocks[b])
        BY <2>5, <2>7, <3>2
      <4>2. k # Len(blocks[b]) + 1 /\ k \in DOMAIN q
        BY <2>3, <2>5, <4>1
      <4>3. to # <<x, k>>
        BY <2>6, <4>2
      <4>4. more[x][k] = blocks[x][k] /\ more[x] = q
        BY <2>3, <2>4, <3>2, <4>1
      <4> QED
        BY <2>4, <4>2, <4>3, <4>4
    <3> QED
      BY <3>1, <3>2
  <2>8. to[1] \in DOMAIN more /\ to[2] \in DOMAIN more[to[1]] /\ more[to[1]][to[2]] = entry
    BY <2>1, <2>3, <2>4, <2>6
  <2> QED
    BY <2>4, <2>6, <2>7, <2>8
<1>5. CASE room = {}
  <2>1. more = Append(blocks, <<entry>>) /\ to = <<Len(blocks) + 1, 1>>
    BY <1>5 DEF Heap!Placed, Heap!PlaceOf
  <2>2. <<entry>> \in Seq(Entries) /\ DOMAIN <<entry>> = 1 .. 1 /\ <<entry>>[1] = entry
    OBVIOUS
  <2>3. /\ more \in Seq(Seq(Entries)) /\ Len(more) = Len(blocks) + 1
        /\ more[Len(blocks) + 1] = <<entry>> /\ \A x \in 1 .. Len(blocks) : more[x] = blocks[x]
    BY <2>1, <2>2, AppendProperties
  <2>4. DOMAIN more = 1 .. Len(blocks) + 1
    BY <2>3, LenProperties
  <2>5. ASSUME NEW x \in DOMAIN blocks, NEW k \in DOMAIN blocks[x]
        PROVE  /\ x \in DOMAIN more /\ k \in DOMAIN more[x] /\ more[x][k] = blocks[x][k]
               /\ to # <<x, k>>
    <3>1. x \in 1 .. Len(blocks) /\ x # Len(blocks) + 1 /\ x \in DOMAIN more
      BY <1>1, <2>4
    <3>2. more[x] = blocks[x]
      BY <2>3, <3>1
    <3>3. to # <<x, k>>
      BY <2>1, <3>1
    <3> QED
      BY <3>1, <3>2, <3>3
  <2>6. to \in Nat \X Nat /\ to[1] = Len(blocks) + 1 /\ to[2] = 1
    BY <1>1, <2>1
  <2>7. to[1] \in DOMAIN more /\ to[2] \in DOMAIN more[to[1]] /\ more[to[1]][to[2]] = entry
    <3>1. Len(blocks) + 1 \in DOMAIN more /\ 1 \in DOMAIN <<entry>> /\ <<entry>>[1] = entry
      BY <1>1, <2>2, <2>4
    <3> QED
      BY <2>3, <2>6, <3>1
  <2> QED
    BY <2>3, <2>5, <2>6, <2>7
<1> QED
  BY <1>4, <1>5

\* The index with a slot more.
WithSlot(index, n, s, to) ==
  [r \in Index |-> [refCount |-> n[r], storage |-> IF r = s THEN to ELSE index[r].storage]]

\* The other slots in use are those in use before.
SameInUse(index, n, s) == \A r \in Index : r # s => (n[r] = 0 <=> index[r].refCount = 0)

\* A new slot with its entry.
LEMMA NewSlotStored ==
  ASSUME NEW blocks, NEW index, Stored(blocks, index), NEW s \in Index, index[s].refCount = 0,
         NEW entry \in Entries, ~entry.free,
         NEW n \in [Index -> Nat], n[s] = 1, SameInUse(index, n, s)
  PROVE  LET more == Heap!Placed(blocks, entry)
             to == Heap!PlaceOf(blocks, entry)
             idx == WithSlot(index, n, s, to)
         IN  /\ Stored(more, idx)
             /\ \A r \in Index : idx[r].refCount = n[r]
             /\ Holding(more, idx)[s] = entry
             /\ \A r \in Index : index[r].refCount > 0
                                   => Holding(more, idx)[r] = Holding(blocks, index)[r]
<1> DEFINE more == Heap!Placed(blocks, entry)
           to == Heap!PlaceOf(blocks, entry)
           idx == WithSlot(index, n, s, to)
<1>1. /\ more \in Seq(Seq(Entries))
      /\ to \in Nat \X Nat /\ to[1] \in DOMAIN more /\ to[2] \in DOMAIN more[to[1]]
      /\ more[to[1]][to[2]] = entry
      /\ \A b \in DOMAIN blocks : \A k \in DOMAIN blocks[b] :
           /\ b \in DOMAIN more /\ k \in DOMAIN more[b] /\ more[b][k] = blocks[b][k]
           /\ to # <<b, k>>
  <2>1. blocks \in Seq(Seq(Entries))
    BY StoredHas
  <2> HIDE DEF more, to
  <2> QED
    BY <2>1, PlaceKeeps DEF more, to
<1> HIDE DEF more, to
<1>2. ASSUME NEW r \in Index
      PROVE  /\ idx[r] = [refCount |-> n[r], storage |-> IF r = s THEN to ELSE index[r].storage]
             /\ idx[r].refCount = n[r]
             /\ idx[r].storage = IF r = s THEN to ELSE index[r].storage
             /\ n[r] \in Nat /\ index[r].refCount \in Nat
  <2>1. idx[r] = [refCount |-> n[r], storage |-> IF r = s THEN to ELSE index[r].storage]
    BY DEF WithSlot
  <2>2. index[r].refCount \in Nat
    BY StoredHas
  <2> HIDE DEF idx
  <2> QED
    BY <2>1, <2>2
<1>3. idx = [r \in Index |-> idx[r]]
  BY DEF WithSlot
<1> HIDE DEF idx
<1>4. idx \in [Index -> [refCount : Nat, storage : Nat \X Nat]]
  <2>1. ASSUME NEW r \in Index PROVE idx[r] \in [refCount : Nat, storage : Nat \X Nat]
    <3>1. idx[r].storage \in Nat \X Nat
      <4>1. CASE r = s
        BY <1>1, <1>2, <4>1
      <4>2. CASE r # s
        <5>1. idx[r].storage = index[r].storage
          BY <1>2, <4>2
        <5>2. index[r].storage \in Nat \X Nat
          BY DEF Stored
        <5> QED
          BY <5>1, <5>2
      <4> QED
        BY <4>1, <4>2
    <3>2. idx[r] = [refCount |-> n[r], storage |-> idx[r].storage]
      BY <1>2
    <3> QED
      BY <1>2, <3>1, <3>2
  <2> QED
    BY <1>3, <2>1
<1>5. ASSUME NEW r \in Index, r # s, n[r] # 0
      PROVE  /\ index[r].refCount # 0 /\ index[r].refCount > 0
             /\ idx[r].storage = index[r].storage
             /\ index[r].storage = <<index[r].storage[1], index[r].storage[2]>>
             /\ index[r].storage[1] \in DOMAIN blocks
             /\ index[r].storage[2] \in DOMAIN blocks[index[r].storage[1]]
             /\ ~blocks[index[r].storage[1]][index[r].storage[2]].free
  <2>1. index[r].refCount # 0 /\ index[r].refCount > 0
    <3>1. index[r].refCount # 0
      BY <1>5 DEF SameInUse
    <3>2. index[r].refCount \in Nat
      BY <1>2
    <3> QED
      BY <3>1, <3>2
  <2>2. idx[r].storage = index[r].storage
    <3>1. idx[r].storage = IF r = s THEN to ELSE index[r].storage
      BY <1>2
    <3> QED
      BY <1>5, <3>1
  <2>3. index[r].storage = <<index[r].storage[1], index[r].storage[2]>>
    BY SlotHas
  <2>4. /\ index[r].storage[1] \in DOMAIN blocks
        /\ index[r].storage[2] \in DOMAIN blocks[index[r].storage[1]]
        /\ ~blocks[index[r].storage[1]][index[r].storage[2]].free
    BY <2>1 DEF Stored
  <2> QED
    BY <2>1, <2>2, <2>3, <2>4
<1>6. ASSUME NEW r \in Index, idx[r].refCount # 0
      PROVE  /\ idx[r].storage[1] \in DOMAIN more
             /\ idx[r].storage[2] \in DOMAIN more[idx[r].storage[1]]
             /\ ~more[idx[r].storage[1]][idx[r].storage[2]].free
             /\ r = s => more[idx[r].storage[1]][idx[r].storage[2]] = entry
             /\ r # s => more[idx[r].storage[1]][idx[r].storage[2]] =
                           blocks[index[r].storage[1]][index[r].storage[2]]
             /\ r # s => idx[r].storage # to
  <2>1. CASE r = s
    <3>1. idx[r].storage = to
      BY <1>2, <2>1
    <3> QED
      BY <1>1, <2>1, <3>1
  <2>2. CASE r # s
    <3>1. n[r] # 0
      BY <1>2, <1>6
    <3> DEFINE b == index[r].storage[1]
               k == index[r].storage[2]
    <3>2. /\ b \in DOMAIN blocks /\ k \in DOMAIN blocks[b] /\ ~blocks[b][k].free
          /\ idx[r].storage = index[r].storage /\ index[r].storage = <<b, k>>
      BY <1>5, <2>2, <3>1
    <3>3. b \in DOMAIN more /\ k \in DOMAIN more[b] /\ more[b][k] = blocks[b][k] /\ to # <<b, k>>
      BY <1>1, <3>2
    <3>4. idx[r].storage[1] = b /\ idx[r].storage[2] = k
      BY <3>2
    <3> HIDE DEF b, k
    <3>5. /\ idx[r].storage[1] \in DOMAIN more
          /\ idx[r].storage[2] \in DOMAIN more[idx[r].storage[1]]
          /\ more[idx[r].storage[1]][idx[r].storage[2]] = blocks[b][k]
          /\ ~blocks[b][k].free /\ idx[r].storage # to
      BY <3>2, <3>3, <3>4
    <3> QED
      BY <2>2, <3>5 DEF b, k
  <2> QED
    BY <2>1, <2>2
<1>7. ASSUME NEW q \in Index, NEW r \in Index, idx[q].refCount > 0, idx[r].refCount > 0,
             idx[q].storage = idx[r].storage
      PROVE  q = r
  <2>1. /\ n[q] # 0 /\ n[r] # 0 /\ idx[q].refCount # 0 /\ idx[r].refCount # 0
        /\ idx[s].storage = to
    <3>1. idx[s].storage = to
      BY <1>2
    <3>2. idx[q].refCount = n[q] /\ idx[r].refCount = n[r]
      BY <1>2
    <3> QED
      BY <1>7, <3>1, <3>2
  <2>2. CASE q = s \/ r = s
    BY <1>6, <1>7, <2>1, <2>2
  <2>3. CASE q # s /\ r # s
    <3>1. /\ index[q].refCount > 0 /\ index[r].refCount > 0
          /\ index[q].storage = index[r].storage
      BY <1>5, <1>7, <2>1, <2>3
    <3> QED
      BY <3>1 DEF Stored
  <2> QED
    BY <2>2, <2>3
<1>8. ASSUME NEW r \in Index, idx[r].refCount = 0 PROVE idx[r] = Heap!FreeSlot
  <2>1. r # s /\ n[r] = 0 /\ index[r].refCount = 0
    <3>1. n[r] = 0
      BY <1>2, <1>8
    <3>2. r # s
      BY <3>1
    <3> QED
      BY <3>1, <3>2 DEF SameInUse
  <2>2. index[r] = Heap!FreeSlot
    BY <2>1 DEF Stored
  <2>3. idx[r] = [refCount |-> 0, storage |-> <<0, 0>>]
    BY <1>2, <2>1, <2>2 DEF Heap!FreeSlot, Heap!Nowhere
  <2> QED
    BY <2>3 DEF Heap!FreeSlot, Heap!Nowhere
<1>9. Stored(more, idx)
  BY <1>1, <1>4, <1>6, <1>7, <1>8 DEF Stored
<1>10. Holding(more, idx)[s] = entry
  <2>1. idx[s].refCount = 1
    BY <1>2
  <2> QED
    BY <1>6, <2>1 DEF Holding
<1>11. ASSUME NEW r \in Index, index[r].refCount > 0
       PROVE  Holding(more, idx)[r] = Holding(blocks, index)[r]
  <2>1. r # s /\ n[r] # 0
    <3>1. index[r].refCount # 0
      BY <1>11
    <3>2. r # s
      BY <3>1
    <3> QED
      BY <3>1, <3>2 DEF SameInUse
  <2>2. idx[r].refCount > 0 /\ idx[r].refCount # 0
    <3>1. idx[r].refCount = n[r] /\ n[r] \in Nat
      BY <1>2
    <3> QED
      BY <2>1, <3>1
  <2>3. Holding(more, idx)[r] = more[idx[r].storage[1]][idx[r].storage[2]]
    BY <2>2 DEF Holding
  <2>4. Holding(blocks, index)[r] = blocks[index[r].storage[1]][index[r].storage[2]]
    BY <1>11 DEF Holding
  <2> QED
    BY <1>6, <2>1, <2>2, <2>3, <2>4
<1> QED
  BY <1>2, <1>9, <1>10, <1>11 DEF more, to, idx

\* Store gives slot s its entry, whether or not it collects first.
LEMMA StoreKeeps ==
  ASSUME Stored(block, slot), NEW s \in Index, slot[s].refCount = 0,
         NEW length \in Nat, NEW text \in HeapTexts, NEW elements \in Seq(0 .. Slots),
         NEW n \in [Index -> Nat], SameInUse(slot, n, s), n[s] = 1,
         NEW refCounts, \A r \in Index : r # s => refCounts[r] = n[r],
         Heap!Store(s, length, text, elements, refCounts)
  PROVE  /\ Stored(block', slot') /\ counts' = n
         /\ contents'[s] = [length |-> length, free |-> FALSE, text |-> text, elements |-> elements]
         /\ \A r \in Index : slot[r].refCount > 0 => contents'[r] = contents[r]
<1> DEFINE entry == [length |-> length, free |-> FALSE, text |-> text, elements |-> elements]
           blocks == Heap!Blocks(length)
           index == Heap!Index(length)
           more == Heap!Placed(blocks, entry)
           to == Heap!PlaceOf(blocks, entry)
<1>1. /\ Stored(blocks, index) /\ Holding(blocks, index) = contents
      /\ \A r \in Index : index[r].refCount = slot[r].refCount
  <2>1. CASE Heap!Collects(length)
    <3>1. blocks = ClosedBlocks(block) /\ index = AdjustedTo(block, slot)
      BY <2>1, CollectionIs DEF Heap!Blocks, Heap!Index
    <3> HIDE DEF blocks, index
    <3>2. /\ Stored(ClosedBlocks(block), AdjustedTo(block, slot))
          /\ \A r \in Index : AdjustedTo(block, slot)[r].refCount = slot[r].refCount
          /\ Holding(ClosedBlocks(block), AdjustedTo(block, slot)) = Holding(block, slot)
      BY CollectKeeps
    <3> QED
      BY <3>1, <3>2 DEF contents
  <2>2. CASE ~Heap!Collects(length)
    <3>1. blocks = block /\ index = slot
      BY <2>2 DEF Heap!Blocks, Heap!Index
    <3> HIDE DEF blocks, index
    <3> QED
      BY <3>1 DEF contents
  <2> QED
    BY <2>1, <2>2
<1>2. block' = more /\ slot' = [r \in Index |->
        [refCount |-> IF r = s THEN 1 ELSE refCounts[r],
         storage |-> IF r = s THEN to ELSE index[r].storage]]
  BY DEF Heap!Store, Index
<1> HIDE DEF blocks, index
<1>3. slot' = WithSlot(index, n, s, to)
  <2>1. \A r \in Index : (IF r = s THEN 1 ELSE refCounts[r]) = n[r]
    OBVIOUS
  <2> HIDE DEF to
  <2> QED
    BY <1>2, <2>1 DEF WithSlot
<1>4. entry \in Entries /\ ~entry.free
  BY DEF Entries
<1>5. SameInUse(index, n, s) /\ index[s].refCount = 0
  BY <1>1 DEF SameInUse
<1> HIDE DEF entry
<1>6. /\ Stored(more, WithSlot(index, n, s, to))
      /\ \A r \in Index : WithSlot(index, n, s, to)[r].refCount = n[r]
      /\ Holding(more, WithSlot(index, n, s, to))[s] = entry
      /\ \A r \in Index : index[r].refCount > 0
           => Holding(more, WithSlot(index, n, s, to))[r] = Holding(blocks, index)[r]
  BY <1>1, <1>4, <1>5, NewSlotStored
<1> HIDE DEF more, to
<1>7. Stored(block', slot') /\ \A r \in Index : slot'[r].refCount = n[r]
  BY <1>2, <1>3, <1>6
<1>8. counts' = n
  BY <1>7 DEF counts
<1>9. contents' = Holding(block', slot')
  BY DEF contents
<1>10. contents'[s] = entry
  BY <1>2, <1>3, <1>6, <1>9
<1>11. \A r \in Index : slot[r].refCount > 0 => contents'[r] = contents[r]
  BY <1>1, <1>2, <1>3, <1>6, <1>9
<1> QED
  BY <1>7, <1>8, <1>10, <1>11 DEF entry

\* Slots that are given up leave gaps.
Gaps(blocks, index, gone) ==
  [b \in DOMAIN blocks |-> [k \in DOMAIN blocks[b] |->
     IF \E s \in gone : index[s].storage = <<b, k>>
     THEN Heap!FreeEntry(blocks[b][k].length) ELSE blocks[b][k]]]

\* Freeing the entries of some slots leaves those of the others.
LEMMA GapsKeep ==
  ASSUME NEW blocks, NEW index, Stored(blocks, index), NEW gone \in SUBSET Index,
         \A s \in gone : index[s].refCount > 0
  PROVE  /\ Gaps(blocks, index, gone) \in Seq(Seq(Entries))
         /\ DOMAIN Gaps(blocks, index, gone) = DOMAIN blocks
         /\ \A b \in DOMAIN blocks :
              /\ Gaps(blocks, index, gone)[b] \in Seq(Entries)
              /\ DOMAIN Gaps(blocks, index, gone)[b] = DOMAIN blocks[b]
         /\ \A s \in Index \ gone : index[s].refCount > 0 =>
              Gaps(blocks, index, gone)[index[s].storage[1]][index[s].storage[2]] =
                blocks[index[s].storage[1]][index[s].storage[2]]
<1> DEFINE gaps == Gaps(blocks, index, gone)
           entry(b, k) == IF \E s \in gone : index[s].storage = <<b, k>>
                          THEN Heap!FreeEntry(blocks[b][k].length) ELSE blocks[b][k]
<1>1. gaps = [b \in DOMAIN blocks |-> [k \in DOMAIN blocks[b] |-> entry(b, k)]]
  BY DEF Gaps
<1>2. ASSUME NEW b \in DOMAIN blocks, NEW k \in DOMAIN blocks[b] PROVE entry(b, k) \in Entries
  <2>1. blocks[b][k] \in Entries
    BY StoredHas
  <2>2. Heap!FreeEntry(blocks[b][k].length) \in Entries
    BY <2>1 DEF Entries, Heap!FreeEntry, HeapTexts
  <2> QED
    BY <2>1, <2>2
<1> HIDE DEF gaps, entry
<1>3. ASSUME NEW b \in DOMAIN blocks
      PROVE  gaps[b] \in Seq(Entries) /\ DOMAIN gaps[b] = DOMAIN blocks[b]
  <2>1. gaps[b] = [k \in DOMAIN blocks[b] |-> entry(b, k)]
    BY <1>1
  <2>2. gaps[b] \in [DOMAIN blocks[b] -> Entries] /\ DOMAIN gaps[b] = DOMAIN blocks[b]
    BY <1>2, <2>1
  <2>3. DOMAIN blocks[b] = 1 .. Len(blocks[b]) /\ Len(blocks[b]) \in Nat
    BY StoredHas
  <2>4. gaps[b] \in [1 .. Len(blocks[b]) -> Entries]
    BY <2>2, <2>3
  <2>5. gaps[b] \in Seq(Entries)
    BY <2>3, <2>4, SeqDef
  <2> QED
    BY <2>2, <2>5
<1>4. gaps \in Seq(Seq(Entries)) /\ DOMAIN gaps = DOMAIN blocks
  <2>1. gaps = [b \in DOMAIN blocks |-> gaps[b]]
    BY <1>1
  <2>2. gaps \in [DOMAIN blocks -> Seq(Entries)] /\ DOMAIN gaps = DOMAIN blocks
    BY <1>3, <2>1
  <2>3. DOMAIN blocks = 1 .. Len(blocks) /\ Len(blocks) \in Nat
    BY StoredHas
  <2>4. gaps \in [1 .. Len(blocks) -> Seq(Entries)]
    BY <2>2, <2>3
  <2>5. gaps \in Seq(Seq(Entries))
    BY <2>3, <2>4, SeqDef
  <2> QED
    BY <2>2, <2>5
<1>5. ASSUME NEW s \in Index \ gone, index[s].refCount > 0
      PROVE  gaps[index[s].storage[1]][index[s].storage[2]] =
               blocks[index[s].storage[1]][index[s].storage[2]]
  <2> DEFINE b == index[s].storage[1]
             k == index[s].storage[2]
  <2>1. b \in DOMAIN blocks /\ k \in DOMAIN blocks[b]
    BY <1>5 DEF Stored
  <2>2. index[s].storage = <<b, k>>
    BY SlotHas
  <2>3. ASSUME NEW r \in gone, index[r].storage = <<b, k>> PROVE FALSE
    <3>1. index[r].refCount > 0 /\ r \in Index /\ r # s
      OBVIOUS
    <3>2. index[r].storage = index[s].storage
      BY <2>2, <2>3
    <3> QED
      BY <1>5, <3>1, <3>2 DEF Stored
  <2> HIDE DEF b, k
  <2>4. entry(b, k) = blocks[b][k]
    BY <2>3 DEF entry
  <2>5. gaps[b][k] = entry(b, k)
    BY <1>1, <2>1
  <2> QED
    BY <2>4, <2>5 DEF b, k
<1> QED
  BY <1>3, <1>4, <1>5 DEF gaps

Lessened(index, gone, n) ==
  [s \in Index |-> IF s \in gone THEN Heap!FreeSlot ELSE [index[s] EXCEPT !.refCount = n[s]]]
SameBut(index, gone, n) ==
  \A s \in Index : n[s] = 0 <=> index[s].refCount = 0 \/ s \in gone
StaysIn(blocks, index, gone) ==
  \A s \in Index \ gone : index[s].refCount > 0 =>
    /\ index[s].storage[1] \in DOMAIN blocks
    /\ index[s].storage[2] \in DOMAIN blocks[index[s].storage[1]]
    /\ ~blocks[index[s].storage[1]][index[s].storage[2]].free

Loses(blocks, index, gone, n, more) ==
  /\ Stored(blocks, index) /\ gone \in SUBSET Index /\ n \in [Index -> Nat]
  /\ SameBut(index, gone, n) /\ more \in Seq(Seq(Entries)) /\ StaysIn(more, index, gone)

\* Slots with fewer references are still stored.
LEMMA LessStored ==
  ASSUME NEW blocks, NEW index, NEW gone, NEW n, NEW more, Loses(blocks, index, gone, n, more),
         NEW idx, idx = Lessened(index, gone, n)
  PROVE  /\ Stored(more, idx)
         /\ \A s \in Index : idx[s].refCount = n[s]
         /\ \A s \in Index : n[s] > 0 =>
              /\ s \notin gone /\ index[s].refCount > 0
              /\ Holding(more, idx)[s] = more[index[s].storage[1]][index[s].storage[2]]
<1>0. /\ Stored(blocks, index) /\ gone \in SUBSET Index /\ n \in [Index -> Nat]
      /\ SameBut(index, gone, n) /\ more \in Seq(Seq(Entries)) /\ StaysIn(more, index, gone)
  BY DEF Loses
<1> USE <1>0
<1>1. ASSUME NEW s \in Index, s \in gone
      PROVE  idx[s] = Heap!FreeSlot /\ idx[s].refCount = 0 /\ n[s] = 0
             /\ idx[s] \in [refCount : Nat, storage : Nat \X Nat]
  <2>1. idx[s] = Heap!FreeSlot
    BY <1>1 DEF Lessened
  <2>2. n[s] = 0
    BY <1>1 DEF SameBut
  <2> QED
    BY <2>1, <2>2 DEF Heap!FreeSlot, Heap!Nowhere
<1>2. ASSUME NEW s \in Index, s \notin gone
      PROVE  /\ idx[s] = [refCount |-> n[s], storage |-> index[s].storage]
             /\ idx[s].refCount = n[s] /\ idx[s].storage = index[s].storage
             /\ idx[s] \in [refCount : Nat, storage : Nat \X Nat]
             /\ n[s] \in Nat /\ index[s].refCount \in Nat
             /\ n[s] = 0 <=> index[s].refCount = 0
  <2>1. idx[s] = [index[s] EXCEPT !.refCount = n[s]]
    BY <1>2 DEF Lessened
  <2>2. /\ index[s] = [refCount |-> index[s].refCount, storage |-> index[s].storage]
        /\ index[s].refCount \in Nat
    BY StoredHas
  <2>3. index[s] \in [refCount : Nat, storage : Nat \X Nat]
    BY DEF Stored
  <2>4. n[s] = 0 <=> index[s].refCount = 0
    BY <1>2 DEF SameBut
  <2>5. n[s] \in Nat
    OBVIOUS
  <2>6. idx[s] = [refCount |-> n[s], storage |-> index[s].storage]
    BY <2>1, <2>2
  <2>7. index[s].storage \in Nat \X Nat
    BY <2>3
  <2> QED
    BY <2>2, <2>4, <2>5, <2>6, <2>7
<1>3. idx = [s \in Index |-> idx[s]]
  BY DEF Lessened
<1>4. idx \in [Index -> [refCount : Nat, storage : Nat \X Nat]]
  <2>1. \A s \in Index : idx[s] \in [refCount : Nat, storage : Nat \X Nat]
    BY <1>1, <1>2
  <2> QED
    BY <1>3, <2>1
<1>5. ASSUME NEW s \in Index PROVE idx[s].refCount = n[s]
  <2>1. CASE s \in gone
    BY <1>1, <2>1
  <2>2. CASE s \notin gone
    BY <1>2, <2>2
  <2> QED
    BY <2>1, <2>2
<1>6. ASSUME NEW s \in Index, n[s] # 0
      PROVE  /\ s \notin gone /\ index[s].refCount > 0 /\ idx[s].storage = index[s].storage
             /\ idx[s].storage[1] \in DOMAIN more
             /\ idx[s].storage[2] \in DOMAIN more[idx[s].storage[1]]
             /\ ~more[idx[s].storage[1]][idx[s].storage[2]].free
  <2>1. s \notin gone
    BY <1>6 DEF SameBut
  <2>2. index[s].refCount > 0 /\ idx[s].storage = index[s].storage
    <3>1. index[s].refCount \in Nat /\ index[s].refCount # 0 /\ idx[s].storage = index[s].storage
      BY <1>2, <1>6, <2>1
    <3> QED
      BY <3>1
  <2>3. /\ index[s].storage[1] \in DOMAIN more
        /\ index[s].storage[2] \in DOMAIN more[index[s].storage[1]]
        /\ ~more[index[s].storage[1]][index[s].storage[2]].free
    BY <2>1, <2>2 DEF StaysIn
  <2> QED
    BY <2>1, <2>2, <2>3
<1>7. ASSUME NEW s \in Index, idx[s].refCount = 0 PROVE idx[s] = Heap!FreeSlot
  <2>1. CASE s \in gone
    BY <1>1, <2>1
  <2>2. CASE s \notin gone
    <3>1. n[s] = 0 /\ index[s].refCount = 0 /\ idx[s] = [refCount |-> 0, storage |-> index[s].storage]
      BY <1>2, <1>7, <2>2
    <3>2. index[s] = Heap!FreeSlot
      BY <3>1 DEF Stored
    <3> QED
      BY <3>1, <3>2 DEF Heap!FreeSlot, Heap!Nowhere
  <2> QED
    BY <2>1, <2>2
<1>8. ASSUME NEW r \in Index, NEW s \in Index, idx[r].refCount > 0, idx[s].refCount > 0,
             idx[r].storage = idx[s].storage
      PROVE  r = s
  <2>1. n[r] # 0 /\ n[s] # 0
    BY <1>5, <1>8
  <2>2. /\ index[r].refCount > 0 /\ index[s].refCount > 0
        /\ index[r].storage = index[s].storage
    BY <1>6, <1>8, <2>1
  <2> QED
    BY <2>2 DEF Stored
<1>9. Stored(more, idx)
  <2>1. ASSUME NEW s \in Index, idx[s].refCount # 0
        PROVE  /\ idx[s].storage[1] \in DOMAIN more
               /\ idx[s].storage[2] \in DOMAIN more[idx[s].storage[1]]
               /\ ~more[idx[s].storage[1]][idx[s].storage[2]].free
    BY <1>5, <1>6, <2>1
  <2> QED
    BY <1>4, <1>7, <1>8, <2>1 DEF Stored
<1>10. ASSUME NEW s \in Index, n[s] > 0
       PROVE  /\ s \notin gone /\ index[s].refCount > 0
              /\ Holding(more, idx)[s] = more[index[s].storage[1]][index[s].storage[2]]
  <2>1. n[s] # 0 /\ idx[s].refCount > 0
    BY <1>5, <1>10
  <2>2. Holding(more, idx)[s] = more[idx[s].storage[1]][idx[s].storage[2]]
    BY <2>1 DEF Holding
  <2> QED
    BY <1>6, <2>1, <2>2
<1> QED
  BY <1>5, <1>9, <1>10

\* The gaps that the heap leaves.
LEMMA GapsAre ==
  ASSUME NEW lost
  PROVE  /\ Heap!WithGaps(lost) = Gaps(block, slot, Heap!Emptied(lost))
         /\ Heap!Emptied(lost) = {s \in Index : lost[s] > 0 /\ lost[s] = slot[s].refCount}
<1>1. Heap!WithGaps(lost) = Gaps(block, slot, Heap!Emptied(lost))
  BY DEF Heap!WithGaps, Gaps
<1>2. Heap!Emptied(lost) = {s \in Index : lost[s] > 0 /\ lost[s] = slot[s].refCount}
  BY DEF Heap!Emptied, Index
<1> QED
  BY <1>1, <1>2

\* The references left when some are lost.
LeftOf(index, lost, n) == \A s \in Index : n[s] = index[s].refCount - lost[s]

\* DeleteSlot frees what has no reference left, and nothing else.
LEMMA DeleteSlotsKeeps ==
  ASSUME Stored(block, slot), NEW lost \in [Index -> Nat],
         NEW n \in [Index -> Nat], LeftOf(slot, lost, n),
         Heap!DeleteSlots(lost)
  PROVE  /\ Stored(block', slot') /\ counts' = n
         /\ \A s \in Index : n[s] > 0 => contents'[s] = contents[s]
<1> DEFINE gone == Heap!Emptied(lost)
<1>1. gone = {s \in Index : lost[s] > 0 /\ lost[s] = slot[s].refCount}
  BY GapsAre
<1>2. block' = Gaps(block, slot, gone)
  BY GapsAre DEF Heap!DeleteSlots, Heap!Freed
<1>3. slot' = [s \in Index |-> IF s \in gone THEN Heap!FreeSlot
                               ELSE [slot[s] EXCEPT !.refCount = slot[s].refCount - lost[s]]]
  BY DEF Heap!DeleteSlots, Index
<1> HIDE DEF gone
<1>4. ASSUME NEW s \in Index
      PROVE  /\ slot[s].refCount \in Nat /\ lost[s] \in Nat /\ n[s] \in Nat
             /\ n[s] = slot[s].refCount - lost[s]
  <2>1. slot[s].refCount \in Nat
    BY StoredHas
  <2> QED
    BY <2>1 DEF LeftOf
<1>5. slot' = Lessened(slot, gone, n)
  BY <1>3 DEF Lessened, LeftOf
<1>6. gone \in SUBSET Index /\ (\A s \in gone : slot[s].refCount > 0)
  BY <1>1, <1>4
<1>7. SameBut(slot, gone, n)
  <2>1. ASSUME NEW s \in Index PROVE n[s] = 0 <=> slot[s].refCount = 0 \/ s \in gone
    <3>1. s \in gone <=> lost[s] > 0 /\ lost[s] = slot[s].refCount
      BY <1>1
    <3>2. slot[s].refCount \in Nat /\ lost[s] \in Nat /\ n[s] = slot[s].refCount - lost[s]
      BY <1>4
    <3> QED
      BY <3>1, <3>2
  <2> QED
    BY <2>1 DEF SameBut
<1> DEFINE more == Gaps(block, slot, gone)
<1>8. /\ more \in Seq(Seq(Entries)) /\ DOMAIN more = DOMAIN block
      /\ \A b \in DOMAIN block : DOMAIN more[b] = DOMAIN block[b]
      /\ \A s \in Index \ gone : slot[s].refCount > 0 =>
           more[slot[s].storage[1]][slot[s].storage[2]] =
             block[slot[s].storage[1]][slot[s].storage[2]]
  BY <1>6, GapsKeep
<1> HIDE DEF more
<1>9. StaysIn(more, slot, gone)
  <2>1. ASSUME NEW s \in Index \ gone, slot[s].refCount > 0
        PROVE  /\ slot[s].storage[1] \in DOMAIN more
               /\ slot[s].storage[2] \in DOMAIN more[slot[s].storage[1]]
               /\ ~more[slot[s].storage[1]][slot[s].storage[2]].free
    <3>1. /\ slot[s].storage[1] \in DOMAIN block
          /\ slot[s].storage[2] \in DOMAIN block[slot[s].storage[1]]
          /\ ~block[slot[s].storage[1]][slot[s].storage[2]].free
      BY <2>1 DEF Stored
    <3> QED
      BY <1>8, <2>1, <3>1
  <2> QED
    BY <2>1 DEF StaysIn
<1> DEFINE idx == Lessened(slot, gone, n)
<1>10. /\ Stored(more, idx)
       /\ \A s \in Index : idx[s].refCount = n[s]
       /\ \A s \in Index : n[s] > 0 =>
            /\ s \notin gone /\ slot[s].refCount > 0
            /\ Holding(more, idx)[s] = more[slot[s].storage[1]][slot[s].storage[2]]
  <2>1. Loses(block, slot, gone, n, more)
    BY <1>6, <1>7, <1>8, <1>9 DEF Loses
  <2> QED
    BY <2>1, LessStored
<1>11. block' = more /\ slot' = idx
  BY <1>2, <1>5 DEF more
<1> HIDE DEF idx
<1>12. Stored(block', slot') /\ counts' = n
  BY <1>10, <1>11 DEF counts
<1>13. ASSUME NEW s \in Index, n[s] > 0 PROVE contents'[s] = contents[s]
  <2>1. /\ s \in Index \ gone /\ slot[s].refCount > 0
        /\ Holding(block', slot')[s] = more[slot[s].storage[1]][slot[s].storage[2]]
    BY <1>10, <1>11, <1>13
  <2>2. Holding(block, slot)[s] = block[slot[s].storage[1]][slot[s].storage[2]]
    BY <2>1 DEF Holding
  <2> QED
    BY <1>8, <2>1, <2>2 DEF contents
<1> QED
  BY <1>12, <1>13

\* One entry of a block is replaced.
LEMMA EntryChanges ==
  ASSUME NEW blocks \in Seq(Seq(Entries)), NEW b \in DOMAIN blocks, NEW k \in DOMAIN blocks[b],
         NEW entry \in Entries, NEW more, more = [blocks EXCEPT ![b][k] = entry]
  PROVE  /\ more \in Seq(Seq(Entries)) /\ DOMAIN more = DOMAIN blocks
         /\ \A x \in DOMAIN blocks : DOMAIN more[x] = DOMAIN blocks[x]
         /\ more[b][k] = entry
         /\ \A x \in DOMAIN blocks : \A y \in DOMAIN blocks[x] :
              <<x, y>> # <<b, k>> => more[x][y] = blocks[x][y]
<1> DEFINE q == [blocks[b] EXCEPT ![k] = entry]
<1>1. Len(blocks) \in Nat /\ DOMAIN blocks = 1 .. Len(blocks)
  BY LenProperties
<1>2. blocks[b] \in Seq(Entries) /\ Len(blocks[b]) \in Nat /\ DOMAIN blocks[b] = 1 .. Len(blocks[b])
  <2>1. blocks[b] \in Seq(Entries)
    BY <1>1, ElementOfSeq
  <2> QED
    BY <2>1, LenProperties
<1>3. q \in Seq(Entries) /\ DOMAIN q = DOMAIN blocks[b] /\ q[k] = entry
      /\ \A y \in DOMAIN blocks[b] : y # k => q[y] = blocks[b][y]
  <2>1. q \in Seq(Entries)
    BY <1>2, ExceptSeq
  <2> QED
    BY <2>1
<1> HIDE DEF q
<1>4. /\ [blocks EXCEPT ![b] = q] \in Seq(Seq(Entries))
      /\ DOMAIN [blocks EXCEPT ![b] = q] = DOMAIN blocks
      /\ [blocks EXCEPT ![b] = q][b] = q
      /\ \A x \in DOMAIN blocks : x # b => [blocks EXCEPT ![b] = q][x] = blocks[x]
  <2>1. [blocks EXCEPT ![b] = q] \in Seq(Seq(Entries))
    BY <1>1, <1>3, ExceptSeq
  <2> QED
    BY <2>1
<1>5. more = [blocks EXCEPT ![b] = q]
  BY DEF q
<1>6. /\ more \in Seq(Seq(Entries)) /\ DOMAIN more = DOMAIN blocks /\ more[b] = q
      /\ \A x \in DOMAIN blocks : x # b => more[x] = blocks[x]
  BY <1>4, <1>5
<1>7. ASSUME NEW x \in DOMAIN blocks PROVE DOMAIN more[x] = DOMAIN blocks[x]
  <2>1. CASE x = b
    BY <1>3, <1>6, <2>1
  <2>2. CASE x # b
    BY <1>6, <2>2
  <2> QED
    BY <2>1, <2>2
<1>8. ASSUME NEW x \in DOMAIN blocks, NEW y \in DOMAIN blocks[x], <<x, y>> # <<b, k>>
      PROVE  more[x][y] = blocks[x][y]
  <2>1. CASE x = b
    <3>1. y # k /\ y \in DOMAIN blocks[b]
      BY <1>8, <2>1
    <3> QED
      BY <1>3, <1>6, <2>1, <3>1
  <2>2. CASE x # b
    BY <1>6, <2>2
  <2> QED
    BY <2>1, <2>2
<1> QED
  BY <1>3, <1>6, <1>7, <1>8

\* A slot in use names an entry.
LEMMA SlotHolds ==
  ASSUME Stored(block, slot), NEW r \in Index, slot[r].refCount > 0
  PROVE  /\ slot[r].storage = <<slot[r].storage[1], slot[r].storage[2]>>
         /\ slot[r].storage[1] \in DOMAIN block
         /\ slot[r].storage[2] \in DOMAIN block[slot[r].storage[1]]
         /\ ~block[slot[r].storage[1]][slot[r].storage[2]].free
         /\ contents[r] = block[slot[r].storage[1]][slot[r].storage[2]]
<1>1. slot[r].storage = <<slot[r].storage[1], slot[r].storage[2]>>
  BY StoredHas
<1>2. /\ slot[r].storage[1] \in DOMAIN block
      /\ slot[r].storage[2] \in DOMAIN block[slot[r].storage[1]]
      /\ ~block[slot[r].storage[1]][slot[r].storage[2]].free
  BY DEF Stored
<1>3. contents[r] = block[slot[r].storage[1]][slot[r].storage[2]]
  BY DEF contents, Holding
<1> QED
  BY <1>1, <1>2, <1>3

LEMMA StorageIs ==
  ASSUME Stored(block, slot), NEW r \in Index, slot[r].refCount > 0
  PROVE  Heap!Storage(r) = contents[r]
BY SlotHolds DEF Heap!Storage

\* An element of an array is replaced where it is.
WithElement(entry, k, new) == [entry EXCEPT !.elements[k] = new]

LEMMA WithElementIs ==
  ASSUME NEW entry \in Entries, entry.elements \in [1 .. Elements -> 0 .. Slots],
         NEW k \in 1 .. Elements, NEW new \in 0 .. Slots
  PROVE  /\ WithElement(entry, k, new) \in Entries
         /\ WithElement(entry, k, new).text = entry.text
         /\ WithElement(entry, k, new).free = entry.free
         /\ WithElement(entry, k, new).elements \in [1 .. Elements -> 0 .. Slots]
         /\ WithElement(entry, k, new).elements[k] = new
         /\ \A i \in 1 .. Elements :
              i # k => WithElement(entry, k, new).elements[i] = entry.elements[i]
<1> DEFINE X == [entry.elements EXCEPT ![k] = new]
<1>1. /\ X \in [1 .. Elements -> 0 .. Slots] /\ X[k] = new
      /\ \A i \in 1 .. Elements : i # k => X[i] = entry.elements[i]
  OBVIOUS
<1>2. X \in Seq(0 .. Slots)
  BY <1>1, HeapConstants, SeqDef
<1>3. WithElement(entry, k, new) = [entry EXCEPT !.elements = X]
  BY DEF WithElement
<1> HIDE DEF X
<1>4. WithElement(entry, k, new) =
        [length |-> entry.length, free |-> entry.free, text |-> entry.text, elements |-> X]
  BY <1>3 DEF Entries
<1> QED
  BY <1>1, <1>2, <1>4 DEF Entries

Lost(c, b, k, s) == [r \in Index |-> IF r = c[b].elements[k] /\ r # s THEN 1 ELSE 0]
Replaced(c, b, k, s, n, m) ==
  \A r \in Index : m[r] = n[r] - One(r = c[b].elements[k] /\ r # s)
                               + One(r = s /\ r # c[b].elements[k])

\* An array of which an element may be replaced.
Replaceable(c, b, k) ==
  /\ c[b] \in Entries /\ c[b].elements \in [1 .. Elements -> 0 .. Slots]
  /\ c[b].elements[k] # b
  /\ c[b].elements[k] # 0 => slot[c[b].elements[k]].refCount > 0

\* An array with one reference gets the element where it is; the string it had loses one.
LEMMA AssignInPlaceStores ==
  ASSUME Stored(block, slot), NEW t, NEW i, NEW j,
         NEW b \in Index, b = handle[<<t, i>>], NEW s \in Index, s = handle[<<t, j>>], s # b,
         NEW k \in 1 .. Elements, Replaceable(contents, b, k), slot[b].refCount = 1,
         slot[s].refCount > 0, Heap!AssignInPlace(t, i, k, j)
  PROVE  /\ Stored(block', slot') /\ counts' \in [Index -> Nat]
         /\ Replaced(contents, b, k, s, counts, counts')
         /\ contents'[b] = WithElement(contents[b], k, s)
         /\ \A r \in Index : counts'[r] > 0 /\ r # b => contents'[r] = contents[r]
<1> DEFINE o == contents[b].elements[k]
           lost == Lost(contents, b, k, s)
           gone == Heap!Emptied(lost)
           n == [r \in Index |-> slot[r].refCount - (IF r = o /\ r # s THEN 1 ELSE 0)
                                                  + (IF r = s /\ r # o THEN 1 ELSE 0)]
           x == slot[b].storage[1]
           y == slot[b].storage[2]
           gaps == Gaps(block, slot, gone)
           more == [gaps EXCEPT ![x][y] = WithElement(contents[b], k, s)]
           idx == Lessened(slot, gone, n)
<1>0. /\ contents[b] \in Entries /\ contents[b].elements \in [1 .. Elements -> 0 .. Slots]
      /\ o # b
      /\ o # 0 => slot[o].refCount > 0
  BY DEF Replaceable
<1>1. /\ Heap!Storage(b) = contents[b] /\ block[x][y] = contents[b]
      /\ x \in DOMAIN block /\ y \in DOMAIN block[x] /\ ~block[x][y].free
      /\ slot[b].storage = <<x, y>>
  <2>1. slot[b].refCount > 0
    OBVIOUS
  <2> HIDE DEF o, lost, gone, n
  <2>2. Heap!Storage(b) = contents[b]
    BY <2>1, StorageIs
  <2>3. /\ block[x][y] = contents[b] /\ x \in DOMAIN block /\ y \in DOMAIN block[x]
        /\ ~block[x][y].free /\ slot[b].storage = <<x, y>>
    BY <2>1, SlotHolds
  <2> QED
    BY <2>2, <2>3
<1>2. Heap!Element(b, k) = o
  BY <1>1 DEF Heap!Element
<1>3. gone = {r \in Index : r = o /\ r # s /\ slot[r].refCount = 1}
  <2>1. gone = {r \in Index : lost[r] > 0 /\ lost[r] = slot[r].refCount}
    BY GapsAre
  <2> HIDE DEF gone, o
  <2>2. ASSUME NEW r \in Index
        PROVE  lost[r] > 0 /\ lost[r] = slot[r].refCount <=> r = o /\ r # s /\ slot[r].refCount = 1
    <3>1. lost[r] = IF r = o /\ r # s THEN 1 ELSE 0
      BY DEF Lost, o
    <3> HIDE DEF lost
    <3> QED
      BY <3>1
  <2> QED
    BY <2>1, <2>2
<1>4. lost = [r \in 1 .. Slots |-> IF r = Heap!Element(handle[<<t, i>>], k) /\ r # handle[<<t, j>>] THEN 1 ELSE 0]
  BY <1>2 DEF Lost, Index
<1>5. /\ block' = [Heap!WithGaps(lost) EXCEPT ![x][y].elements[k] = s]
      /\ slot' = [r \in Index |->
           IF r \in gone THEN Heap!FreeSlot
           ELSE [slot[r] EXCEPT !.refCount = slot[r].refCount - lost[r] + (IF r = s /\ r # o THEN 1 ELSE 0)]]
  <2> HIDE DEF lost, o
  <2> QED
    BY <1>2, <1>4 DEF Heap!AssignInPlace, Index
<1>6. b \notin gone /\ gone \in SUBSET Index /\ \A r \in gone : slot[r].refCount > 0
  BY <1>0, <1>3
<1>7. slot' = idx
  <2>1. \A r \in Index : lost[r] = IF r = o /\ r # s THEN 1 ELSE 0
    BY DEF Lost
  <2>2. \A r \in Index : n[r] = slot[r].refCount - lost[r] + (IF r = s /\ r # o THEN 1 ELSE 0)
    BY <2>1
  <2> HIDE DEF n, lost, o, gone
  <2> QED
    BY <1>5, <2>2 DEF Lessened
<1> HIDE DEF lost, gone
<1>8. /\ gaps \in Seq(Seq(Entries)) /\ DOMAIN gaps = DOMAIN block
      /\ \A v \in DOMAIN block : DOMAIN gaps[v] = DOMAIN block[v]
      /\ \A r \in Index \ gone : slot[r].refCount > 0 =>
           gaps[slot[r].storage[1]][slot[r].storage[2]] = block[slot[r].storage[1]][slot[r].storage[2]]
  <2> HIDE DEF gaps
  <2> QED
    BY <1>6, GapsKeep DEF gaps
<1>9. block' = more
  <2>1. Heap!WithGaps(lost) = gaps
    BY GapsAre DEF gone
  <2>2. gaps[x][y] = contents[b]
    <3>1. gaps[x][y] = block[x][y]
      <4>1. b \in Index \ gone /\ slot[b].refCount > 0
        BY <1>6
      <4> HIDE DEF gaps
      <4> QED
        BY <1>8, <4>1
    <3> HIDE DEF gaps, x, y
    <3> QED
      BY <1>1, <3>1
  <2> HIDE DEF gaps, x, y
  <2>3. [gaps EXCEPT ![x][y].elements[k] = s] = [gaps EXCEPT ![x][y] = WithElement(gaps[x][y], k, s)]
    BY DEF WithElement
  <2> QED
    BY <1>5, <2>1, <2>2, <2>3 DEF x, y
<1> HIDE DEF gaps, x, y
<1>10. /\ WithElement(contents[b], k, s) \in Entries
       /\ WithElement(contents[b], k, s).free = contents[b].free
  <2>1. s \in 0 .. Slots
    BY DEF Index
  <2> DEFINE entry == contents[b]
  <2> HIDE DEF entry
  <2> QED
    BY <1>0, <2>1, WithElementIs DEF entry
<1>11. /\ more \in Seq(Seq(Entries)) /\ DOMAIN more = DOMAIN block
       /\ \A v \in DOMAIN block : DOMAIN more[v] = DOMAIN block[v]
       /\ more[x][y] = WithElement(contents[b], k, s)
       /\ \A v \in DOMAIN block : \A w \in DOMAIN block[v] :
            <<v, w>> # <<x, y>> => more[v][w] = gaps[v][w]
  <2> DEFINE entry == WithElement(contents[b], k, s)
  <2>1. x \in DOMAIN gaps /\ y \in DOMAIN gaps[x] /\ entry \in Entries /\ gaps \in Seq(Seq(Entries))
    BY <1>1, <1>8, <1>10
  <2> HIDE DEF entry, more
  <2>2. /\ more \in Seq(Seq(Entries)) /\ DOMAIN more = DOMAIN gaps
        /\ \A v \in DOMAIN gaps : DOMAIN more[v] = DOMAIN gaps[v]
        /\ more[x][y] = entry
        /\ \A v \in DOMAIN gaps : \A w \in DOMAIN gaps[v] :
             <<v, w>> # <<x, y>> => more[v][w] = gaps[v][w]
    <3>1. more = [gaps EXCEPT ![x][y] = entry]
      BY DEF more, entry
    <3> QED
      BY <2>1, <3>1, EntryChanges
  <2> QED
    BY <1>8, <2>2 DEF entry
<1> HIDE DEF more
\* The other slots in use have their entries.
<1>12. ASSUME NEW r \in Index \ gone, slot[r].refCount > 0, r # b
       PROVE  more[slot[r].storage[1]][slot[r].storage[2]] = contents[r]
  <2> DEFINE v == slot[r].storage[1]
             w == slot[r].storage[2]
  <2>1. v \in DOMAIN block /\ w \in DOMAIN block[v] /\ slot[r].storage # slot[b].storage
    <3>1. v \in DOMAIN block /\ w \in DOMAIN block[v]
      BY <1>12 DEF Stored
    <3>2. slot[r].storage # slot[b].storage
      <4>1. slot[b].refCount > 0
        OBVIOUS
      <4> QED
        BY <1>12, <4>1 DEF Stored
    <3> QED
      BY <3>1, <3>2
  <2>2. slot[r].storage = <<v, w>> /\ block[v][w] = contents[r]
    BY <1>12, SlotHolds
  <2>3. gaps[v][w] = block[v][w] /\ block[v][w] = contents[r]
    BY <1>8, <1>12, <2>2
  <2> HIDE DEF v, w
  <2>4. <<v, w>> # <<x, y>>
    BY <1>1, <2>1, <2>2
  <2>5. more[v][w] = gaps[v][w]
    BY <1>11, <2>1, <2>4
  <2> QED
    BY <2>3, <2>5 DEF v, w
<1>13. ASSUME NEW r \in Index
       PROVE  /\ slot[r].refCount \in Nat /\ n[r] \in Nat
              /\ n[r] = 0 <=> slot[r].refCount = 0 \/ r \in gone
              /\ n[r] = slot[r].refCount - One(r = o /\ r # s) + One(r = s /\ r # o)
  <2>1. slot[r].refCount \in Nat
    BY StoredHas
  <2>2. r = o => slot[r].refCount > 0
    BY <1>0, HeapConstants
  <2>3. r \in gone <=> r = o /\ r # s /\ slot[r].refCount = 1
    BY <1>3
  <2>4. n[r] = slot[r].refCount - (IF r = o /\ r # s THEN 1 ELSE 0) + (IF r = s /\ r # o THEN 1 ELSE 0)
    BY DEF n
  <2> HIDE DEF o, n
  <2> QED
    BY <2>1, <2>2, <2>3, <2>4 DEF One
<1>14. Loses(block, slot, gone, n, more)
  <2>1. n \in [Index -> Nat]
    BY <1>13
  <2>2. SameBut(slot, gone, n)
    BY <1>13 DEF SameBut
  <2>3. ASSUME NEW r \in Index \ gone, slot[r].refCount > 0
        PROVE  /\ slot[r].storage[1] \in DOMAIN more
               /\ slot[r].storage[2] \in DOMAIN more[slot[r].storage[1]]
               /\ ~more[slot[r].storage[1]][slot[r].storage[2]].free
    <3>1. /\ slot[r].storage[1] \in DOMAIN block
          /\ slot[r].storage[2] \in DOMAIN block[slot[r].storage[1]]
          /\ ~block[slot[r].storage[1]][slot[r].storage[2]].free
      BY <2>3 DEF Stored
    <3>2. /\ slot[r].storage[1] \in DOMAIN more
          /\ slot[r].storage[2] \in DOMAIN more[slot[r].storage[1]]
      BY <1>11, <3>1
    <3>3. CASE r = b
      BY <1>1, <1>10, <1>11, <3>2, <3>3 DEF x, y
    <3>4. CASE r # b
      <4>1. contents[r] = block[slot[r].storage[1]][slot[r].storage[2]]
        BY <2>3 DEF contents, Holding
      <4> QED
        BY <1>12, <2>3, <3>1, <3>2, <3>4, <4>1
    <3> QED
      BY <3>3, <3>4
  <2>4. StaysIn(more, slot, gone)
    BY <2>3 DEF StaysIn
  <2> HIDE DEF n
  <2> QED
    BY <1>6, <1>11, <2>1, <2>2, <2>4 DEF Loses
<1>15. /\ Stored(more, idx)
       /\ \A r \in Index : idx[r].refCount = n[r]
       /\ \A r \in Index : n[r] > 0 =>
            /\ r \notin gone /\ slot[r].refCount > 0
            /\ Holding(more, idx)[r] = more[slot[r].storage[1]][slot[r].storage[2]]
  <2> HIDE DEF n
  <2> QED
    BY <1>14, LessStored
<1> HIDE DEF idx
<1>16. Stored(block', slot') /\ counts' = [r \in Index |-> n[r]] /\ contents' = Holding(more, idx)
  <2>1. Stored(block', slot')
    BY <1>7, <1>9, <1>15
  <2>2. counts' = [r \in Index |-> n[r]]
    BY <1>7, <1>15 DEF counts
  <2>3. contents' = Holding(more, idx)
    BY <1>7, <1>9 DEF contents
  <2> QED
    BY <2>1, <2>2, <2>3
<1>17. Replaced(contents, b, k, s, counts, counts')
  <2>1. ASSUME NEW r \in Index
        PROVE  counts'[r] = counts[r] - One(r = o /\ r # s) + One(r = s /\ r # o)
    <3>1. counts'[r] = n[r] /\ counts[r] = slot[r].refCount
      BY <1>16 DEF counts
    <3> HIDE DEF n, o
    <3> QED
      BY <1>13, <3>1
  <2> QED
    BY <2>1 DEF Replaced
<1>18. counts' \in [Index -> Nat]
  BY <1>13, <1>16
<1>19. contents'[b] = WithElement(contents[b], k, s)
  <2>1. n[b] = 1
    <3>1. n[b] = slot[b].refCount - One(b = o /\ b # s) + One(b = s /\ b # o)
      BY <1>13
    <3>2. One(b = o /\ b # s) = 0 /\ One(b = s /\ b # o) = 0
      BY <1>0 DEF One
    <3> HIDE DEF n, o
    <3> QED
      BY <3>1, <3>2
  <2> HIDE DEF n, o
  <2>2. Holding(more, idx)[b] = more[x][y]
    <3>1. n[b] > 0
      BY <2>1
    <3>2. Holding(more, idx)[b] = more[slot[b].storage[1]][slot[b].storage[2]]
      BY <1>15, <3>1
    <3> QED
      BY <3>2 DEF x, y
  <2> QED
    BY <1>11, <1>16, <2>2
<1>20. ASSUME NEW r \in Index, counts'[r] > 0, r # b PROVE contents'[r] = contents[r]
  <2>1. n[r] > 0
    BY <1>16, <1>20
  <2> HIDE DEF n
  <2>2. r \in Index \ gone /\ slot[r].refCount > 0
        /\ contents'[r] = more[slot[r].storage[1]][slot[r].storage[2]]
    BY <1>15, <1>16, <2>1
  <2> QED
    BY <1>12, <1>20, <2>2
<1> QED
  BY <1>16, <1>17, <1>18, <1>19, <1>20

\* What the values and the slots of handles are in every state.
LEMMA HandleHas ==
  ASSUME HeapInv, NEW p \in Heap!Places, handle[p] # 0
  PROVE  /\ handle[p] \in Index /\ slot[handle[p]].refCount \in Nat /\ slot[handle[p]].refCount > 0
         /\ counts[handle[p]] = slot[handle[p]].refCount
         /\ contents[handle[p]] \in Entries
         /\ Heap!Storage(handle[p]) = contents[handle[p]]
         /\ Heap!IsArray(handle[p]) <=> IsArrayIn(contents, handle[p])
<1>1. handle[p] \in Index
  BY KeptHas, NumberIs DEF HeapInv
<1>2. counts[handle[p]] \in Nat /\ counts[handle[p]] > 0
  BY <1>1, NamedOnce DEF HeapInv, Kept
<1>3. counts[handle[p]] = slot[handle[p]].refCount
  BY <1>1 DEF counts
<1>4. contents[handle[p]] \in Entries
  BY <1>1, <1>2 DEF HeapInv, Kept, Elementary
<1>5. Heap!Storage(handle[p]) = contents[handle[p]]
  BY <1>1, <1>2, <1>3, StorageIs DEF HeapInv
<1> QED
  BY <1>1, <1>2, <1>3, <1>4, <1>5 DEF Heap!IsArray, IsArrayIn

\* AllocateHandle finds a slot that is not in use.
LEMMA FirstFreeIs ==
  ASSUME HeapInv, Heap!HasFreeSlot
  PROVE  Heap!FirstFree \in Index /\ slot[Heap!FirstFree].refCount = 0 /\ counts[Heap!FirstFree] = 0
<1> DEFINE T == {s \in 1 .. Slots : Heap!SlotIsFree(s)}
<1>1. T \in SUBSET Nat /\ T # {}
  BY HeapConstants DEF Heap!HasFreeSlot
<1>2. Heap!FirstFree \in T
  BY <1>1, SmallestIn DEF Heap!FirstFree
<1>3. Heap!FirstFree \in Index /\ slot[Heap!FirstFree] = Heap!FreeSlot
  BY <1>2 DEF Index, Heap!SlotIsFree
<1> QED
  BY <1>3 DEF counts, Heap!FreeSlot

\* A slot of which there is one reference more.
LEMMA NewSlotCounts ==
  ASSUME HeapInv, NEW s \in Index, slot[s].refCount = 0,
         NEW n, n = [counts EXCEPT ![s] = 1]
  PROVE  /\ n \in [Index -> Nat] /\ n[s] = 1 /\ SameInUse(slot, n, s)
         /\ \A r \in Index : r # s => Heap!RefCounts[r] = n[r]
<1>1. counts \in [Index -> Nat]
  BY KeptHas DEF HeapInv
<1>2. n \in [Index -> Nat] /\ n[s] = 1 /\ \A r \in Index : r # s => n[r] = slot[r].refCount
  BY <1>1 DEF counts
<1>3. \A r \in Index : Heap!RefCounts[r] = slot[r].refCount
  BY DEF Heap!RefCounts, Index
<1> QED
  BY <1>2, <1>3 DEF SameInUse

\* The hypotheses of StoreKeeps, as one.
Storing(s, length, text, elements, n, refCounts) ==
  /\ s \in Index /\ slot[s].refCount = 0
  /\ length \in Nat /\ text \in HeapTexts /\ elements \in Seq(0 .. Slots)
  /\ n \in [Index -> Nat] /\ SameInUse(slot, n, s) /\ n[s] = 1
  /\ \A r \in Index : r # s => refCounts[r] = n[r]
  /\ Heap!Store(s, length, text, elements, refCounts)

LEMMA StoringKeeps ==
  ASSUME HeapInv, NEW s, NEW length, NEW text, NEW elements, NEW n, NEW refCounts,
         Storing(s, length, text, elements, n, refCounts),
         NEW entry, entry = [length |-> length, free |-> FALSE, text |-> text, elements |-> elements]
  PROVE  /\ Stored(block', slot') /\ counts' = n /\ contents'[s] = entry
         /\ \A r \in Index : slot[r].refCount > 0 => contents'[r] = contents[r]
<1>1. Stored(block, slot)
  BY DEF HeapInv
<1>2. /\ s \in Index /\ slot[s].refCount = 0
      /\ length \in Nat /\ text \in HeapTexts /\ elements \in Seq(0 .. Slots)
      /\ n \in [Index -> Nat] /\ SameInUse(slot, n, s) /\ n[s] = 1
      /\ \A r \in Index : r # s => refCounts[r] = n[r]
      /\ Heap!Store(s, length, text, elements, refCounts)
  BY DEF Storing
<1> QED
  BY <1>1, <1>2, StoreKeeps

\* The actions of the heap, one by one.
LEMMA MakeStringKeeps ==
  ASSUME HeapInv, NEW t \in Writers, NEW i \in 1 .. Handles[t], NEW text \in Heap!Texts,
         Heap!MakeString(t, i, text)
  PROVE  HeapInv'
<1> DEFINE s == Heap!FirstFree
           p == <<t, i>>
           n == [counts EXCEPT ![s] = 1]
           val == [isArray |-> FALSE, texts |-> <<text>>]
           entry == [length |-> Length[text], free |-> FALSE, text |-> text, elements |-> <<>>]
<1>1. /\ Heap!NoReaders /\ Heap!HasFreeSlot /\ handle[p] = 0
      /\ Heap!Store(s, Length[text], text, <<>>, Heap!RefCounts)
      /\ handle' = [handle EXCEPT ![p] = s] /\ value' = [value EXCEPT ![p] = val]
      /\ at' = at /\ target' = target
  BY DEF Heap!MakeString, Heap!Null
<1>2. s \in Index /\ slot[s].refCount = 0 /\ counts[s] = 0
  BY <1>1, FirstFreeIs
<1>3. t \in Tasks /\ p \in Heap!Places
  BY HeapConstants DEF Heap!Places
<1>4. Length[text] \in Nat /\ text \in HeapTexts /\ text # Heap!Nothing
  BY HeapAssumed DEF Heap!HeapAssumption, Heap!Texts, HeapTexts
<1>5. <<>> \in Seq(0 .. Slots) /\ <<text>> \in Seq(HeapTexts)
  BY <1>4
<1> HIDE DEF s, p
<1>6. /\ n \in [Index -> Nat] /\ n[s] = 1 /\ SameInUse(slot, n, s)
      /\ \A r \in Index : r # s => Heap!RefCounts[r] = n[r]
  BY <1>2, NewSlotCounts
<1> HIDE DEF n, entry, val
<1>7. Stored(block, slot) /\ Kept(counts, contents, handle, at, target, value)
  BY DEF HeapInv
<1>8. /\ Stored(block', slot') /\ counts' = n /\ contents'[s] = entry
      /\ \A r \in Index : slot[r].refCount > 0 => contents'[r] = contents[r]
  <2>1. Storing(s, Length[text], text, <<>>, n, Heap!RefCounts)
    BY <1>1, <1>2, <1>4, <1>5, <1>6 DEF Storing
  <2> QED
    BY <2>1, StoringKeeps DEF entry
<1>9. entry \in Entries /\ entry.text = text
  BY <1>4, <1>5 DEF entry, Entries
<1>10. ~IsArrayIn(contents', s)
  BY <1>4, <1>8, <1>9 DEF IsArrayIn
<1>11. val \in [isArray : BOOLEAN, texts : Seq(HeapTexts)] /\ HasValue(contents', s, val)
  <2>1. val \in [isArray : BOOLEAN, texts : Seq(HeapTexts)]
    BY <1>5 DEF val
  <2>2. val.isArray = FALSE /\ val.texts = <<text>>
    BY DEF val
  <2>3. val.texts # <<>> /\ val.texts[1] = text
    BY <2>2
  <2> QED
    <3>1. contents'[s].text = text
      BY <1>8, <1>9
    <3> QED
      BY <1>10, <2>1, <2>2, <2>3, <3>1 DEF HasValue, IsArrayIn
<1>12. \A u \in Tasks : at[u] = "idle"
  BY <1>1 DEF Heap!NoReaders
<1>13. \A r \in Index : counts[r] > 0 => contents'[r] = contents[r]
  BY <1>8 DEF counts
<1>14. Kept(n, contents', [handle EXCEPT ![p] = s], at, target, [value EXCEPT ![p] = val])
  <2>1. n = [counts EXCEPT ![s] = 1]
    BY DEF n
  <2> QED
    BY <1>1, <1>2, <1>3, <1>7, <1>8, <1>9, <1>10, <1>11, <1>12, <1>13, <2>1, FreshSlotKeeps
<1> QED
  BY <1>1, <1>8, <1>14 DEF HeapInv

LEMMA MakeArrayKeeps ==
  ASSUME HeapInv, NEW t \in Writers, NEW i \in 1 .. Handles[t], Heap!MakeArray(t, i)
  PROVE  HeapInv'
<1> DEFINE s == Heap!FirstFree
           p == <<t, i>>
           n == [counts EXCEPT ![s] = 1]
           none == [k \in 1 .. Elements |-> 0]
           val == [isArray |-> TRUE, texts |-> [k \in 1 .. Elements |-> Heap!Nothing]]
           entry == [length |-> Elements, free |-> FALSE, text |-> Heap!Nothing, elements |-> none]
<1>1. /\ Heap!NoReaders /\ Heap!HasFreeSlot /\ handle[p] = 0
      /\ Heap!Store(s, Elements, Heap!Nothing, none, Heap!RefCounts)
      /\ handle' = [handle EXCEPT ![p] = s] /\ value' = [value EXCEPT ![p] = val]
      /\ at' = at /\ target' = target
  BY DEF Heap!MakeArray, Heap!Null
<1>2. s \in Index /\ slot[s].refCount = 0 /\ counts[s] = 0
  BY <1>1, FirstFreeIs
<1>3. t \in Tasks /\ p \in Heap!Places
  BY HeapConstants DEF Heap!Places
<1>4. Elements \in Nat /\ Heap!Nothing \in HeapTexts
  BY HeapConstants DEF HeapTexts
<1>5. none \in Seq(0 .. Slots) /\ [k \in 1 .. Elements |-> Heap!Nothing] \in Seq(HeapTexts)
  BY <1>4, HeapConstants, SeqDef
<1> HIDE DEF s, p
<1>6. /\ n \in [Index -> Nat] /\ n[s] = 1 /\ SameInUse(slot, n, s)
      /\ \A r \in Index : r # s => Heap!RefCounts[r] = n[r]
  BY <1>2, NewSlotCounts
<1> HIDE DEF n, entry, val, none
<1>7. Stored(block, slot) /\ Kept(counts, contents, handle, at, target, value)
  BY DEF HeapInv
<1>8. /\ Stored(block', slot') /\ counts' = n /\ contents'[s] = entry
      /\ \A r \in Index : slot[r].refCount > 0 => contents'[r] = contents[r]
  <2>1. Storing(s, Elements, Heap!Nothing, none, n, Heap!RefCounts)
    BY <1>1, <1>2, <1>4, <1>5, <1>6 DEF Storing
  <2> QED
    BY <2>1, StoringKeeps DEF entry
<1>9. entry \in Entries /\ entry.text = Heap!Nothing /\ entry.elements = none
  BY <1>4, <1>5 DEF entry, Entries
<1>10. IsArrayIn(contents', s) /\ contents'[s].elements = [k \in 1 .. Elements |-> 0]
  BY <1>8, <1>9 DEF IsArrayIn, none
<1>11. val \in [isArray : BOOLEAN, texts : Seq(HeapTexts)] /\ HasValue(contents', s, val)
  <2>1. val \in [isArray : BOOLEAN, texts : Seq(HeapTexts)]
    BY <1>5 DEF val
  <2>2. val.isArray = TRUE /\ val.texts = [k \in 1 .. Elements |-> Heap!Nothing]
    BY DEF val
  <2>3. val.texts \in [1 .. Elements -> HeapTexts]
    BY <1>4, <2>2
  <2>4. \A k \in 1 .. Elements : TextOf(contents', contents'[s].elements[k]) = val.texts[k]
    BY <1>10, <2>2 DEF TextOf
  <2> QED
    BY <1>10, <2>1, <2>2, <2>3, <2>4 DEF HasValue
<1>12. \A u \in Tasks : at[u] = "idle"
  BY <1>1 DEF Heap!NoReaders
<1>13. \A r \in Index : counts[r] > 0 => contents'[r] = contents[r]
  BY <1>8 DEF counts
<1>14. Kept(n, contents', [handle EXCEPT ![p] = s], at, target, [value EXCEPT ![p] = val])
  <2>1. n = [counts EXCEPT ![s] = 1]
    BY DEF n
  <2> QED
    BY <1>1, <1>2, <1>3, <1>7, <1>8, <1>9, <1>10, <1>11, <1>12, <1>13, <2>1, FreshSlotKeeps
<1> QED
  BY <1>1, <1>8, <1>14 DEF HeapInv

\* What names an element of an array of a handle.
LEMMA ArrayOf ==
  ASSUME HeapInv, Heap!NoReaders, NEW p \in Heap!Places, handle[p] # 0,
         IsArrayIn(contents, handle[p])
  PROVE  /\ handle[p] \in Arrays(counts, contents, handle, at, target)
         /\ contents[handle[p]].elements \in [1 .. Elements -> 0 .. Slots]
         /\ \A k \in 1 .. Elements : contents[handle[p]].elements[k] # 0 =>
              /\ contents[handle[p]].elements[k] \in Index
              /\ ~IsArrayIn(contents, contents[handle[p]].elements[k])
              /\ slot[contents[handle[p]].elements[k]].refCount > 0
<1> DEFINE b == handle[p]
           B == Arrays(counts, contents, handle, at, target)
<1>1. b \in Index /\ counts[b] > 0
  BY HandleHas
<1>2. Dying(handle, at, target) = {}
  BY IdleIsNotDying DEF Heap!NoReaders
<1>3. b \in B
  BY <1>1, <1>2 DEF Arrays
<1> HIDE DEF b, B
<1>4. /\ Counted(counts, contents, handle, at, target)
      /\ contents[b].elements \in [1 .. Elements -> 0 .. Slots]
      /\ \A k \in 1 .. Elements : contents[b].elements[k] # 0 => ~IsArrayIn(contents, contents[b].elements[k])
  BY <1>3 DEF HeapInv, Kept, Elementary, B
<1>5. ASSUME NEW k \in 1 .. Elements, contents[b].elements[k] # 0
      PROVE  /\ contents[b].elements[k] \in Index
             /\ slot[contents[b].elements[k]].refCount > 0
  <2>1. contents[b].elements[k] \in Index
    BY <1>4, <1>5, NumberIs
  <2>2. counts[contents[b].elements[k]] > 0
    BY <1>3, <1>4, <2>1, ElementNamed DEF B
  <2> QED
    BY <2>1, <2>2 DEF counts
<1> QED
  BY <1>3, <1>4, <1>5 DEF b, B

LEMMA CopyAndAssignKeeps ==
  ASSUME HeapInv, Heap!NoReaders, NEW t, NEW i, NEW j, NEW k \in 1 .. Elements,
         NEW p \in Heap!Places, p = <<t, i>>, NEW q \in Heap!Places, q = <<t, j>>,
         handle[p] # 0, handle[q] # 0,
         IsArrayIn(contents, handle[p]), ~IsArrayIn(contents, handle[q]),
         Heap!CopyAndAssign(t, i, k, j)
  PROVE  /\ Stored(block', slot')
         /\ Kept(counts', contents', handle', at, target,
                 [value EXCEPT ![p] = Assigned(value[p], k, value[q].texts[1])])
<1> DEFINE b == handle[p]
           s == Heap!FirstFree
           elements == [contents[b].elements EXCEPT ![k] = handle[q]]
           more(r) == {x \in 1 .. Elements : elements[x] = r}
           n == [r \in Index |-> IF r = s THEN 1
                                 ELSE slot[r].refCount + Cardinality(more(r)) - (IF r = b THEN 1 ELSE 0)]
           refCounts == [r \in 1 .. Slots |->
                           slot[r].refCount + Cardinality(more(r)) - (IF r = b THEN 1 ELSE 0)]
           entry == [length |-> Elements, free |-> FALSE, text |-> Heap!Nothing, elements |-> elements]
<1>1. /\ b \in Index /\ contents[b] \in Entries /\ Heap!Storage(b) = contents[b]
      /\ handle[q] \in Index /\ slot[handle[q]].refCount > 0
  BY HandleHas
<1>2. /\ contents[b].elements \in [1 .. Elements -> 0 .. Slots]
      /\ \A x \in 1 .. Elements : contents[b].elements[x] # 0 =>
              slot[contents[b].elements[x]].refCount > 0
  BY ArrayOf
<1>3. /\ elements \in [1 .. Elements -> 0 .. Slots] /\ elements[k] = handle[q]
      /\ \A x \in 1 .. Elements : x # k => elements[x] = contents[b].elements[x]
  <2>1. handle[q] \in 0 .. Slots
    BY <1>1 DEF Index
  <2> HIDE DEF b
  <2> QED
    BY <1>2, <2>1
<1>4. elements \in Seq(0 .. Slots)
  <2>1. Elements \in Nat
    BY HeapConstants
  <2> HIDE DEF elements
  <2> QED
    BY <1>3, <2>1, SeqDef
<1>5. /\ Heap!HasFreeSlot /\ slot[b].refCount > 1
      /\ Heap!Store(s, Elements, Heap!Nothing, elements, refCounts)
      /\ handle' = [handle EXCEPT ![p] = s]
  <2>1. \A S : Heap!Cardinality(S) = Cardinality(S)
    BY DEF Heap!Cardinality, Cardinality, Heap!IsFiniteSet, IsFiniteSet
  <2>2. refCounts = [r \in 1 .. Slots |->
          slot[r].refCount + Heap!Cardinality({x \in 1 .. Elements :
             [Heap!Storage(handle[<<t, i>>]).elements EXCEPT ![k] = handle[<<t, j>>]][x] = r})
            - (IF r = handle[<<t, i>>] THEN 1 ELSE 0)]
    BY <1>1, <2>1
  <2> HIDE DEF refCounts
  <2> QED
    BY <1>1, <2>2 DEF Heap!CopyAndAssign
<1>6. s \in Index /\ slot[s].refCount = 0 /\ counts[s] = 0
  BY <1>5, FirstFreeIs
<1> HIDE DEF elements, s, b
<1>7. ASSUME NEW r \in Index
      PROVE  /\ slot[r].refCount \in Nat /\ Cardinality(more(r)) \in Nat
             /\ slot[r].refCount = 0 => Cardinality(more(r)) = 0
  <2>1. slot[r].refCount \in Nat
    BY StoredHas DEF HeapInv
  <2>2. IsFiniteSet(more(r)) /\ Cardinality(more(r)) \in Nat
    <3>1. IsFiniteSet(1 .. Elements)
      BY NumbersFinite, HeapConstants
    <3>2. more(r) \subseteq 1 .. Elements
      OBVIOUS
    <3> QED
      BY <3>1, <3>2, FS_Subset, FS_CardinalityType
  <2>3. ASSUME slot[r].refCount = 0, NEW x \in 1 .. Elements, elements[x] = r
        PROVE  FALSE
    <3>1. r # 0
      BY HeapConstants
    <3>2. CASE x = k
      BY <1>1, <1>3, <2>3, <3>2
    <3>3. CASE x # k
      BY <1>2, <1>3, <2>3, <3>1, <3>3
    <3> QED
      BY <3>2, <3>3
  <2>4. slot[r].refCount = 0 => more(r) = {}
    BY <2>3
  <2> QED
    BY <2>1, <2>2, <2>4, FS_EmptySet
<1> HIDE DEF more
<1>8. /\ n \in [Index -> Nat] /\ n[s] = 1 /\ SameInUse(slot, n, s)
      /\ \A r \in Index : r # s => refCounts[r] = n[r]
      /\ \A r \in Index : r # s => n[r] = counts[r] + Cardinality(more(r)) - One(r = b)
  <2>1. ASSUME NEW r \in Index, r # s
        PROVE  /\ n[r] \in Nat /\ (n[r] = 0 <=> slot[r].refCount = 0) /\ refCounts[r] = n[r]
               /\ n[r] = counts[r] + Cardinality(more(r)) - One(r = b)
    <3>1. n[r] = slot[r].refCount + Cardinality(more(r)) - (IF r = b THEN 1 ELSE 0)
      BY <2>1
    <3>2. refCounts[r] = slot[r].refCount + Cardinality(more(r)) - (IF r = b THEN 1 ELSE 0)
      BY DEF Index
    <3>3. counts[r] = slot[r].refCount
      BY DEF counts
    <3> HIDE DEF n, refCounts
    <3> QED
      BY <1>5, <1>7, <3>1, <3>2, <3>3 DEF One
  <2>2. n[s] = 1
    BY <1>6
  <2>3. \A r \in Index : n[r] \in Nat
    <3>1. ASSUME NEW r \in Index PROVE n[r] \in Nat
      <4>1. CASE r = s
        BY <2>2, <4>1
      <4>2. CASE r # s
        BY <2>1, <4>2
      <4> HIDE DEF n
      <4> QED
        BY <4>1, <4>2
    <3> QED
      BY <3>1
  <2>4. n \in [Index -> Nat]
    BY <2>3
  <2> HIDE DEF n, refCounts
  <2> QED
    BY <2>1, <2>2, <2>4 DEF SameInUse
<1> HIDE DEF n, refCounts, entry
<1>9. Stored(block, slot) /\ Kept(counts, contents, handle, at, target, value)
  BY DEF HeapInv
<1>10. Elements \in Nat /\ Heap!Nothing \in HeapTexts
  BY HeapConstants DEF HeapTexts
<1>11. /\ Stored(block', slot') /\ counts' = n /\ contents'[s] = entry
       /\ \A r \in Index : slot[r].refCount > 0 => contents'[r] = contents[r]
  <2>1. Storing(s, Elements, Heap!Nothing, elements, n, refCounts)
    BY <1>4, <1>5, <1>6, <1>8, <1>10 DEF Storing
  <2> QED
    BY <2>1, StoringKeeps DEF entry
<1>12. entry \in Entries /\ entry.text = Heap!Nothing /\ entry.elements = elements
  BY <1>4, <1>10 DEF entry, Entries
<1>13. /\ IsArrayIn(contents', s) /\ contents'[s].elements = elements /\ contents'[s] \in Entries
       /\ ElementsBut(contents, b, contents', s, k)
  BY <1>3, <1>11, <1>12 DEF IsArrayIn, ElementsBut
<1>14. \A r \in Index : r # s =>
         n[r] = counts[r] + Cardinality(At(contents', s, r)) - One(r = b)
  BY <1>8, <1>13 DEF At, more
<1>15. \A r \in Index : counts[r] > 0 => contents'[r] = contents[r]
  BY <1>11 DEF counts
<1>16. CopyOf(counts, contents, b, handle[q], k, s, n, contents')
  BY <1>3, <1>8, <1>13, <1>14, <1>15 DEF CopyOf
<1>17. \A u \in Tasks : at[u] = "idle"
  BY DEF Heap!NoReaders
<1>18. Kept(n, contents', [handle EXCEPT ![p] = s], at, target,
            [value EXCEPT ![p] = Assigned(value[p], k, value[q].texts[1])])
  BY <1>6, <1>9, <1>16, <1>17, CopyAndAssignKeepsHandles DEF b
<1> QED
  BY <1>5, <1>11, <1>18

\* What an array with another element is, and what the counts are then.
ReplacedIn(c, d, p, q, k, n, m) ==
  /\ \A r \in Index : m[r] > 0 /\ r # handle[p] => d[r] = c[r]
  /\ Replaced(c, handle[p], k, handle[q], n, m)
  /\ d[handle[p]] \in Entries /\ IsArrayIn(d, handle[p])
  /\ d[handle[p]].elements \in [1 .. Elements -> 0 .. Slots]
  /\ d[handle[p]].elements[k] = handle[q] /\ ElementsBut(c, handle[p], d, handle[p], k)

LEMMA ReplacedInKeeps ==
  ASSUME HeapInv, Heap!NoReaders, NEW p \in Heap!Places, NEW q \in Heap!Places,
         handle[p] # 0, handle[q] # 0,
         IsArrayIn(contents, handle[p]), ~IsArrayIn(contents, handle[q]), NEW k \in 1 .. Elements,
         counts[handle[p]] = 1, NEW m \in [Index -> Nat],
         NEW d, ReplacedIn(contents, d, p, q, k, counts, m)
  PROVE  Kept(m, d, handle, at, target,
              [value EXCEPT ![p] = Assigned(value[p], k, value[q].texts[1])])
<1>1. Kept(counts, contents, handle, at, target, value)
  BY DEF HeapInv
<1>2. \A u \in Tasks : at[u] = "idle"
  BY DEF Heap!NoReaders
<1>3. /\ \A r \in Index : m[r] > 0 /\ r # handle[p] => d[r] = contents[r]
      /\ d[handle[p]] \in Entries /\ IsArrayIn(d, handle[p])
      /\ d[handle[p]].elements \in [1 .. Elements -> 0 .. Slots]
      /\ d[handle[p]].elements[k] = handle[q] /\ ElementsBut(contents, handle[p], d, handle[p], k)
  BY DEF ReplacedIn
<1>4. \A r \in Index :
        m[r] = counts[r] - One(r = contents[handle[p]].elements[k] /\ r # handle[q])
                         + One(r = handle[q] /\ r # contents[handle[p]].elements[k])
  BY DEF ReplacedIn, Replaced
<1> QED
  BY <1>1, <1>2, <1>3, <1>4, AssignInPlaceKeepsHandles

LEMMA InPlaceKeeps ==
  ASSUME HeapInv, Heap!NoReaders, NEW t, NEW i, NEW j, NEW k \in 1 .. Elements,
         NEW p \in Heap!Places, p = <<t, i>>, NEW q \in Heap!Places, q = <<t, j>>,
         handle[p] # 0, handle[q] # 0,
         IsArrayIn(contents, handle[p]), ~IsArrayIn(contents, handle[q]),
         Heap!AssignInPlace(t, i, k, j)
  PROVE  /\ Stored(block', slot')
         /\ Kept(counts', contents', handle', at, target,
                 [value EXCEPT ![p] = Assigned(value[p], k, value[q].texts[1])])
<1> DEFINE b == handle[p]
           s == handle[q]
<1>1. /\ b \in Index /\ contents[b] \in Entries /\ counts[b] = slot[b].refCount
      /\ s \in Index /\ slot[s].refCount > 0 /\ s # b
  BY HandleHas
<1>2. /\ contents[b].elements \in [1 .. Elements -> 0 .. Slots]
      /\ contents[b].elements[k] # 0 =>
           /\ ~IsArrayIn(contents, contents[b].elements[k])
           /\ slot[contents[b].elements[k]].refCount > 0
      /\ b # 0
  BY ArrayOf
<1>3. contents[b].elements[k] # b
  BY <1>2
<1>4. slot[b].refCount = 1 /\ handle' = handle
  BY DEF Heap!AssignInPlace
<1>5. b = handle[<<t, i>>] /\ s = handle[<<t, j>>] /\ IsArrayIn(contents, b)
  OBVIOUS
<1> HIDE DEF b, s
<1>6. /\ Stored(block', slot') /\ counts' \in [Index -> Nat]
      /\ Replaced(contents, b, k, s, counts, counts')
      /\ contents'[b] = WithElement(contents[b], k, s)
      /\ \A r \in Index : counts'[r] > 0 /\ r # b => contents'[r] = contents[r]
  <2>1. Stored(block, slot)
    BY DEF HeapInv
  <2>2. Replaceable(contents, b, k)
    BY <1>1, <1>2, <1>3 DEF Replaceable
  <2> QED
    BY <1>1, <1>4, <1>5, <2>1, <2>2, AssignInPlaceStores
<1> DEFINE entry == WithElement(contents[b], k, s)
<1>7. /\ entry \in Entries /\ entry.text = contents[b].text
      /\ entry.elements \in [1 .. Elements -> 0 .. Slots] /\ entry.elements[k] = s
      /\ \A x \in 1 .. Elements : x # k => entry.elements[x] = contents[b].elements[x]
  <2>1. s \in 0 .. Slots
    BY <1>1 DEF Index
  <2> QED
    BY <1>1, <1>2, <2>1, WithElementIs
<1> HIDE DEF entry
<1>8. /\ contents'[b] \in Entries /\ IsArrayIn(contents', b)
      /\ contents'[b].elements \in [1 .. Elements -> 0 .. Slots]
      /\ contents'[b].elements[k] = s /\ ElementsBut(contents, b, contents', b, k)
  BY <1>5, <1>6, <1>7 DEF IsArrayIn, ElementsBut, entry
<1>9. ReplacedIn(contents, contents', p, q, k, counts, counts')
  BY <1>6, <1>8 DEF ReplacedIn, b, s
<1>10. counts[handle[p]] = 1
  BY <1>1, <1>4 DEF b
<1>11. Kept(counts', contents', handle, at, target,
            [value EXCEPT ![p] = Assigned(value[p], k, value[q].texts[1])])
  BY <1>6, <1>9, <1>10, ReplacedInKeeps
<1> QED
  BY <1>4, <1>6, <1>11

LEMMA AssignElementKeeps ==
  ASSUME HeapInv, NEW t \in Writers, NEW i \in 1 .. Handles[t], NEW j \in 1 .. Handles[t],
         NEW k \in 1 .. Elements, Heap!AssignElement(t, i, k, j)
  PROVE  HeapInv'
<1> DEFINE p == <<t, i>>
           q == <<t, j>>
<1>1. p \in Heap!Places /\ q \in Heap!Places
  BY HeapConstants DEF Heap!Places
<1>2. /\ Heap!NoReaders /\ handle[p] # 0 /\ handle[q] # 0
      /\ Heap!IsArray(handle[p]) /\ ~Heap!IsArray(handle[q])
      /\ Heap!CopyAndAssign(t, i, k, j) \/ Heap!AssignInPlace(t, i, k, j)
      /\ value' = [value EXCEPT ![p].texts[k] = value[q].texts[1]]
      /\ at' = at /\ target' = target
  BY DEF Heap!AssignElement, Heap!Null
<1> HIDE DEF p, q
<1>3. IsArrayIn(contents, handle[p]) /\ ~IsArrayIn(contents, handle[q])
  BY <1>1, <1>2, HandleHas
<1>4. value' = [value EXCEPT ![p] = Assigned(value[p], k, value[q].texts[1])]
  BY <1>2 DEF Assigned
<1>5. p = <<t, i>> /\ q = <<t, j>>
  BY DEF p, q
<1>6. /\ Stored(block', slot')
      /\ Kept(counts', contents', handle', at, target,
              [value EXCEPT ![p] = Assigned(value[p], k, value[q].texts[1])])
  <2>1. CASE Heap!CopyAndAssign(t, i, k, j)
    BY <1>1, <1>2, <1>3, <1>5, <2>1, CopyAndAssignKeeps
  <2>2. CASE Heap!AssignInPlace(t, i, k, j)
    BY <1>1, <1>2, <1>3, <1>5, <2>2, InPlaceKeeps
  <2> QED
    BY <1>2, <2>1, <2>2
<1> QED
  BY <1>2, <1>4, <1>6 DEF HeapInv

\* A slot is named once more.
LEMMA MoreStored ==
  ASSUME Stored(block, slot), NEW s \in Index, slot[s].refCount > 0,
         slot' = [slot EXCEPT ![s].refCount = @ + 1], block' = block
  PROVE  /\ Stored(block', slot') /\ counts' = [counts EXCEPT ![s] = @ + 1]
         /\ contents' = contents
<1>1. /\ slot[s].refCount \in Nat
      /\ slot[s] = [refCount |-> slot[s].refCount, storage |-> slot[s].storage]
  BY StoredHas
<1>2. slot \in [Index -> [refCount : Nat, storage : Nat \X Nat]]
  BY DEF Stored
<1>3. slot' \in [Index -> [refCount : Nat, storage : Nat \X Nat]]
  BY <1>1, <1>2
<1>4. ASSUME NEW r \in Index
      PROVE  /\ slot'[r].storage = slot[r].storage
             /\ slot'[r].refCount = IF r = s THEN slot[r].refCount + 1 ELSE slot[r].refCount
             /\ slot[r].refCount \in Nat
             /\ slot'[r].refCount = 0 => slot'[r] = slot[r]
  <2>1. slot[r].refCount \in Nat
    BY StoredHas
  <2>2. CASE r = s
    BY <1>1, <1>2, <2>2
  <2>3. CASE r # s
    BY <1>2, <2>1, <2>3
  <2> QED
    BY <2>2, <2>3
<1>5. \A r \in Index : slot'[r].refCount > 0 <=> slot[r].refCount > 0
  BY <1>1, <1>4
<1>6. contents' = contents
  BY <1>4, <1>5 DEF contents, Holding
<1>7. counts' = [counts EXCEPT ![s] = @ + 1]
  BY <1>4 DEF counts
<1>8. ASSUME NEW r \in Index
      PROVE  IF slot'[r].refCount = 0 THEN slot'[r] = Heap!FreeSlot
             ELSE /\ slot'[r].storage[1] \in DOMAIN block
                  /\ slot'[r].storage[2] \in DOMAIN block[slot'[r].storage[1]]
                  /\ ~block[slot'[r].storage[1]][slot'[r].storage[2]].free
  <2>1. slot[r].refCount = 0 <=> slot'[r].refCount = 0
    BY <1>1, <1>4
  <2>2. CASE slot'[r].refCount = 0
    BY <1>4, <2>1, <2>2 DEF Stored
  <2>3. CASE slot'[r].refCount # 0
    <3>1. /\ slot[r].storage[1] \in DOMAIN block
          /\ slot[r].storage[2] \in DOMAIN block[slot[r].storage[1]]
          /\ ~block[slot[r].storage[1]][slot[r].storage[2]].free
      BY <2>1, <2>3 DEF Stored
    <3>2. slot'[r].storage = slot[r].storage
      BY <1>4
    <3> QED
      BY <2>3, <3>1, <3>2
  <2> QED
    BY <2>2, <2>3
<1>9. ASSUME NEW r \in Index, NEW x \in Index,
             slot'[r].refCount > 0, slot'[x].refCount > 0, slot'[r].storage = slot'[x].storage
      PROVE  r = x
  <2>1. slot[r].refCount > 0 /\ slot[x].refCount > 0 /\ slot[r].storage = slot[x].storage
    BY <1>4, <1>5, <1>9
  <2> QED
    BY <2>1 DEF Stored
<1>10. block' \in Seq(Seq(Entries)) /\ block' = block
  BY DEF Stored
<1>11. Stored(block', slot')
  <2> DEFINE more == slot'
  <2>1. \A r, x \in Index :
          more[r].refCount > 0 /\ more[x].refCount > 0 /\ more[r].storage = more[x].storage
            => r = x
    BY <1>9
  <2>2. \A r \in Index :
          IF more[r].refCount = 0 THEN more[r] = Heap!FreeSlot
          ELSE /\ more[r].storage[1] \in DOMAIN block
               /\ more[r].storage[2] \in DOMAIN block[more[r].storage[1]]
               /\ ~block[more[r].storage[1]][more[r].storage[2]].free
    BY <1>8
  <2>3. more \in [Index -> [refCount : Nat, storage : Nat \X Nat]]
    BY <1>3
  <2> HIDE DEF more
  <2>4. Stored(block, more)
    BY <1>10, <2>1, <2>2, <2>3 DEF Stored
  <2> QED
    BY <1>10, <2>4 DEF more
<1> QED
  BY <1>6, <1>7, <1>11

LEMMA CopyKeeps ==
  ASSUME HeapInv, NEW t \in Tasks, NEW i \in 1 .. Handles[t],
         NEW u \in Tasks, NEW j \in 1 .. Handles[u], Heap!Copy(t, i, u, j)
  PROVE  HeapInv'
<1> DEFINE p == <<t, i>>
           q == <<u, j>>
<1>1. p \in Heap!Places /\ q \in Heap!Places
  BY HeapConstants DEF Heap!Places
<1>2. /\ handle[p] = 0 /\ handle[q] # 0 /\ ~(at[u] # "idle" /\ target[u] = j)
      /\ handle' = [handle EXCEPT ![p] = handle[q]]
      /\ value' = [value EXCEPT ![p] = value[q]]
      /\ slot' = [slot EXCEPT ![handle[q]].refCount = @ + 1]
      /\ block' = block /\ at' = at /\ target' = target
  BY DEF Heap!Copy, Heap!Null
<1>3. q[1] = u /\ q[2] = j
  OBVIOUS
<1> HIDE DEF p, q
<1>4. q \in LiveIn(handle, at, target)
  BY <1>1, <1>2, <1>3 DEF LiveIn
<1>5. handle[q] \in Index /\ slot[handle[q]].refCount > 0
  BY <1>1, <1>2, HandleHas
<1>6. /\ Stored(block', slot') /\ counts' = [counts EXCEPT ![handle[q]] = @ + 1]
      /\ contents' = contents
  BY <1>2, <1>5, MoreStored DEF HeapInv
<1>7. Kept([counts EXCEPT ![handle[q]] = @ + 1], contents, [handle EXCEPT ![p] = handle[q]],
           at, target, [value EXCEPT ![p] = value[q]])
  BY <1>1, <1>2, <1>4, CopyKeepsHandles DEF HeapInv
<1> QED
  BY <1>2, <1>6, <1>7 DEF HeapInv

LEMMA DeleteKeeps ==
  ASSUME HeapInv, NEW t \in Tasks, NEW i \in 1 .. Handles[t], Heap!Delete(t, i)
  PROVE  HeapInv'
<1> DEFINE p == <<t, i>>
           to == IF IsArrayIn(contents, handle[p]) /\ counts[handle[p]] = 1 THEN "elements" ELSE "slot"
<1>1. p \in Heap!Places
  BY HeapConstants DEF Heap!Places
<1>2. /\ at[t] = "idle" /\ handle[p] # 0
      /\ at' = [at EXCEPT ![t] =
           IF Heap!IsArray(handle[p]) /\ slot[handle[p]].refCount = 1 THEN "elements" ELSE "slot"]
      /\ target' = [target EXCEPT ![t] = i]
      /\ block' = block /\ slot' = slot /\ handle' = handle /\ value' = value
  BY DEF Heap!Delete, Heap!Null
<1>3. at' = [at EXCEPT ![t] = to]
  BY <1>1, <1>2, HandleHas
<1>4. counts' = counts /\ contents' = contents
  BY <1>2 DEF counts, contents
<1>5. Kept(counts, contents, handle, [at EXCEPT ![t] = to], [target EXCEPT ![t] = i], value)
  BY <1>2, DeleteKeepsHandles DEF HeapInv
<1> QED
  BY <1>2, <1>3, <1>4, <1>5 DEF HeapInv

\* The instance counts as this module does.
LEMMA CardinalityIs == \A S : Heap!Cardinality(S) = Cardinality(S)
BY DEF Heap!Cardinality, Cardinality, Heap!IsFiniteSet, IsFiniteSet

LEMMA DeleteElementsKeeps ==
  ASSUME HeapInv, NEW t \in Tasks, Heap!DeleteElements(t)
  PROVE  HeapInv'
<1> DEFINE p == <<t, target[t]>>
           b == handle[p]
           A == Arrays(counts, contents, handle, at, target)
           lost == [r \in Index |-> Cardinality(At(contents, b, r))]
           m == [r \in Index |-> counts[r] - Cardinality(At(contents, b, r))]
<1>1. /\ at[t] = "elements" /\ at' = [at EXCEPT ![t] = "slot"]
      /\ Heap!DeleteSlots([s \in 1 .. Slots |->
           Heap!Cardinality({k \in 1 .. Elements : Heap!Element(b, k) = s})])
      /\ handle' = handle /\ target' = target /\ value' = value
  BY DEF Heap!DeleteElements
<1>2. Stored(block, slot) /\ Kept(counts, contents, handle, at, target, value)
  BY DEF HeapInv
<1>3. p \in Heap!Places /\ b # 0 /\ b \in Index
  BY <1>1, <1>2, KeptHas, HeapConstants
<1>4. counts[b] = 1 /\ IsArrayIn(contents, b)
  BY <1>1, <1>2 DEF Kept, Elementary
<1>5. Heap!Storage(b) = contents[b]
  BY <1>3, HandleHas
<1>6. Heap!DeleteSlots(lost)
  <2>1. lost = [s \in 1 .. Slots |->
                 Heap!Cardinality({k \in 1 .. Elements : Heap!Element(b, k) = s})]
    <3>1. \A k : Heap!Element(b, k) = contents[b].elements[k]
      BY <1>5 DEF Heap!Element
    <3> HIDE DEF b
    <3> QED
      BY <3>1, CardinalityIs DEF At, Index
  <2> HIDE DEF lost
  <2> QED
    BY <1>1, <2>1
<1>7. b \in A
  <2>1. ASSUME b \in Dying(handle, at, target) PROVE FALSE
    <3>1. PICK u \in Tasks : at[u] = "slot" /\ b = handle[<<u, target[u]>>]
      BY <2>1 DEF Dying
    <3>2. <<u, target[u]>> \in Heap!Places /\ <<u, target[u]>> # p
      BY <1>1, <1>2, <3>1, KeptHas
    <3>3. Counted(counts, contents, handle, at, target)
      BY <1>2 DEF Kept
    <3> HIDE DEF p
    <3>4. counts[b] > 1
      BY <1>3, <3>1, <3>2, <3>3, NamedOnce
    <3> QED
      BY <1>4, <3>4
  <2> QED
    BY <1>3, <1>4, <2>1 DEF Arrays
<1> HIDE DEF p, b
<1>8. ASSUME NEW r \in Index
      PROVE  /\ Cardinality(At(contents, b, r)) \in Nat /\ counts[r] \in Nat
             /\ Cardinality(At(contents, b, r)) <= counts[r]
  <2>1. Counted(counts, contents, handle, at, target)
    BY <1>2 DEF Kept
  <2>2. /\ counts[r] \in Nat /\ Cardinality(NamedBy(handle, r)) \in Nat
        /\ Cardinality(ElementIn(contents, A, r)) \in Nat
        /\ Cardinality(NamedBy(handle, r)) + Cardinality(ElementIn(contents, A, r)) <= counts[r]
    BY <2>1, CardsAre
  <2>3. A \in SUBSET Index
    BY DEF Arrays
  <2> HIDE DEF A
  <2>4. Cardinality(At(contents, b, r)) <= Cardinality(ElementIn(contents, A, r))
    <3>1. {} \in SUBSET Index /\ {} \subseteq A \ {b} /\ \A x \in {} : contents[x].elements = contents[x].elements
      OBVIOUS
    <3> QED
      BY <1>7, <2>3, <3>1, ElementsLost
  <2>5. Cardinality(At(contents, b, r)) \in Nat
    BY AtCounts
  <2> QED
    BY <2>2, <2>4, <2>5
<1>9. /\ lost \in [Index -> Nat] /\ m \in [Index -> Nat] /\ LeftOf(slot, lost, m)
  <2>1. lost \in [Index -> Nat]
    BY <1>8
  <2>2. m \in [Index -> Nat]
    <3>1. \A r \in Index : counts[r] - Cardinality(At(contents, b, r)) \in Nat
      BY <1>8
    <3> QED
      BY <3>1
  <2>3. LeftOf(slot, lost, m)
    BY DEF LeftOf, counts
  <2> QED
    BY <2>1, <2>2, <2>3
<1> HIDE DEF lost
<1>10. /\ Stored(block', slot') /\ counts' = m
       /\ \A r \in Index : m[r] > 0 => contents'[r] = contents[r]
  <2> HIDE DEF m
  <2> QED
    BY <1>2, <1>6, <1>9, DeleteSlotsKeeps
<1>11. Kept(m, contents', handle, [at EXCEPT ![t] = "slot"], target, value)
  <2> DEFINE d == contents'
  <2>1. m = [r \in Index |-> counts[r] - Cardinality(At(contents, handle[<<t, target[t]>>], r))]
    BY DEF b, p
  <2>2. \A r \in Index : m[r] > 0 => d[r] = contents[r]
    BY <1>10
  <2> HIDE DEF m, d
  <2>4. at[t] = "elements" /\ Kept(counts, contents, handle, at, target, value)
    BY <1>1, <1>2
  <2>3. Kept(m, d, handle, [at EXCEPT ![t] = "slot"], target, value)
    BY <2>1, <2>2, <2>4, DeleteElementsKeepsHandles
  <2> QED
    BY <2>3 DEF d
<1> HIDE DEF m
<1> QED
  BY <1>1, <1>10, <1>11 DEF HeapInv

LEMMA DeleteHandleKeeps ==
  ASSUME HeapInv, NEW t \in Tasks, Heap!DeleteHandle(t)
  PROVE  HeapInv'
<1> DEFINE p == <<t, target[t]>>
           b == handle[p]
           lost == [r \in Index |-> IF r = b THEN 1 ELSE 0]
           m == [r \in Index |-> counts[r] - (IF r = b THEN 1 ELSE 0)]
           val == [isArray |-> FALSE, texts |-> <<>>]
<1>1. /\ at[t] = "slot" /\ at' = [at EXCEPT ![t] = "idle"]
      /\ Heap!DeleteSlots(lost)
      /\ handle' = [handle EXCEPT ![p] = 0] /\ value' = [value EXCEPT ![p] = val]
      /\ target' = [target EXCEPT ![t] = 1]
  BY DEF Heap!DeleteHandle, Heap!Null, Heap!Unassigned, Index
<1>2. Stored(block, slot) /\ Kept(counts, contents, handle, at, target, value)
  BY DEF HeapInv
<1>3. p \in Heap!Places /\ b # 0 /\ b \in Index
  BY <1>1, <1>2, KeptHas, HeapConstants
<1>4. counts \in [Index -> Nat] /\ counts[b] > 0
  BY <1>2, <1>3, HandleHas, KeptHas
<1>5. val \in [isArray : BOOLEAN, texts : Seq(HeapTexts)]
  OBVIOUS
<1>6. p = <<t, target[t]>> /\ b = handle[p]
  OBVIOUS
<1> HIDE DEF p, b, val
<1>7. /\ m \in [Index -> Nat] /\ lost \in [Index -> Nat] /\ LeftOf(slot, lost, m)
      /\ m[b] = counts[b] - 1 /\ \A r \in Index : r # b => m[r] = counts[r]
  <2>1. \A r \in Index : counts[r] - (IF r = b THEN 1 ELSE 0) \in Nat
    BY <1>3, <1>4
  <2>2. m \in [Index -> Nat] /\ lost \in [Index -> Nat]
    BY <2>1
  <2>3. LeftOf(slot, lost, m)
    BY DEF LeftOf, counts
  <2>4. m[b] = counts[b] - 1 /\ \A r \in Index : r # b => m[r] = counts[r]
    BY <1>3, <1>4
  <2> QED
    BY <2>2, <2>3, <2>4
<1> HIDE DEF m, lost
<1>8. /\ Stored(block', slot') /\ counts' = m
      /\ \A r \in Index : m[r] > 0 => contents'[r] = contents[r]
  BY <1>1, <1>2, <1>7, DeleteSlotsKeeps
<1>9. LetGo(counts, contents, contents', b, m)
  BY <1>7, <1>8 DEF LetGo
<1>10. Kept(m, contents', [handle EXCEPT ![p] = 0], [at EXCEPT ![t] = "idle"],
            [target EXCEPT ![t] = 1], [value EXCEPT ![p] = val])
  <2>1. at[t] = "slot" /\ LetGo(counts, contents, contents', handle[p], m)
    BY <1>1, <1>6, <1>9
  <2> QED
    BY <1>2, <1>5, <1>6, <2>1, DeleteHandleKeepsHandles
<1> QED
  BY <1>1, <1>8, <1>10 DEF HeapInv

\* The heap is empty at first.
LEMMA EmptyHeap ==
  ASSUME Heap!Init PROVE HeapInv
<1>1. /\ block = <<>> /\ slot = [s \in Index |-> Heap!FreeSlot]
      /\ handle = [p \in Heap!Places |-> 0]
      /\ value = [p \in Heap!Places |-> [isArray |-> FALSE, texts |-> <<>>]]
      /\ at = [t \in Tasks |-> "idle"] /\ target = [t \in Tasks |-> 1]
  BY DEF Heap!Init, Heap!Null, Heap!Unassigned, Index
<1>2. \A s \in Index : slot[s] = [refCount |-> 0, storage |-> <<0, 0>>]
  BY <1>1 DEF Heap!FreeSlot, Heap!Nowhere
<1>3. Stored(block, slot)
  <2>1. block \in Seq(Seq(Entries))
    BY <1>1
  <2>2. slot \in [Index -> [refCount : Nat, storage : Nat \X Nat]]
    BY <1>1 DEF Heap!FreeSlot, Heap!Nowhere
  <2>3. \A s \in Index : slot[s].refCount = 0 /\ slot[s] = Heap!FreeSlot
    BY <1>1, <1>2
  <2> QED
    BY <2>1, <2>2, <2>3 DEF Stored
<1>4. counts = [s \in Index |-> 0]
  BY <1>2 DEF counts
<1>5. Arrays(counts, contents, handle, at, target) = {}
  BY <1>4 DEF Arrays
<1>6. \A p \in Heap!Places : handle[p] = 0
  BY <1>1
<1>7. LiveIn(handle, at, target) = {}
  BY <1>6 DEF LiveIn
<1>8. HandlesTyped(handle, at, target)
  BY <1>1, HeapConstants DEF HandlesTyped
<1>9. Counted(counts, contents, handle, at, target)
  <2>1. ASSUME NEW s \in Index
        PROVE  Cardinality(NamedBy(handle, s)) +
                 Cardinality(ElementIn(contents, {}, s)) <= counts[s]
    <3>1. NamedBy(handle, s) = {}
      BY <1>6, HeapConstants DEF NamedBy
    <3>2. ElementIn(contents, {}, s) = {}
      BY DEF ElementIn
    <3>3. counts[s] = 0
      BY <1>4
    <3> QED
      BY <3>1, <3>2, <3>3, FS_EmptySet
  <2> QED
    BY <1>4, <1>5, <2>1 DEF Counted
<1>10. Elementary(counts, contents, handle, at, target)
  <2>1. \A t \in Tasks : at[t] # "elements"
    BY <1>1
  <2>2. \A b \in Index : ~(counts[b] > 0)
    BY <1>4
  <2> QED
    BY <1>5, <2>1, <2>2 DEF Elementary
<1>11. Valued(contents, handle, at, target, value)
  <2>1. [isArray |-> FALSE, texts |-> <<>>] \in [isArray : BOOLEAN, texts : Seq(HeapTexts)]
    OBVIOUS
  <2>2. value \in [Heap!Places -> [isArray : BOOLEAN, texts : Seq(HeapTexts)]]
    BY <1>1, <2>1
  <2> QED
    BY <1>7, <2>2 DEF Valued
<1> QED
  BY <1>3, <1>8, <1>9, <1>10, <1>11 DEF HeapInv, Kept

LEMMA HeapRests ==
  ASSUME HeapInv, UNCHANGED heapVars PROVE HeapInv'
<1>1. /\ block' = block /\ slot' = slot /\ handle' = handle
      /\ at' = at /\ target' = target /\ value' = value
  BY DEF heapVars
<1>2. counts' = counts /\ contents' = contents
  BY <1>1 DEF counts, contents
<1> QED
  BY <1>1, <1>2 DEF HeapInv

\* The invariant is inductive: every action of the heap, and what the other services do.
LEMMA HeapInvHolds == ServicesSpec => []HeapInv
<1>1. ServicesInit => HeapInv
  BY EmptyHeap DEF ServicesInit
<1>2. HeapInv /\ [ServicesNext]_serviceVars => HeapInv'
  <2> SUFFICES ASSUME HeapInv, [ServicesNext]_serviceVars PROVE HeapInv'
    OBVIOUS
  <2>1. CASE Others("print") \/ Others("replies")
    BY <2>1, HeapRests DEF Others
  <2>2. CASE UNCHANGED serviceVars
    BY <2>2, HeapRests DEF serviceVars
  <2>3. CASE Heap!Next
    <3>1. ASSUME NEW t \in Writers, NEW i \in 1 .. Handles[t], NEW text \in Heap!Texts,
                 Heap!MakeString(t, i, text)
          PROVE  HeapInv'
      BY <3>1, MakeStringKeeps
    <3>2. ASSUME NEW t \in Writers, NEW i \in 1 .. Handles[t], Heap!MakeArray(t, i)
          PROVE  HeapInv'
      BY <3>2, MakeArrayKeeps
    <3>3. ASSUME NEW t \in Writers, NEW i \in 1 .. Handles[t], NEW j \in 1 .. Handles[t],
                 NEW k \in 1 .. Elements, Heap!AssignElement(t, i, k, j)
          PROVE  HeapInv'
      BY <3>3, AssignElementKeeps
    <3>4. ASSUME NEW t \in Tasks, NEW i \in 1 .. Handles[t],
                 NEW u \in Tasks, NEW j \in 1 .. Handles[u], Heap!Copy(t, i, u, j)
          PROVE  HeapInv'
      BY <3>4, CopyKeeps
    <3>5. ASSUME NEW t \in Tasks, NEW i \in 1 .. Handles[t], Heap!Delete(t, i)
          PROVE  HeapInv'
      BY <3>5, DeleteKeeps
    <3>6. ASSUME NEW t \in Tasks, Heap!DeleteElements(t) PROVE HeapInv'
      BY <3>6, DeleteElementsKeeps
    <3>7. ASSUME NEW t \in Tasks, Heap!DeleteHandle(t) PROVE HeapInv'
      BY <3>7, DeleteHandleKeeps
    <3> QED
      BY <2>3, <3>1, <3>2, <3>3, <3>4, <3>5, <3>6, <3>7 DEF Heap!Next
  <2> QED
    BY <2>1, <2>2, <2>3 DEF ServicesNext
<1> QED
  BY <1>1, <1>2, PTL DEF ServicesSpec

\* What follows from it.
LEMMA ValuesAreKept ==
  ASSUME HeapInv PROVE VariablesKeepTheirValues
<1>1. /\ Stored(block, slot) /\ HandlesTyped(handle, at, target)
      /\ Counted(counts, contents, handle, at, target)
      /\ Elementary(counts, contents, handle, at, target)
      /\ Valued(contents, handle, at, target, value)
  BY DEF HeapInv, Kept
<1>2. Heap!Live = LiveIn(handle, at, target)
  BY DEF Heap!Live, LiveIn, Heap!Null
<1>3. ASSUME NEW s \in Index, counts[s] > 0
      PROVE  Heap!IsStored(s) /\ Heap!Storage(s) = contents[s]
  <2>1. slot[s].refCount > 0
    BY <1>3 DEF counts
  <2> QED
    BY <1>1, <2>1, SlotHolds, StorageIs DEF Heap!IsStored
<1>4. ASSUME NEW p \in LiveIn(handle, at, target)
      PROVE  /\ Heap!IsStored(handle[p])
             /\ value[p].isArray = Heap!IsArray(handle[p])
             /\ IF value[p].isArray
                THEN \A k \in 1 .. Elements : Heap!Contains(Heap!Element(handle[p], k), value[p].texts[k])
                ELSE Heap!Contains(handle[p], value[p].texts[1])
  <2> DEFINE b == handle[p]
             val == value[p]
  <2>1. /\ b \in Index /\ counts[b] > 0
        /\ IsArrayIn(contents, b) => b \in Arrays(counts, contents, handle, at, target)
    BY <1>1, LiveIsAlive
  <2>2. HasValue(contents, b, val)
    BY <1>1 DEF Valued
  <2>3. Heap!IsStored(b) /\ Heap!Storage(b) = contents[b] /\ b # 0
    BY <1>3, <2>1, HeapConstants
  <2> HIDE DEF b, val
  <2>4. val.isArray = Heap!IsArray(b)
    BY <2>2, <2>3 DEF HasValue, Heap!IsArray, IsArrayIn
  <2>5. ASSUME val.isArray, NEW k \in 1 .. Elements
        PROVE  Heap!Contains(Heap!Element(b, k), val.texts[k])
    <3> DEFINE e == contents[b].elements[k]
    <3>1. b \in Arrays(counts, contents, handle, at, target)
      BY <2>1, <2>2, <2>5 DEF HasValue
    <3>2. Heap!Element(b, k) = e /\ TextOf(contents, e) = val.texts[k]
      BY <2>2, <2>3, <2>5 DEF HasValue, Heap!Element
    <3>3. e \in 0 .. Slots
      BY <1>1, <3>1 DEF Elementary
    <3>4. e # 0 => e \in Index /\ counts[e] > 0
      BY <1>1, <3>1, <3>3, NumberIs, ElementNamed
    <3> HIDE DEF e
    <3>5. e # 0 => Heap!IsStored(e) /\ Heap!Storage(e) = contents[e]
      BY <1>3, <3>4
    <3> QED
      BY <3>2, <3>5 DEF Heap!Contains, TextOf, Heap!Null
  <2>6. ASSUME ~val.isArray PROVE Heap!Contains(b, val.texts[1])
    BY <2>2, <2>3, <2>6 DEF HasValue, Heap!Contains, Heap!Null
  <2> QED
    BY <2>3, <2>4, <2>5, <2>6 DEF b, val
<1> QED
  BY <1>2, <1>4 DEF VariablesKeepTheirValues, Heap!VariablesKeepTheirValues

\* However many tasks, handles, slots and blocks there are: what was assigned to a
\* variable or to an element of an array is what its handle names, through copies of
\* shared arrays (ArrayHandle::MakeUnique), deletions by tasks that go together under
\* the read lock, and collections that move the storage (Heap::GarbageCollect).  No slot
\* is given up or used again while a handle that is not being deleted names it.
THEOREM ValuesOutliveCollections == ServicesSpec => []VariablesKeepTheirValues
<1>1. HeapInv => VariablesKeepTheirValues
  BY ValuesAreKept
<1> QED
  BY <1>1, HeapInvHolds, PTL

=============================================================================
