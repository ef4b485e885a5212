---------------------------- MODULE MemoryProofs ----------------------------
(***************************************************************************)
(* Proofs about the memory calls, for any number of apps, addresses and    *)
(* tasks, any memory and any calls.                                        *)
(***************************************************************************)
EXTENDS MemoryCalls, TLAPS, FiniteSetTheorems

(* Every app has its own of each.                                          *)
Domains ==
  /\ DOMAIN pc = Apps /\ DOMAIN call = Apps /\ DOMAIN vmsg = Apps
  /\ DOMAIN asked = Apps /\ DOMAIN reply = Apps
  /\ DOMAIN result = Apps /\ DOMAIN view = Apps /\ DOMAIN owed = Apps

(* A message holds the one call that its app is in, or was when it died,   *)
(* and a reply holds no part or one of that call's type.                   *)
Dialogue(p) ==
  /\ pc[p] \in {"sent", "orphan"} =>
       /\ asked[p] = <<asked[p][1]>>
       /\ asked[p][1] \in Calls /\ asked[p][1].fit
  /\ pc[p] \notin {"sent", "orphan"} => asked[p] = <<>>
  /\ pc[p] = "sent" => call[p] = asked[p][1] /\ call[p].fit
  /\ pc[p] = "answered" =>
       /\ call[p] \in Calls
       /\ reply[p] # <<>> =>
            /\ reply[p] = <<reply[p][1]>>
            /\ reply[p][1].type = call[p].type
  /\ pc[p] # "answered" => reply[p] = <<>>
  /\ pc[p] # "idle" => view[p] = NoResult

DialogueInv == \A p \in Apps : Dialogue(p)

(* The pauses of the apps that are served and not given back, each a       *)
(* ticket: Xen counts no fewer while no app gives back another's.          *)
Tickets == UNION {{<<p, i>> : i \in 1 .. owed[p]} : p \in Apps}

TicketsCounted == IsFiniteSet(Tickets) /\ Cardinality(Tickets) <= pauses

TicketInv == balanced => TicketsCounted

(* The guest's list is one chain from init_task back to it.                *)
RingInv ==
  /\ ring \in Seq(Tasks)
  /\ IsInjective(ring)
  /\ \A k \in 0 .. Len(ring) : next[Entry(k)] = Following(k)

(* The partition's walk of a list that stands still.                       *)
Walked(k) ==
  /\ walk.cur = Entry(k)
  /\ walk.nxt = Following(k)
  /\ walk.tasks = {Entry(j) : j \in 0 .. k - 1}

WalkInv ==
  walk # NoWalk =>
    /\ walk = [on |-> TRUE, by |-> walk.by, cur |-> walk.cur, nxt |-> walk.nxt,
               tasks |-> walk.tasks]
    /\ walk.by \in Apps
    /\ walk.cur \in Listed /\ walk.nxt \in Listed
    /\ pc[walk.by] \in {"sent", "orphan"}
    /\ asked[walk.by][1].type = "PROCESS_LIST"
    /\ balanced /\ owed[walk.by] > 0 => \E k \in 0 .. Len(ring) : Walked(k)

(* What an app was given, or is about to take from its reply, is how the   *)
(* guest stands.                                                           *)
Matches(v) ==
  v # NoResult =>
    IF v.type = "PROCESS_LIST"
      THEN v.tasks = ToSet(ring) \cup {InitTask}
      ELSE PageOf(v.place) = v.cell

ViewInv ==
  \A p \in Apps :
    balanced /\ owed[p] > 0 =>
      /\ Matches(view[p])
      /\ pc[p] = "answered" => Matches(ViewOf(p))

Inv == TypeOK /\ Domains /\ DialogueInv /\ TicketInv /\ RingInv /\ WalkInv /\ ViewInv

-----------------------------------------------------------------------------
(* The calls.                                                              *)

(* The fields that a call has, by its type.                                *)
LEMMA CallFields ==
  ASSUME NEW c \in Calls
  PROVE  /\ c.type \in {"READ", "READ_STR", "READ_BUFFER", "WRITE", "WRITE_BUFFER",
                        "TRANSLATE"} => c.place \in Places
         /\ c.type = "WRITE" => c.value \in Values
         /\ c.type = "WRITE_BUFFER" => c.value \in Stored
<1>1. PICK S \in {Lookups, Listing, Pausing, Translations, BufferReads, KsymBufferRead,
                  PaReads, VaReads, KsymReads, BufferWrites,
                  PaWrites, VaWrites, KsymWrites, Getters} : c \in S
  BY DEF Calls
<1>2. CASE S \in {Lookups, Listing, Pausing, KsymBufferRead, Getters}
  BY <1>1, <1>2 DEF Lookups, Listing, Pausing, KsymBufferRead, Getters, Plain, Call
<1>3. CASE S \in {Translations, BufferReads, PaReads, VaReads, KsymReads}
  BY <1>1, <1>3 DEF Translations, BufferReads, PaReads, VaReads, KsymReads, Reads, Call,
     Places, Names
<1>4. CASE S \in {BufferWrites, PaWrites, VaWrites, KsymWrites}
  BY <1>1, <1>4 DEF BufferWrites, PaWrites, VaWrites, KsymWrites, Writes, Call, Places, Names
<1> QED BY <1>1, <1>2, <1>3, <1>4

-----------------------------------------------------------------------------
(* The guest's list.                                                       *)

(* What is in the list is a task or init_task.                             *)
LEMMA EntryThere ==
  ASSUME ring \in Seq(Tasks), NEW k \in 0 .. Len(ring)
  PROVE  Entry(k) \in Listed /\ Following(k) \in Listed
<1>1. Len(ring) \in Nat /\ \A i \in 1 .. Len(ring) : ring[i] \in Tasks
  OBVIOUS
<1>2. Entry(k) \in Listed
  BY <1>1 DEF Entry, Listed
<1>3. Following(k) \in Listed
  BY <1>1 DEF Following, Listed
<1> QED BY <1>2, <1>3

(* The guest's links lead from each entry to the one after it.             *)
LEMMA EntryListed ==
  ASSUME RingInv, NEW k \in 0 .. Len(ring)
  PROVE  Entry(k) \in Listed /\ Following(k) \in Listed /\ next[Entry(k)] = Following(k)
BY EntryThere DEF RingInv

(* No two places of the list hold one task.                                *)
LEMMA EntriesDiffer ==
  ASSUME ring \in Seq(Tasks), IsInjective(ring), NEW j \in 0 .. Len(ring), NEW k \in 0 .. Len(ring), j # k
  PROVE  Entry(j) # Entry(k)
<1>1. Len(ring) \in Nat /\ \A i \in 1 .. Len(ring) : ring[i] \in Tasks /\ ring[i] # InitTask
  BY MemoryAssumption
<1>2. \A i, l \in 1 .. Len(ring) : ring[i] = ring[l] => i = l
  BY DEF IsInjective
<1> QED BY <1>1, <1>2 DEF Entry

(* After the last entry comes init_task, after any other the next one.     *)
LEMMA EntryFollows ==
  ASSUME RingInv, NEW k \in 0 .. Len(ring)
  PROVE  /\ k = Len(ring) => Following(k) = InitTask
         /\ k # Len(ring) => /\ k + 1 \in 0 .. Len(ring)
                             /\ Following(k) = Entry(k + 1)
                             /\ Following(k) = ring[k + 1]
                             /\ Following(k) # InitTask
<1>1. Len(ring) \in Nat /\ \A i \in 1 .. Len(ring) : ring[i] # InitTask
  BY MemoryAssumption DEF RingInv
<1> QED BY <1>1 DEF Entry, Following

(* All the entries from the first to the last are init_task and the tasks  *)
(* linked.                                                                 *)
LEMMA ListIsWalked ==
  ASSUME RingInv
  PROVE  {Entry(j) : j \in 0 .. Len(ring)} = ToSet(ring) \cup {InitTask}
<1>1. Len(ring) \in Nat /\ DOMAIN ring = 1 .. Len(ring)
  BY DEF RingInv
<1>2. ASSUME NEW t \in {Entry(j) : j \in 0 .. Len(ring)}
      PROVE  t \in ToSet(ring) \cup {InitTask}
  BY <1>1 DEF ToSet, Entry
<1>3. ASSUME NEW t \in ToSet(ring)
      PROVE  t \in {Entry(j) : j \in 0 .. Len(ring)}
  <2>1. PICK i \in 1 .. Len(ring) : t = ring[i]
    BY <1>1 DEF ToSet
  <2> QED BY <1>1, <2>1 DEF Entry
<1>4. InitTask \in {Entry(j) : j \in 0 .. Len(ring)}
  BY <1>1 DEF Entry
<1> QED BY <1>2, <1>3, <1>4

(* A task linked in lengthens the chain and leaves it one.                 *)
LEMMA ListGrows ==
  ASSUME TypeOK, RingInv, GuestLinks
  PROVE  RingInv' /\ next' \in [Listed -> Listed] /\ gone' \subseteq Tasks \ ToSet(ring')
<1>1. PICK t \in Tasks \ ToSet(ring) :
        /\ ring' = Append(ring, t)
        /\ next' = [next EXCEPT ![Entry(Len(ring))] = t, ![t] = InitTask]
        /\ gone' = gone \ {t}
  BY DEF GuestLinks
<1> DEFINE n == Len(ring)
<1> HIDE DEF n
<1>n. n = Len(ring)
  BY DEF n
<1>2. n \in Nat /\ ring \in Seq(Tasks) /\ DOMAIN ring = 1 .. n
  BY <1>n DEF RingInv
<1>3. /\ ring' \in Seq(Tasks) /\ Len(ring') = n + 1
      /\ \A i \in 1 .. n : ring'[i] = ring[i]
      /\ ring'[n + 1] = t
  BY <1>n, <1>1, <1>2
<1>4. \A i \in 1 .. n : ring[i] # t
  BY <1>n, <1>1, <1>2 DEF ToSet
<1>5. IsInjective(ring')
  <2>1. \A i, j \in 1 .. n : ring[i] = ring[j] => i = j
    BY <1>n, <1>2 DEF RingInv, IsInjective
  <2>2. DOMAIN ring' = 1 .. n + 1
    BY <1>n, <1>2, <1>3
  <2> QED BY <1>n, <1>2, <1>3, <1>4, <2>1, <2>2 DEF IsInjective
<1>6. next \in [Listed -> Listed] /\ t \in Listed /\ InitTask \in Listed /\ t # InitTask
  BY <1>1, MemoryAssumption DEF TypeOK, Listed
<1>7. next' \in [Listed -> Listed]
  BY <1>1, <1>6
<1>8. \A k \in 0 .. n + 1 : next'[Entry(k)'] = Following(k)'
  <2> TAKE k \in 0 .. n + 1
  <2>1. Entry(n) # t /\ \A j \in 0 .. n : Entry(j) # t
    BY <1>n, <1>2, <1>4, <1>6 DEF Entry
  <2>2. CASE k = n + 1
    BY <1>n, <1>1, <1>2, <1>3, <1>6, <2>2 DEF Entry, Following
  <2>3. CASE k = n
    <3>1. Entry(k)' = Entry(n)
      BY <1>n, <1>2, <1>3, <2>3 DEF Entry
    <3>2. Entry(n) \in Listed
      BY <1>n, <1>2, EntryListed
    <3>3. next'[Entry(n)] = t
      BY <1>n, <1>1, <1>6, <2>1, <3>2
    <3> QED BY <1>n, <1>2, <1>3, <2>3, <3>1, <3>3 DEF Following
  <2>4. CASE k \in 0 .. n - 1
    <3>1. Entry(k)' = Entry(k)
      BY <1>n, <1>2, <1>3, <2>4 DEF Entry
    <3>2. Entry(k) \in Listed /\ Entry(k) # Entry(n)
      <4>1. k \in 0 .. n /\ n \in 0 .. n /\ k # n
        BY <1>n, <1>2, <2>4
      <4> QED BY <1>n, <4>1, EntryListed, EntriesDiffer DEF RingInv
    <3>3. next'[Entry(k)] = next[Entry(k)]
      BY <1>1, <1>6, <2>1, <2>4, <1>2, <3>2
    <3>4. next[Entry(k)] = Following(k)
      BY <1>n, <1>2, <2>4 DEF RingInv
    <3>5. Following(k)' = Following(k)
      BY <1>n, <1>2, <1>3, <2>4 DEF Following
    <3> QED BY <3>1, <3>3, <3>4, <3>5
  <2> QED BY <1>n, <1>2, <2>2, <2>3, <2>4
<1>9. gone' \subseteq Tasks \ ToSet(ring')
  <2>1. ToSet(ring') \subseteq ToSet(ring) \cup {t}
    BY <1>n, <1>2, <1>3 DEF ToSet
  <2> QED BY <1>1, <2>1 DEF TypeOK
<1> QED BY <1>n, <1>2, <1>3, <1>5, <1>7, <1>8, <1>9 DEF RingInv

(* A task unlinked leaves the chain one.                                   *)
LEMMA ListShrinks ==
  ASSUME TypeOK, RingInv, GuestUnlinks
  PROVE  RingInv' /\ next' \in [Listed -> Listed] /\ gone' \subseteq Tasks \ ToSet(ring')
<1> DEFINE n == Len(ring)
<1> HIDE DEF n
<1>n. n = Len(ring)
  BY DEF n
<1>1. PICK i \in DOMAIN ring :
        /\ ring' = RemoveAt(ring, i)
        /\ next' = [next EXCEPT ![Entry(i - 1)] = next[ring[i]]]
  BY DEF GuestUnlinks
<1>2. n \in Nat /\ ring \in Seq(Tasks) /\ DOMAIN ring = 1 .. n /\ i \in 1 .. n
  BY <1>n DEF RingInv
<1>3. /\ ring' \in Seq(Tasks) /\ Len(ring') = n - 1
      /\ \A j \in 1 .. i - 1 : ring'[j] = ring[j]
      /\ \A j \in i .. n - 1 : ring'[j] = ring[j + 1]
  <2> DEFINE a == SubSeq(ring, 1, i - 1)
             b == SubSeq(ring, i + 1, n)
  <2>1. a \in Seq(Tasks) /\ Len(a) = i - 1 /\ \A j \in 1 .. i - 1 : a[j] = ring[j]
    BY <1>n, <1>2
  <2>2. b \in Seq(Tasks) /\ Len(b) = n - i /\ \A j \in 1 .. n - i : b[j] = ring[i + j]
    BY <1>n, <1>2, SMTT(30)
  <2>3. ring' = a \o b
    BY <1>n, <1>1 DEF RemoveAt
  <2> HIDE DEF a, b
  <2>4. ring' \in Seq(Tasks) /\ Len(ring') = (i - 1) + (n - i)
    BY <1>2, <2>1, <2>2, <2>3, SMTT(30)
  <2>5. \A j \in 1 .. i - 1 : ring'[j] = ring[j]
    BY <1>2, <2>1, <2>2, <2>3, SMTT(30)
  <2>6. ASSUME NEW j \in i .. n - 1
        PROVE  ring'[j] = ring[j + 1]
    <3>1. ring'[j] = b[j - (i - 1)]
      BY <1>2, <2>1, <2>2, <2>3
    <3>2. j - (i - 1) \in 1 .. n - i /\ i + (j - (i - 1)) = j + 1
      BY <1>2
    <3>3. b[j - (i - 1)] = ring[i + (j - (i - 1))]
      BY <2>2, <3>2
    <3> QED BY <3>1, <3>2, <3>3
  <2> QED BY <1>2, <2>4, <2>5, <2>6
<1>4. DOMAIN ring' = 1 .. n - 1
  BY <1>n, <1>2, <1>3
<1>5. IsInjective(ring')
  <2>1. \A j, k \in 1 .. n : ring[j] = ring[k] => j = k
    BY <1>n, <1>2 DEF RingInv, IsInjective
  <2>2. ASSUME NEW j \in 1 .. n - 1, NEW k \in 1 .. n - 1, ring'[j] = ring'[k]
        PROVE  j = k
    <3>1. PICK x \in 1 .. n : ring'[j] = ring[x] /\ x = (IF j < i THEN j ELSE j + 1)
      BY <1>2, <1>3
    <3>2. PICK y \in 1 .. n : ring'[k] = ring[y] /\ y = (IF k < i THEN k ELSE k + 1)
      BY <1>2, <1>3
    <3>3. x = y
      BY <2>1, <2>2, <3>1, <3>2
    <3> QED BY <1>2, <3>1, <3>2, <3>3
  <2> QED BY <1>4, <2>2 DEF IsInjective
<1>6. next \in [Listed -> Listed] /\ Entry(i) = ring[i] /\ Entry(i) \in Listed /\ Entry(i - 1) \in Listed
  <2>1. i - 1 \in 0 .. n /\ i \in 0 .. n
    BY <1>n, <1>2
  <2> QED BY <1>n, <1>2, <2>1, EntryListed DEF TypeOK, Entry
<1>7. next' \in [Listed -> Listed]
  BY <1>1, <1>6
<1>8. \A k \in 0 .. n - 1 : next'[Entry(k)'] = Following(k)'
  <2> TAKE k \in 0 .. n - 1
  <2>1. k \in 0 .. n /\ k + 1 \in 0 .. n /\ i \in 0 .. n /\ i - 1 \in 0 .. n
    BY <1>n, <1>2
  <2>2. CASE k = i - 1
    <3>1. Entry(k)' = Entry(i - 1)
      BY <1>n, <1>2, <1>3, <2>2 DEF Entry
    <3>2. next'[Entry(i - 1)] = next[Entry(i)]
      BY <1>1, <1>6
    <3>3. next[Entry(i)] = Following(i)
      BY <1>n, <2>1 DEF RingInv
    <3>4. Following(k)' = Following(i)
      BY <1>n, <1>2, <1>3, <2>2 DEF Following
    <3> QED BY <3>1, <3>2, <3>3, <3>4
  <2>3. CASE k < i - 1
    <3>1. Entry(k)' = Entry(k)
      BY <1>n, <1>2, <1>3, <2>3 DEF Entry
    <3>2. Entry(k) # Entry(i - 1) /\ Entry(k) \in Listed
      BY <1>n, <2>1, <2>3, EntryListed, EntriesDiffer DEF RingInv
    <3>3. next'[Entry(k)] = next[Entry(k)]
      BY <1>1, <1>6, <3>2
    <3>4. next[Entry(k)] = Following(k)
      BY <1>n, <2>1 DEF RingInv
    <3>5. Following(k)' = Following(k)
      BY <1>n, <1>2, <1>3, <2>3 DEF Following
    <3> QED BY <3>1, <3>3, <3>4, <3>5
  <2>4. CASE k > i - 1
    <3>1. Entry(k)' = Entry(k + 1)
      BY <1>n, <1>2, <1>3, <2>4 DEF Entry
    <3>2. Entry(k + 1) # Entry(i - 1) /\ Entry(k + 1) \in Listed
      <4>1. k + 1 # i - 1
        BY <1>n, <1>2, <2>4
      <4> QED BY <1>n, <2>1, <4>1, EntryListed, EntriesDiffer DEF RingInv
    <3>3. next'[Entry(k + 1)] = next[Entry(k + 1)]
      BY <1>1, <1>6, <3>2
    <3>4. next[Entry(k + 1)] = Following(k + 1)
      BY <1>n, <2>1 DEF RingInv
    <3>5. Following(k)' = Following(k + 1)
      BY <1>n, <1>2, <1>3, <2>4 DEF Following
    <3> QED BY <3>1, <3>3, <3>4, <3>5
  <2> QED BY <1>n, <1>2, <2>2, <2>3, <2>4
<1>9. gone' \subseteq Tasks \ ToSet(ring')
  <2>1. ToSet(ring') \subseteq ToSet(ring)
    <3> SUFFICES ASSUME NEW j \in DOMAIN ring' PROVE ring'[j] \in ToSet(ring)
      BY DEF ToSet
    <3>1. ring'[j] = ring[j] \/ ring'[j] = ring[j + 1]
      BY <1>2, <1>3, <1>4
    <3>2. j \in DOMAIN ring /\ j + 1 \in DOMAIN ring
      BY <1>2, <1>4
    <3> QED BY <3>1, <3>2 DEF ToSet
  <2>2. gone' = gone
    BY DEF GuestUnlinks
  <2> QED BY <2>1, <2>2 DEF TypeOK
<1> QED BY <1>n, <1>2, <1>3, <1>5, <1>7, <1>8, <1>9 DEF RingInv

-----------------------------------------------------------------------------
(* The start.                                                              *)

(* The list the guest starts with holds every task once.                   *)
LEMMA ListAtFirst ==
  ASSUME ring = SetToSeq(Tasks)
  PROVE  ring \in Seq(Tasks) /\ IsInjective(ring) /\ ToSet(ring) = Tasks
<1> DEFINE n == Cardinality(Tasks)
<1>1. n \in Nat /\ ExistsBijection(1 .. n, Tasks)
  BY MemoryAssumption, FS_CardinalityType
<1>2. \E f \in [1 .. n -> Tasks] : IsInjective(f)
  BY <1>1 DEF ExistsBijection, Bijection, Injection
<1>3. ring \in [1 .. n -> Tasks] /\ IsInjective(ring)
  BY <1>2 DEF SetToSeq
<1> HIDE DEF n
<1>4. ring \in Injection(1 .. n, Tasks)
  BY <1>3 DEF Injection
<1>5. IsFiniteSet(1 .. n) /\ Cardinality(1 .. n) = n
  BY <1>1, FS_Interval
<1>6. ring \in Surjection(1 .. n, Tasks)
  BY <1>4, <1>5, FS_Injection, MemoryAssumption DEF n
<1>7. ToSet(ring) = Tasks
  BY <1>3, <1>6 DEF Surjection, ToSet
<1>8. ring \in Seq(Tasks)
  BY <1>1, <1>3
<1> QED BY <1>3, <1>7, <1>8

(* The guest starts with one chain.                                        *)
LEMMA ListInit == Init => RingInv /\ next \in [Listed -> Listed]
<1> SUFFICES ASSUME Init PROVE RingInv /\ next \in [Listed -> Listed]
  OBVIOUS
<1>1. ring \in Seq(Tasks) /\ IsInjective(ring) /\ ToSet(ring) = Tasks
  BY ListAtFirst DEF Init
<1>2. Len(ring) \in Nat /\ DOMAIN ring = 1 .. Len(ring)
  BY <1>1
<1>3. \A k \in 0 .. Len(ring) : Entry(k) \in Listed /\ Following(k) \in Listed
  BY <1>1, EntryThere
<1>4. \A t \in Listed : \E k \in 0 .. Len(ring) : Entry(k) = t
  <2> TAKE t \in Listed
  <2>1. CASE t = InitTask
    BY <1>2, <2>1 DEF Entry
  <2>2. CASE t \in Tasks
    <3>1. PICK k \in 1 .. Len(ring) : t = ring[k]
      BY <1>1, <1>2, <2>2 DEF ToSet
    <3> QED BY <1>2, <3>1 DEF Entry
  <2> QED BY <2>1, <2>2 DEF Listed
<1>5. \A t \in Listed : Position(t) \in 0 .. Len(ring) /\ Entry(Position(t)) = t
  BY <1>4 DEF Position
<1>6. next = [t \in Listed |-> Following(Position(t))]
  BY DEF Init
<1>7. \A k \in 0 .. Len(ring) : next[Entry(k)] = Following(k)
  <2> TAKE k \in 0 .. Len(ring)
  <2>1. Position(Entry(k)) = k
    BY <1>1, <1>3, <1>5, EntriesDiffer
  <2> QED BY <1>3, <1>6, <2>1
<1>8. next \in [Listed -> Listed]
  BY <1>3, <1>5, <1>6
<1> QED BY <1>1, <1>7, <1>8 DEF RingInv

(* The invariant holds at first.                                           *)
LEMMA InvInit == Init => Inv
<1> SUFFICES ASSUME Init PROVE Inv
  OBVIOUS
<1>1. RingInv /\ next \in [Listed -> Listed] /\ ToSet(ring) \subseteq Tasks
  BY ListInit, ListAtFirst DEF Init
<1>2. TypeOK
  <2>1. cell \in [Cells -> Stored \cup {NoPage}] /\ page \in [Vas -> Cells \cup {NoPage}]
    BY DEF Init
  <2>2. gone \subseteq Tasks \ ToSet(ring) /\ pauses \in Nat
    BY DEF Init
  <2>3. balanced \in BOOLEAN
    BY DEF Init
  <2>4. \A p \in Apps : /\ pc[p] = "idle" /\ call[p] = NoCall /\ vmsg[p] = <<>>
                        /\ asked[p] = <<>> /\ owed[p] = 0
    BY DEF Init
  <2>5. Len(<<>>) <= 1
    OBVIOUS
  <2> QED BY <1>1, <2>1, <2>2, <2>4, <2>5, <2>3 DEF TypeOK
<1>3. Domains
  BY DEF Init, Domains
<1>4. DialogueInv
  BY DEF Init, DialogueInv, Dialogue
<1>5. TicketInv
  <2>1. Tickets = {}
    BY DEF Init, Tickets
  <2> QED BY <2>1, FS_EmptySet DEF TicketInv, TicketsCounted, Init
<1>6. WalkInv
  BY DEF Init, WalkInv
<1>7. ViewInv
  BY DEF Init, ViewInv, Matches
<1> QED BY <1>1, <1>2, <1>3, <1>4, <1>5, <1>6, <1>7 DEF Inv

-----------------------------------------------------------------------------
(* The guest stands still while an app has a pause of its own in force.    *)

(* While an app's own pause is in force the guest does not run.            *)
LEMMA PausedStands ==
  ASSUME TypeOK, TicketInv, balanced, NEW p \in Apps, owed[p] > 0
  PROVE  pauses \in Nat /\ pauses # 0
<1>1. owed[p] \in Nat /\ pauses \in Nat
  BY DEF TypeOK
<1>2. <<p, 1>> \in Tickets
  BY <1>1 DEF Tickets
<1>3. Cardinality(Tickets) \in Nat /\ Cardinality(Tickets) # 0
  BY <1>2, FS_CardinalityType, FS_EmptySet DEF TicketInv, TicketsCounted
<1> QED BY <1>1, <1>3 DEF TicketInv, TicketsCounted

(* Steps that pause and resume nothing keep the tickets.                   *)
LEMMA SameTickets ==
  ASSUME TicketInv, UNCHANGED <<owed, balanced, pauses>>
  PROVE  TicketInv'
BY DEF TicketInv, TicketsCounted, Tickets

(* A pause_vm that is served counts once more in Xen and for its app.      *)
LEMMA TicketTaken ==
  ASSUME TypeOK, Domains, TicketInv, NEW p \in Apps,
         pauses' = pauses + 1, owed' = [owed EXCEPT ![p] = @ + 1], balanced' = balanced
  PROVE  TicketInv'
<1> SUFFICES ASSUME balanced PROVE TicketsCounted'
  BY DEF TicketInv
<1>1. \A q \in Apps : owed[q] \in Nat
  BY DEF TypeOK
<1>2. \A q \in Apps : owed'[q] = IF q = p THEN owed[p] + 1 ELSE owed[q]
  BY DEF Domains
<1> DEFINE d == <<p, owed[p] + 1>>
<1>3. \A q \in Apps : {<<q, i>> : i \in 1 .. owed'[q]}
                        = {<<q, i>> : i \in 1 .. owed[q]} \cup IF q = p THEN {d} ELSE {}
  <2> TAKE q \in Apps
  <2>1. CASE q # p
    BY <1>2, <2>1
  <2>2. CASE q = p
    <3>1. 1 .. owed'[q] = (1 .. owed[q]) \cup {owed[q] + 1}
      BY <1>1, <1>2, <2>2
    <3> QED BY <2>2, <3>1
  <2> QED BY <2>1, <2>2
<1> HIDE DEF d
<1>4. Tickets' = Tickets \cup {d}
  BY <1>3 DEF Tickets
<1>5. IsFiniteSet(Tickets') /\ Cardinality(Tickets') <= Cardinality(Tickets) + 1
  <2>1. /\ IsFiniteSet(Tickets \cup {d})
        /\ Cardinality(Tickets \cup {d})
             = IF d \in Tickets THEN Cardinality(Tickets) ELSE Cardinality(Tickets) + 1
    BY FS_AddElement DEF TicketInv, TicketsCounted
  <2>2. Cardinality(Tickets) \in Nat
    BY FS_CardinalityType DEF TicketInv, TicketsCounted
  <2> QED BY <1>4, <2>1, <2>2
<1>6. Cardinality(Tickets) \in Nat /\ Cardinality(Tickets') \in Nat /\ pauses \in Nat
  BY <1>5, FS_CardinalityType DEF TicketInv, TicketsCounted, TypeOK
<1> QED BY <1>5, <1>6 DEF TicketInv, TicketsCounted

(* A resume_vm takes back a pause of its app and one of Xen's.             *)
LEMMA TicketGiven ==
  ASSUME TypeOK, Domains, TicketInv, NEW p \in Apps,
         pauses' = IF pauses = 0 THEN 0 ELSE pauses - 1, Redeem(p)
  PROVE  TicketInv'
<1> SUFFICES ASSUME balanced, owed[p] > 0 PROVE TicketsCounted'
  BY DEF TicketInv, Redeem
<1>1. owed' = [owed EXCEPT ![p] = owed[p] - 1]
  <2>1. owed[p] # 0
    BY DEF TypeOK
  <2> QED BY <2>1 DEF Redeem
<1>2. \A q \in Apps : owed[q] \in Nat
  BY DEF TypeOK
<1>3. \A q \in Apps : owed'[q] = IF q = p THEN owed[p] - 1 ELSE owed[q]
  BY <1>1 DEF Domains
<1> DEFINE d == <<p, owed[p]>>
<1>4. \A q \in Apps : {<<q, i>> : i \in 1 .. owed'[q]}
                        = {<<q, i>> : i \in 1 .. owed[q]} \ {d}
  <2> TAKE q \in Apps
  <2>1. CASE q # p
    BY <1>3, <2>1
  <2>2. CASE q = p
    <3>1. 1 .. owed'[q] = (1 .. owed[q]) \ {owed[q]}
      BY <1>2, <1>3, <2>2
    <3> QED BY <2>2, <3>1
  <2> QED BY <2>1, <2>2
<1>5. d \in Tickets
  <2>1. owed[p] \in 1 .. owed[p]
    BY <1>2
  <2> QED BY <2>1 DEF Tickets
<1> HIDE DEF d
<1>6. Tickets' = Tickets \ {d}
  BY <1>4 DEF Tickets
<1>7. IsFiniteSet(Tickets') /\ Cardinality(Tickets') = Cardinality(Tickets) - 1
  BY <1>5, <1>6, FS_RemoveElement DEF TicketInv, TicketsCounted
<1>8. Cardinality(Tickets) \in Nat /\ pauses \in Nat
  BY FS_CardinalityType DEF TicketInv, TicketsCounted, TypeOK
<1>9. pauses # 0
  BY PausedStands
<1> QED BY <1>7, <1>8, <1>9 DEF TicketInv, TicketsCounted

-----------------------------------------------------------------------------
(* The guest.                                                              *)

(* The guest's own steps keep the types and the chain.                     *)
LEMMA GuestTypes ==
  ASSUME TypeOK, RingInv, GuestRuns
  PROVE  TypeOK' /\ RingInv'
<1>1. /\ UNCHANGED <<pc, call, vmsg, asked, owed, balanced, pauses>>
      /\ GuestWrites \/ GuestMaps \/ GuestLinks \/ GuestUnlinks \/ GuestFrees
  BY DEF GuestRuns, appVars, holdVars
<1>2. ASSUME RingInv' PROVE ToSet(ring') \subseteq Tasks
  BY <1>2 DEF RingInv, ToSet
<1>3. CASE GuestLinks
  <2>1. RingInv' /\ next' \in [Listed -> Listed] /\ gone' \subseteq Tasks \ ToSet(ring')
    BY <1>3, ListGrows
  <2>2. cell' = cell /\ page' = page
    BY <1>3 DEF GuestLinks
  <2> QED BY <1>1, <1>2, <2>1, <2>2 DEF TypeOK
<1>4. CASE GuestUnlinks
  <2>1. RingInv' /\ next' \in [Listed -> Listed] /\ gone' \subseteq Tasks \ ToSet(ring')
    BY <1>4, ListShrinks
  <2>2. cell' = cell /\ page' = page
    BY <1>4 DEF GuestUnlinks
  <2> QED BY <1>1, <1>2, <2>1, <2>2 DEF TypeOK
<1>5. CASE GuestWrites \/ GuestMaps \/ GuestFrees
  <2>1. UNCHANGED <<ring, next>>
    BY <1>5 DEF GuestWrites, GuestMaps, GuestFrees
  <2>2. RingInv'
    BY <2>1 DEF RingInv, Entry, Following
  <2>3. cell' \in [Cells -> Stored \cup {NoPage}]
    BY <1>5 DEF TypeOK, GuestWrites, GuestMaps, GuestFrees
  <2>4. page' \in [Vas -> Cells \cup {NoPage}]
    BY <1>5 DEF TypeOK, GuestWrites, GuestMaps, GuestFrees
  <2>5. gone' \subseteq Tasks \ ToSet(ring')
    BY <1>5 DEF TypeOK, GuestWrites, GuestMaps, GuestFrees
  <2> QED BY <1>1, <1>2, <2>1, <2>2, <2>3, <2>4, <2>5 DEF TypeOK
<1> QED BY <1>1, <1>3, <1>4, <1>5

(* The guest runs only when no app holds a pause, so it disturbs no view.  *)
LEMMA GuestKeeps ==
  ASSUME Inv, GuestRuns
  PROVE  Inv'
<1>1. /\ UNCHANGED <<pc, call, vmsg, asked, reply, result, view, owed, balanced,
                   pauses, walk>>
      /\ pauses = 0
  BY DEF GuestRuns, appVars, holdVars
<1>2. TypeOK /\ Domains /\ DialogueInv /\ TicketInv /\ RingInv /\ WalkInv /\ ViewInv
  BY DEF Inv
<1>3. TypeOK' /\ RingInv'
  BY <1>2, GuestTypes
<1>4. Domains'
  BY <1>1, <1>2 DEF Domains
<1>5. DialogueInv'
  BY <1>1, <1>2 DEF DialogueInv, Dialogue
<1>6. TicketInv'
  BY <1>1, <1>2, SameTickets
<1>7. \A p \in Apps : ~ (balanced' /\ owed'[p] > 0)
  BY <1>1, <1>2, PausedStands
<1>8. WalkInv'
  BY <1>1, <1>2, <1>7 DEF WalkInv
<1>9. ViewInv'
  BY <1>7 DEF ViewInv
<1> QED BY <1>3, <1>4, <1>5, <1>6, <1>8, <1>9 DEF Inv

-----------------------------------------------------------------------------
(* The frontend.                                                           *)

(* What is so of an app depends on what is its own.                        *)
LEMMA SameDialogue ==
  ASSUME NEW q \in Apps, Dialogue(q),
         pc'[q] = pc[q], call'[q] = call[q], asked'[q] = asked[q], reply'[q] = reply[q],
         view'[q] = view[q], owed'[q] = owed[q]
  PROVE  Dialogue(q)'
BY DEF Dialogue

(* What a reply shows is the same while reply and guest are.               *)
LEMMA SameView ==
  ASSUME NEW q \in Apps, UNCHANGED <<ring, page>>,
         call'[q] = call[q], reply'[q] = reply[q]
  PROVE  /\ ViewOf(q)' = ViewOf(q)
         /\ Matches(ViewOf(q))' <=> Matches(ViewOf(q))
<1>1. Part(q)' = Part(q) /\ Parts(q)' = Parts(q)
  BY DEF Part, Parts
<1>2. \A x : PageOf(x)' = PageOf(x)
  BY DEF PageOf
<1>3. ViewOf(q)' = ViewOf(q)
  BY <1>1 DEF ViewOf, ListOf, Translated
<1> QED BY <1>2, <1>3 DEF Matches

(* A view stays true while the guest stands still.                         *)
LEMMA StillMatches ==
  ASSUME UNCHANGED <<ring, page>>, NEW v
  PROVE  Matches(v)' <=> Matches(v)
<1>1. \A x : PageOf(x)' = PageOf(x)
  BY DEF PageOf
<1> QED BY <1>1 DEF Matches

(* An app that was given nothing was given nothing wrong.                  *)
LEMMA NothingMatches == Matches(NoResult) /\ Matches(NoResult)'
BY DEF Matches

(* A step of an app that leaves the guest, the partition and the other     *)
(* apps alone.                                                             *)
AppsStep(p) ==
  /\ UNCHANGED <<guestVars, holdVars, walk>>
  /\ \A q \in Apps \ {p} :
       /\ pc'[q] = pc[q] /\ call'[q] = call[q] /\ vmsg'[q] = vmsg[q]
       /\ asked'[q] = asked[q] /\ reply'[q] = reply[q] /\ view'[q] = view[q]

(* A step of one app's frontend keeps the invariant if its own part of it  *)
(* is kept.                                                                *)
LEMMA AppKeeps ==
  ASSUME Inv, NEW p \in Apps, AppsStep(p), Domains', Dialogue(p)',
         /\ pc'[p] \in {"idle", "sent", "answered", "orphan", "dead"}
         /\ call'[p] \in Calls \cup {NoCall}
         /\ Len(vmsg'[p]) <= 1
         /\ pc'[p] \in {"sent", "orphan"} <=> asked'[p] # <<>>,
         walk # NoWalk /\ walk.by = p =>
           pc'[p] \in {"sent", "orphan"} /\ asked'[p] = asked[p],
         balanced /\ owed[p] > 0 => /\ Matches(view'[p])
                                    /\ pc'[p] = "answered" => Matches(ViewOf(p))'
  PROVE  Inv'
<1>1. TypeOK /\ Domains /\ DialogueInv /\ TicketInv /\ RingInv /\ WalkInv /\ ViewInv
  BY DEF Inv
<1>2. UNCHANGED <<cell, page, ring, next, gone, owed, balanced, pauses, walk>>
  BY DEF AppsStep, guestVars, holdVars
<1>3. TypeOK'
  <2>1. /\ cell' \in [Cells -> Stored \cup {NoPage}]
        /\ page' \in [Vas -> Cells \cup {NoPage}]
        /\ next' \in [Listed -> Listed]
        /\ ToSet(ring') \subseteq Tasks
        /\ gone' \subseteq Tasks \ ToSet(ring')
        /\ pauses' \in Nat /\ balanced' \in BOOLEAN
    BY <1>1, <1>2 DEF TypeOK
  <2>2. ASSUME NEW q \in Apps
        PROVE  /\ pc'[q] \in {"idle", "sent", "answered", "orphan", "dead"}
               /\ call'[q] \in Calls \cup {NoCall}
               /\ Len(vmsg'[q]) <= 1
               /\ pc'[q] \in {"sent", "orphan"} <=> asked'[q] # <<>>
               /\ owed'[q] \in Nat
    <3>1. owed'[q] \in Nat
      BY <1>1, <1>2 DEF TypeOK
    <3>2. CASE q # p
      BY <1>1, <3>1, <3>2 DEF TypeOK, AppsStep
    <3> QED BY <3>1, <3>2
  <2> QED BY <2>1, <2>2 DEF TypeOK
<1>4. DialogueInv'
  <2> SUFFICES ASSUME NEW q \in Apps PROVE Dialogue(q)'
    BY DEF DialogueInv
  <2>1. CASE q # p
    BY <1>1, <1>2, <2>1, SameDialogue DEF DialogueInv, AppsStep
  <2> QED BY <2>1
<1>5. TicketInv'
  BY <1>1, <1>2, SameTickets
<1>6. RingInv'
  BY <1>1, <1>2 DEF RingInv, Entry, Following
<1>7. WalkInv'
  <2> SUFFICES ASSUME walk # NoWalk PROVE WalkInv'
    BY <1>2 DEF WalkInv
  <2>1. /\ walk.by \in Apps
        /\ walk = [on |-> TRUE, by |-> walk.by, cur |-> walk.cur, nxt |-> walk.nxt,
                   tasks |-> walk.tasks]
        /\ walk.cur \in Listed /\ walk.nxt \in Listed
        /\ pc[walk.by] \in {"sent", "orphan"}
        /\ asked[walk.by][1].type = "PROCESS_LIST"
        /\ balanced /\ owed[walk.by] > 0 => \E k \in 0 .. Len(ring) : Walked(k)
    BY <1>1 DEF WalkInv
  <2>2. pc'[walk.by] \in {"sent", "orphan"} /\ asked'[walk.by] = asked[walk.by]
    BY <2>1 DEF AppsStep
  <2>3. \A k \in 0 .. Len(ring) : Walked(k)' <=> Walked(k)
    BY <1>2 DEF Walked, Entry, Following
  <2> QED BY <1>2, <2>1, <2>2, <2>3 DEF WalkInv
<1>8. ViewInv'
  <2> SUFFICES ASSUME NEW q \in Apps, balanced, owed[q] > 0
               PROVE  /\ Matches(view[q])'
                      /\ pc'[q] = "answered" => Matches(ViewOf(q))'
    BY <1>2 DEF ViewInv
  <2>1. Matches(view[q])' <=> Matches(view'[q])
    BY <1>2 DEF Matches, PageOf
  <2>2. CASE q # p
    BY <1>1, <1>2, <2>1, <2>2, SameView DEF ViewInv, AppsStep
  <2>3. CASE q = p
    BY <2>1, <2>3
  <2> QED BY <2>2, <2>3
<1> QED BY <1>3, <1>4, <1>5, <1>6, <1>7, <1>8 DEF Inv

(* A method of the frontend sends its call or raises.                      *)
LEMMA BeginKeeps ==
  ASSUME Inv, NEW p \in Apps, NEW c \in Asks[p], Begin(p, c)
  PROVE  Inv'
<1>1. TypeOK /\ Domains /\ DialogueInv /\ WalkInv
  BY DEF Inv
<1>2. /\ pc[p] = "idle"
      /\ Helper(p, c)
      /\ view' = [view EXCEPT ![p] = NoResult]
      /\ result' = [result EXCEPT ![p] = NoResult]
      /\ IF c.fit THEN /\ pc' = [pc EXCEPT ![p] = "sent"]
                       /\ call' = [call EXCEPT ![p] = c]
                       /\ asked' = [asked EXCEPT ![p] = vmsg'[p]]
                  ELSE UNCHANGED <<pc, call, asked>>
      /\ UNCHANGED <<guestVars, holdVars, reply, walk>>
  BY DEF Begin
<1>3. c \in Calls
  BY AsksAssumption
<1>4. /\ vmsg' = [vmsg EXCEPT ![p] = <<c>>] /\ vmsg'[p] = <<c>>
      /\ view'[p] = NoResult
  BY <1>1, <1>2 DEF Helper, Domains
<1>5. AppsStep(p) /\ Domains'
  BY <1>1, <1>2, <1>4 DEF AppsStep, Domains, holdVars
<1>6. Dialogue(p)
  BY <1>1 DEF DialogueInv
<1>7. /\ c.fit => pc'[p] = "sent" /\ call'[p] = c /\ asked'[p] = <<c>>
      /\ ~ c.fit => pc'[p] = "idle" /\ call'[p] = call[p] /\ asked'[p] = <<>>
      /\ reply'[p] = <<>> /\ owed'[p] = owed[p]
  BY <1>1, <1>2, <1>4, <1>6 DEF Domains, Dialogue, holdVars
<1>8. Dialogue(p)'
  <2>1. CASE c.fit
    <3>1. <<c>>[1] = c /\ <<c>> # <<>>
      OBVIOUS
    <3> QED BY <1>3, <1>4, <1>7, <2>1, <3>1 DEF Dialogue
  <2>2. CASE ~ c.fit
    BY <1>4, <1>7, <2>2 DEF Dialogue
  <2> QED BY <2>1, <2>2
<1>9. call[p] \in Calls \cup {NoCall} /\ Len(<<c>>) <= 1 /\ <<c>> # <<>>
  BY <1>1 DEF TypeOK
<1>10. walk # NoWalk => walk.by # p
  BY <1>1, <1>2 DEF WalkInv
<1>11. Matches(view'[p])
  BY <1>4, NothingMatches
<1> QED BY <1>3, <1>4, <1>5, <1>7, <1>8, <1>9, <1>10, <1>11, AppKeeps

(* A method of the frontend takes its result from the reply.               *)
LEMMA ReturnKeeps ==
  ASSUME Inv, NEW p \in Apps, Return(p)
  PROVE  Inv'
<1>1. TypeOK /\ Domains /\ DialogueInv /\ WalkInv /\ ViewInv
  BY DEF Inv
<1>2. AppsStep(p) /\ Domains'
  BY <1>1 DEF AppsStep, Domains, Return, holdVars
<1>3. Dialogue(p)
  BY <1>1 DEF DialogueInv
<1>4. /\ pc[p] = "answered" /\ pc'[p] = "idle" /\ call'[p] = NoCall /\ vmsg'[p] = <<>>
      /\ reply'[p] = <<>> /\ view'[p] = ViewOf(p) /\ asked'[p] = <<>> /\ owed'[p] = owed[p]
  BY <1>1, <1>3 DEF Return, Domains, Dialogue, holdVars
<1>5. Dialogue(p)'
  BY <1>4 DEF Dialogue
<1>6. walk # NoWalk => walk.by # p
  BY <1>1, <1>4 DEF WalkInv
<1>7. balanced /\ owed[p] > 0 => Matches(view'[p])
  BY <1>1, <1>4 DEF ViewInv
<1>8. Len(<<>>) <= 1
  OBVIOUS
<1> QED BY <1>2, <1>4, <1>5, <1>6, <1>7, <1>8, AppKeeps

(* An app ends, whatever it waits for.                                     *)
LEMMA AppDiesKeeps ==
  ASSUME Inv, NEW p \in Apps, AppDies(p)
  PROVE  Inv'
<1>1. TypeOK /\ Domains /\ DialogueInv /\ WalkInv
  BY DEF Inv
<1>2. AppsStep(p) /\ Domains'
  BY <1>1 DEF AppsStep, Domains, AppDies, holdVars
<1>3. Dialogue(p)
  BY <1>1 DEF DialogueInv
<1>4. /\ pc[p] \in {"idle", "sent", "answered"}
      /\ pc'[p] = IF pc[p] = "sent" THEN "orphan" ELSE "dead"
      /\ call'[p] = NoCall /\ vmsg'[p] = <<>> /\ reply'[p] = <<>> /\ view'[p] = NoResult
      /\ asked'[p] = asked[p] /\ owed'[p] = owed[p]
  BY <1>1 DEF AppDies, Domains, holdVars
<1>5. Dialogue(p)'
  BY <1>3, <1>4 DEF Dialogue
<1>6. walk # NoWalk /\ walk.by = p => pc[p] = "sent"
  BY <1>1, <1>4 DEF WalkInv
<1>7. Matches(view'[p])
  BY <1>4, NothingMatches
<1>8. Len(<<>>) <= 1
  OBVIOUS
<1>9. pc'[p] \in {"sent", "orphan"} <=> asked'[p] # <<>>
  BY <1>1, <1>4 DEF TypeOK
<1> QED BY <1>2, <1>4, <1>5, <1>6, <1>7, <1>8, <1>9, AppKeeps

-----------------------------------------------------------------------------
(* The VMI partition.                                                      *)

(* What an app gave back of another's pauses stays given back.             *)
Redeemed == balanced' \in BOOLEAN /\ (balanced' => balanced)

LEMMA NothingRedeemed ==
  ASSUME TypeOK, balanced' = balanced
  PROVE  Redeemed
BY DEF TypeOK, Redeemed

(* The call of p's message is served, with these parts of a reply.         *)
Served(p, answers) ==
  /\ pc[p] \in {"sent", "orphan"}
  /\ UNCHANGED <<call, vmsg, result, view>>
  /\ asked' = [asked EXCEPT ![p] = <<>>]
  /\ pc' = [pc EXCEPT ![p] = IF @ = "orphan" THEN "dead" ELSE "answered"]
  /\ reply' = [reply EXCEPT ![p] = IF pc[p] = "orphan" THEN <<>> ELSE answers]

(* A handler that answers puts one part into the reply.                    *)
LEMMA AnswersServe ==
  ASSUME Domains, NEW p \in Apps, Dialogue(p), pc[p] \in {"sent", "orphan"},
         NEW ok, NEW value, Answers(p, ok, value)
  PROVE  Served(p, <<Answer(asked[p][1], ok, value)>>)
<1> DEFINE a == <<Answer(asked[p][1], ok, value)>>
<1>1. asked[p] = <<asked[p][1]>>
  BY DEF Dialogue
<1>2. Tail(asked[p]) = <<>>
  <2>1. PICK c : asked[p] = <<c>>
    BY <1>1
  <2>2. Tail(<<c>>) = <<>>
    OBVIOUS
  <2> QED BY <2>1, <2>2
<1>3. <<>> \o a = a
  OBVIOUS
<1> HIDE DEF a
<1>4. Answered(p, a, <<>>)
  BY <1>2 DEF Answers, a
<1>5. pc[p] = "sent" => reply[p] = <<>>
  BY DEF Dialogue
<1>6. reply' = [reply EXCEPT ![p] = IF pc[p] = "orphan" THEN <<>> ELSE a]
  BY <1>3, <1>4, <1>5 DEF Answered
<1> QED BY <1>4, <1>6 DEF Answered, Served, a

(* A handler that adds nothing sends an empty reply.                       *)
LEMMA RefusalServes ==
  ASSUME NEW p \in Apps, Dialogue(p), pc[p] \in {"sent", "orphan"}, Answered(p, <<>>, <<>>)
  PROVE  Served(p, <<>>)
<1>1. reply[p] = <<>> /\ <<>> \o <<>> = <<>>
  BY DEF Dialogue
<1>2. reply' = [reply EXCEPT ![p] = IF pc[p] = "orphan" THEN <<>> ELSE <<>>]
  BY <1>1 DEF Answered
<1> QED BY <1>2 DEF Answered, Served

(* An answered app has an empty message and a reply to the call that was   *)
(* in it; the other apps keep theirs.                                      *)
LEMMA ServedDialogue ==
  ASSUME Domains, DialogueInv, TypeOK, NEW p \in Apps, NEW answers, Served(p, answers),
         answers # <<>> =>
           answers = <<answers[1]>> /\ answers[1].type = asked[p][1].type,
         DOMAIN owed' = Apps, \A q \in Apps \ {p} : owed'[q] = owed[q]
  PROVE  Domains' /\ DialogueInv'
<1>1. Domains'
  BY DEF Domains, Served
<1> SUFFICES ASSUME NEW q \in Apps PROVE Dialogue(q)'
  BY <1>1 DEF DialogueInv
<1>2. CASE q # p
  BY <1>2, SameDialogue DEF DialogueInv, Domains, Served
<1>3. CASE q = p
  <2>1. /\ asked'[p] = <<>> /\ call'[p] = call[p] /\ view'[p] = view[p]
        /\ pc'[p] = IF pc[p] = "orphan" THEN "dead" ELSE "answered"
        /\ reply'[p] = IF pc[p] = "orphan" THEN <<>> ELSE answers
    BY DEF Domains, Served
  <2>2. pc[p] \in {"sent", "orphan"} /\ Dialogue(p)
    BY DEF DialogueInv, Served
  <2>3. pc[p] = "sent" => call[p] = asked[p][1] /\ call[p] \in Calls
    BY <2>2 DEF Dialogue
  <2>4. view[p] = NoResult
    BY <2>2 DEF Dialogue
  <2> QED BY <1>3, <2>1, <2>2, <2>3, <2>4 DEF Dialogue
<1> QED BY <1>2, <1>3

(* A handler keeps the invariant if it leaves page tables and task list    *)
(* alone, gives back no more pauses than there are, and shows a pausing    *)
(* app the guest as it is.                                                 *)
LEMMA ServedKeeps ==
  ASSUME Inv, NEW p \in Apps, NEW answers, Served(p, answers),
         answers # <<>> =>
           answers = <<answers[1]>> /\ answers[1].type = asked[p][1].type,
         UNCHANGED <<page, ring, next, gone>>,
         cell' \in [Cells -> Stored \cup {NoPage}],
         TicketInv', pauses' \in Nat, Redeemed,
         DOMAIN owed' = Apps, owed'[p] \in Nat, \A q \in Apps \ {p} : owed'[q] = owed[q],
         walk' = NoWalk,
         pc[p] = "sent" /\ balanced' /\ owed'[p] > 0 => Matches(ViewOf(p))'
  PROVE  Inv'
<1>1. TypeOK /\ Domains /\ DialogueInv /\ RingInv /\ ViewInv
  BY DEF Inv
<1>2. Domains' /\ DialogueInv'
  BY <1>1, ServedDialogue
<1>3. TypeOK'
  <2>1. /\ page' \in [Vas -> Cells \cup {NoPage}]
        /\ next' \in [Listed -> Listed]
        /\ ToSet(ring') \subseteq Tasks
        /\ gone' \subseteq Tasks \ ToSet(ring')
        /\ balanced' \in BOOLEAN
    BY <1>1 DEF TypeOK, Redeemed
  <2>2. ASSUME NEW q \in Apps
        PROVE  /\ pc'[q] \in {"idle", "sent", "answered", "orphan", "dead"}
               /\ call'[q] \in Calls \cup {NoCall}
               /\ Len(vmsg'[q]) <= 1
               /\ pc'[q] \in {"sent", "orphan"} <=> asked'[q] # <<>>
               /\ owed'[q] \in Nat
    <3>1. CASE q # p
      BY <1>1, <3>1 DEF TypeOK, Served, Domains
    <3>2. CASE q = p
      BY <1>1, <3>2 DEF TypeOK, Served, Domains
    <3> QED BY <3>1, <3>2
  <2> QED BY <2>1, <2>2 DEF TypeOK
<1>4. RingInv'
  BY <1>1 DEF RingInv, Entry, Following
<1>5. WalkInv'
  BY DEF WalkInv
<1>6. ViewInv'
  <2> SUFFICES ASSUME NEW q \in Apps, balanced', owed'[q] > 0
               PROVE  /\ Matches(view[q])'
                      /\ pc'[q] = "answered" => Matches(ViewOf(q))'
    BY DEF ViewInv
  <2>1. CASE q # p
    <3>1. owed[q] > 0 /\ pc'[q] = pc[q] /\ call'[q] = call[q] /\ reply'[q] = reply[q]
          /\ view'[q] = view[q]
      BY <1>1, <2>1 DEF Served, Domains
    <3>2. balanced
      BY DEF Redeemed
    <3>3. Matches(view[q])' <=> Matches(view[q])
      BY <3>1 DEF Matches, PageOf
    <3> QED BY <1>1, <3>1, <3>3, <3>2, SameView DEF ViewInv
  <2>2. CASE q = p
    <3>1. view'[p] = NoResult
      BY <1>1 DEF DialogueInv, Dialogue, Served
    <3>2. Matches(view[p])'
      BY <3>1 DEF Matches
    <3>3. pc'[p] = "answered" => pc[p] = "sent"
      BY <1>1 DEF Served, Domains
    <3> QED BY <2>2, <3>2, <3>3
  <2> QED BY <2>1, <2>2
<1> QED BY <1>2, <1>3, <1>4, <1>5, <1>6 DEF Inv

(* Of a call that neither lists nor translates, an app's view is nothing.  *)
LEMMA NoView ==
  ASSUME NEW p \in Apps, call'[p].type \notin {"PROCESS_LIST", "TRANSLATE"}
  PROVE  Matches(ViewOf(p))'
<1>1. ViewOf(p)' = NoResult
  BY DEF ViewOf
<1> QED BY <1>1 DEF Matches

(* What a call that was taken is.                                          *)
LEMMA TakenCall ==
  ASSUME Inv, NEW p \in Apps, NEW types, Taking(p, types)
  PROVE  /\ walk = NoWalk
         /\ pc[p] \in {"sent", "orphan"}
         /\ asked[p][1] \in Calls /\ asked[p][1].type \in types
         /\ pc[p] = "sent" => call[p] = asked[p][1] /\ call[p].fit
         /\ Dialogue(p) /\ Domains /\ TypeOK
<1>1. Dialogue(p) /\ Domains /\ TypeOK /\ WalkInv
  BY DEF Inv, DialogueInv
<1>2. walk = NoWalk
  BY <1>1 DEF WalkInv, Taking
<1> QED BY <1>1, <1>2 DEF Taking, Dialogue

(* In particular one that shows neither a list nor a translation.          *)
LEMMA QuietKeeps ==
  ASSUME Inv, NEW p \in Apps, NEW types, Taking(p, types),
         types \cap {"PROCESS_LIST", "TRANSLATE"} = {},
         NEW answers, Served(p, answers),
         answers # <<>> =>
           answers = <<answers[1]>> /\ answers[1].type = asked[p][1].type,
         UNCHANGED <<page, ring, next, gone, walk>>,
         cell' \in [Cells -> Stored \cup {NoPage}],
         TicketInv', pauses' \in Nat, Redeemed,
         DOMAIN owed' = Apps, owed'[p] \in Nat, \A q \in Apps \ {p} : owed'[q] = owed[q]
  PROVE  Inv'
<1>1. walk' = NoWalk
  BY TakenCall
<1>2. ASSUME pc[p] = "sent" PROVE Matches(ViewOf(p))'
  <2>1. call'[p] = asked[p][1] /\ asked[p][1].type \in types
    BY <1>2, TakenCall DEF Served
  <2> QED BY <2>1, NoView
<1> QED BY <1>1, <1>2, ServedKeeps

(* A reply with one part has that part's type.                             *)
LEMMA OneAnswer ==
  ASSUME NEW c, NEW ok, NEW value, NEW answers, answers = <<Answer(c, ok, value)>>
  PROVE  answers # <<>> /\ answers = <<answers[1]>> /\ answers[1].type = c.type
BY DEF Answer

(* A write leaves words in the cells that are mapped.                      *)
LEMMA WrittenTypes ==
  ASSUME TypeOK, NEW c, NEW w \in Stored,
         cell' = IF Found(c) THEN [cell EXCEPT ![At(c.place)] = w] ELSE cell
  PROVE  cell' \in [Cells -> Stored \cup {NoPage}]
BY DEF TypeOK

(* What a write stores fits the word.                                      *)
LEMMA WordStored ==
  ASSUME NEW c \in Calls
  PROVE  /\ c.type = "WRITE" => Narrow(c.value) \in Stored
         /\ c.type = "WRITE_BUFFER" => c.value \in Stored
BY CallFields DEF Narrow, Stored

(* A call that reads or writes, looks up or is not implemented.            *)
LEMMA SimpleKeeps ==
  ASSUME Inv, NEW p \in Apps, NEW types, Taking(p, types),
         types \cap {"PROCESS_LIST", "TRANSLATE"} = {},
         NEW ok, NEW value, Answers(p, ok, value),
         UNCHANGED <<page, ring, next, gone, walk, owed, balanced, pauses>>,
         cell' \in [Cells -> Stored \cup {NoPage}]
  PROVE  Inv'
<1>1. Domains /\ TypeOK /\ TicketInv /\ Dialogue(p) /\ pc[p] \in {"sent", "orphan"}
  BY TakenCall DEF Inv
<1> DEFINE answers == <<Answer(asked[p][1], ok, value)>>
<1>2. Served(p, answers)
  BY <1>1, AnswersServe
<1> HIDE DEF answers
<1>3. answers # <<>> /\ answers = <<answers[1]>> /\ answers[1].type = asked[p][1].type
  <2>1. answers = <<Answer(asked[p][1], ok, value)>>
    BY DEF answers
  <2> QED BY <2>1, OneAnswer
<1>4. TicketInv'
  BY <1>1, SameTickets
<1>5. pauses' \in Nat /\ DOMAIN owed' = Apps /\ \A q \in Apps : owed'[q] \in Nat
  BY <1>1 DEF TypeOK, Domains
<1>6. Redeemed
  BY <1>1, NothingRedeemed
<1> QED BY <1>2, <1>3, <1>4, <1>5, <1>6, QuietKeeps

(* The handlers that read.                                                 *)
LEMMA ReadsKeep ==
  ASSUME Inv, NEW p \in Apps, ReadWord(p) \/ ReadBuffer(p) \/ ReadString(p) \/ Lookup(p)
  PROVE  Inv'
<1>1. PICK types \in {{"READ"}, {"READ_BUFFER"}, {"READ_STR"}, {"LOOKUP"}} :
        Taking(p, types) /\ \E ok, value : Answers(p, ok, value)
  BY DEF ReadWord, ReadBuffer, ReadString, Lookup
<1>2. UNCHANGED <<cell, page, ring, next, gone, owed, balanced, pauses, walk>>
  BY DEF ReadWord, ReadBuffer, ReadString, Lookup, guestVars, holdVars
<1>3. types \cap {"PROCESS_LIST", "TRANSLATE"} = {}
  BY <1>1
<1>4. cell' \in [Cells -> Stored \cup {NoPage}]
  BY <1>2 DEF Inv, TypeOK
<1> QED BY <1>1, <1>2, <1>3, <1>4, SimpleKeeps

(* The handlers that write.                                                *)
LEMMA WritesKeep ==
  ASSUME Inv, NEW p \in Apps, WriteWord(p) \/ WriteBuffer(p)
  PROVE  Inv'
<1>1. PICK type \in {"WRITE", "WRITE_BUFFER"} :
        Write(p, type, IF type = "WRITE" THEN Narrow(asked[p][1].value) ELSE asked[p][1].value)
  BY DEF WriteWord, WriteBuffer
<1> DEFINE c == asked[p][1]
           word == IF type = "WRITE" THEN Narrow(c.value) ELSE c.value
<1>2. /\ Taking(p, {type})
      /\ cell' = IF Found(c) THEN [cell EXCEPT ![At(c.place)] = word] ELSE cell
      /\ Answers(p, Found(c), Empty)
      /\ UNCHANGED <<page, ring, next, gone, owed, balanced, pauses, walk>>
  BY <1>1 DEF Write, holdVars
<1>3. c \in Calls /\ c.type = type /\ TypeOK
  BY <1>2, TakenCall
<1> HIDE DEF c
<1>4. word \in Stored
  BY <1>1, <1>3, WordStored DEF c
<1>5. cell' \in [Cells -> Stored \cup {NoPage}]
  BY <1>2, <1>3, <1>4, WrittenTypes
<1>6. {type} \cap {"PROCESS_LIST", "TRANSLATE"} = {}
  BY <1>1
<1> QED BY <1>2, <1>5, <1>6, SimpleKeeps

(* The handler that only answers.                                          *)
LEMMA UnimplementedKeeps ==
  ASSUME Inv, NEW p \in Apps, Unimplemented(p)
  PROVE  Inv'
<1>1. Taking(p, {"UNIMPLEMENTED"}) /\ Answered(p, <<>>, <<>>)
  BY DEF Unimplemented
<1>2. UNCHANGED <<cell, page, ring, next, gone, owed, balanced, pauses, walk>>
  BY DEF Unimplemented, guestVars, holdVars
<1>3. /\ Domains /\ TypeOK /\ TicketInv /\ Dialogue(p) /\ pc[p] \in {"sent", "orphan"}
  BY <1>1, TakenCall DEF Inv
<1>4. Served(p, <<>>)
  BY <1>1, <1>3, RefusalServes
<1>5. TicketInv'
  BY <1>2, <1>3, SameTickets
<1>6. /\ pauses' \in Nat /\ DOMAIN owed' = Apps /\ \A q \in Apps : owed'[q] \in Nat
      /\ cell' \in [Cells -> Stored \cup {NoPage}]
  BY <1>2, <1>3 DEF TypeOK, Domains
<1>7. {"UNIMPLEMENTED"} \cap {"PROCESS_LIST", "TRANSLATE"} = {}
  OBVIOUS
<1>8. Redeemed
  BY <1>2, <1>3, NothingRedeemed
<1> QED BY <1>1, <1>2, <1>4, <1>5, <1>6, <1>7, <1>8, QuietKeeps

(* process_pause_vm and process_resume_vm.                                 *)
LEMMA PausesKeep ==
  ASSUME Inv, NEW p \in Apps, PauseVm(p) \/ ResumeVm(p)
  PROVE  Inv'
<1>1. PICK types \in {{"PAUSE_VM"}, {"RESUME_VM"}} :
        /\ Taking(p, types)
        /\ Answers(p, TRUE, Empty)
        /\ UNCHANGED <<cell, page, ring, next, gone, walk>>
        /\ types = {"PAUSE_VM"} => /\ pauses' = pauses + 1
                                   /\ owed' = [owed EXCEPT ![p] = @ + 1]
                                   /\ balanced' = balanced
        /\ types = {"RESUME_VM"} => /\ pauses' = IF pauses = 0 THEN 0 ELSE pauses - 1
                                    /\ Redeem(p)
  <2>1. {"PAUSE_VM"} # {"RESUME_VM"}
    OBVIOUS
  <2>2. CASE PauseVm(p)
    BY <2>1, <2>2 DEF PauseVm, guestVars
  <2>3. CASE ResumeVm(p)
    BY <2>1, <2>3 DEF ResumeVm, guestVars
  <2> QED BY <2>2, <2>3
<1>2. /\ Domains /\ TypeOK /\ TicketInv /\ Dialogue(p) /\ pc[p] \in {"sent", "orphan"}
      /\ asked[p][1].type \in types
  BY <1>1, TakenCall DEF Inv
<1> DEFINE answers == <<Answer(asked[p][1], TRUE, Empty)>>
<1>3. Served(p, answers)
  BY <1>1, <1>2, AnswersServe
<1> HIDE DEF answers
<1>4. answers # <<>> /\ answers = <<answers[1]>> /\ answers[1].type = asked[p][1].type
  <2> DEFINE a == Answer(asked[p][1], TRUE, Empty)
  <2>1. answers = <<a>>
    BY DEF answers
  <2>2. a.type = asked[p][1].type
    BY DEF Answer
  <2> HIDE DEF a
  <2> QED BY <2>1, <2>2
<1>5. /\ types = {"RESUME_VM"} => /\ owed' = [owed EXCEPT ![p] = IF @ = 0 THEN 0 ELSE @ - 1]
                                /\ balanced' = (balanced /\ owed[p] > 0)
      /\ balanced \in BOOLEAN
  BY <1>1, <1>2 DEF Redeem, TypeOK
<1>6. owed[p] \in Nat /\ pauses \in Nat /\ DOMAIN owed = Apps
  BY <1>2 DEF TypeOK, Domains
<1>7. TicketInv'
  <2>1. CASE types = {"PAUSE_VM"}
    BY <1>1, <1>2, <2>1, TicketTaken
  <2>2. CASE types = {"RESUME_VM"}
    BY <1>1, <1>2, <2>2, TicketGiven
  <2> QED BY <1>1, <2>1, <2>2
<1>8. /\ pauses' \in Nat /\ DOMAIN owed' = Apps /\ owed'[p] \in Nat
      /\ \A q \in Apps \ {p} : owed'[q] = owed[q]
      /\ Redeemed
  <2>1. CASE types = {"PAUSE_VM"}
    BY <1>1, <1>5, <1>6, <2>1 DEF Redeemed
  <2>2. CASE types = {"RESUME_VM"}
    <3>1. pauses' \in Nat /\ DOMAIN owed' = Apps /\ owed'[p] \in Nat
      BY <1>1, <1>5, <1>6, <2>2
    <3>2. \A q \in Apps \ {p} : owed'[q] = owed[q]
      BY <1>5, <1>6, <2>2
    <3>3. Redeemed
      BY <1>5, <2>2 DEF Redeemed
    <3> QED BY <3>1, <3>2, <3>3
  <2> QED BY <1>1, <2>1, <2>2
<1>9. cell' \in [Cells -> Stored \cup {NoPage}]
  BY <1>1, <1>2 DEF TypeOK
<1>10. types \cap {"PROCESS_LIST", "TRANSLATE"} = {}
  BY <1>1
<1> QED BY <1>1, <1>3, <1>4, <1>7, <1>8, <1>9, <1>10, QuietKeeps

(* The part of the reply that an app takes its result from.                *)
LEMMA PartTaken ==
  ASSUME NEW p \in Apps, NEW a, reply'[p] = <<a>>, a.type = call'[p].type
  PROVE  Parts(p)' = {1} /\ Part(p)' = a
<1>1. DOMAIN reply'[p] = {1} /\ reply'[p][1] = a
  OBVIOUS
<1>2. Parts(p)' = {1}
  BY <1>1 DEF Parts
<1>3. Min(Parts(p)') = 1
  BY <1>2 DEF Min
<1> QED BY <1>1, <1>2, <1>3 DEF Part

(* A translation is taken from the page tables as they are.                *)
LEMMA TranslateKeeps ==
  ASSUME Inv, NEW p \in Apps, Translate(p)
  PROVE  Inv'
<1> DEFINE c == asked[p][1]
           ok == c.fit /\ PageOf(c.place) # NoPage
           a == Answer(c, ok, PageOf(c.place))
           answers == <<a>>
<1>1. Taking(p, {"TRANSLATE"}) /\ Answers(p, ok, PageOf(c.place))
  BY DEF Translate
<1>2. UNCHANGED <<cell, page, ring, next, gone, owed, balanced, pauses, walk>>
  BY DEF Translate, guestVars, holdVars
<1>3. /\ Domains /\ TypeOK /\ TicketInv /\ Dialogue(p) /\ pc[p] \in {"sent", "orphan"}
      /\ c.type = "TRANSLATE" /\ walk = NoWalk
      /\ pc[p] = "sent" => call[p] = c /\ c.fit
  BY <1>1, TakenCall DEF Inv
<1>4. Served(p, answers)
  BY <1>1, <1>3, AnswersServe
<1>5. a.type = c.type /\ a.ok = ok /\ a.value = PageOf(c.place)
  BY DEF Answer
<1> HIDE DEF c, ok, a
<1>6. answers # <<>> /\ answers = <<answers[1]>> /\ answers[1].type = c.type
  BY <1>5
<1>7. ASSUME pc[p] = "sent" PROVE Matches(ViewOf(p))'
  <2>1. call'[p] = c /\ reply'[p] = <<a>>
    BY <1>3, <1>4, <1>7 DEF Served, Domains
  <2>2. Parts(p)' = {1} /\ Part(p)' = a
    BY <1>5, <2>1, PartTaken
  <2>3. ViewOf(p)' = [type |-> "TRANSLATE", place |-> c.place,
                      cell |-> IF a.ok THEN a.value ELSE NoPage]
    BY <1>3, <2>1, <2>2 DEF ViewOf, Translated
  <2>4. (IF a.ok THEN a.value ELSE NoPage) = PageOf(c.place)
    BY <1>3, <1>5, <1>7 DEF ok
  <2> QED BY <1>2, <2>3, <2>4 DEF Matches, PageOf
<1>8. TicketInv' /\ Redeemed
  BY <1>2, <1>3, SameTickets, NothingRedeemed
<1> QED BY <1>2, <1>3, <1>4, <1>6, <1>7, <1>8, ServedKeeps DEF TypeOK, Domains, c

(* A step of the walk, or one that ends the partition's process.           *)
LEMMA WalkingKeeps ==
  ASSUME Inv, UNCHANGED <<appVars, guestVars, holdVars, asked, reply>>, WalkInv'
  PROVE  Inv'
<1>1. TypeOK /\ Domains /\ DialogueInv /\ TicketInv /\ RingInv /\ ViewInv
  BY DEF Inv
<1>2. UNCHANGED <<pc, call, vmsg, result, view, cell, page, ring, next, gone, asked, reply,
                  owed, balanced, pauses>>
  BY DEF appVars, guestVars, holdVars
<1>3. TypeOK' /\ Domains'
  BY <1>1, <1>2 DEF TypeOK, Domains
<1>4. DialogueInv'
  BY <1>1, <1>2, SameDialogue DEF DialogueInv
<1>5. TicketInv'
  BY <1>1, <1>2, SameTickets
<1>6. RingInv'
  BY <1>1, <1>2 DEF RingInv, Entry, Following
<1>7. ViewInv'
  <2> SUFFICES ASSUME NEW q \in Apps, balanced, owed[q] > 0
               PROVE  /\ Matches(view[q])'
                      /\ pc[q] = "answered" => Matches(ViewOf(q))'
    BY <1>2 DEF ViewInv
  <2>1. Matches(view[q])' <=> Matches(view[q])
    BY <1>2 DEF Matches, PageOf
  <2> QED BY <1>1, <1>2, <2>1, SameView DEF ViewInv
<1> QED BY <1>3, <1>4, <1>5, <1>6, <1>7 DEF Inv

(* The end of the partition inside a handler, and a stutter.               *)
LEMMA AbortsKeep ==
  ASSUME Inv, ListAborts \/ (\E p \in Apps : ReadStringAborts(p)) \/ UNCHANGED vars
  PROVE  Inv'
<1>1. UNCHANGED <<appVars, guestVars, holdVars, asked, reply, walk>>
  BY DEF ListAborts, ReadStringAborts, vars
<1>2. UNCHANGED <<pc, ring, owed, balanced>>
  BY <1>1 DEF appVars, guestVars, holdVars
<1>3. WalkInv'
  BY <1>1, <1>2 DEF Inv, WalkInv, Walked, Entry, Following
<1> QED BY <1>1, <1>3, WalkingKeeps

(* The walk begins at init_task.                                           *)
LEMMA ListBeginKeeps ==
  ASSUME Inv, NEW p \in Apps, ListBegin(p)
  PROVE  Inv'
<1>1. /\ Taking(p, {"PROCESS_LIST"})
      /\ walk' = [on |-> TRUE, by |-> p, cur |-> InitTask, nxt |-> next[InitTask], tasks |-> {}]
      /\ UNCHANGED <<appVars, guestVars, holdVars, asked, reply>>
  BY DEF ListBegin
<1>2. /\ RingInv /\ TypeOK
      /\ pc[p] \in {"sent", "orphan"} /\ asked[p][1].type = "PROCESS_LIST"
  BY <1>1, TakenCall DEF Inv
<1>3. Len(ring) \in Nat /\ 0 \in 0 .. Len(ring)
  BY <1>2 DEF RingInv
<1>4. Entry(0) = InitTask /\ next[InitTask] = Following(0)
  BY <1>2, <1>3, EntryListed DEF Entry
<1>5. InitTask \in Listed /\ next[InitTask] \in Listed
  BY <1>2 DEF TypeOK, Listed
<1>6. {Entry(j) : j \in 0 .. 0 - 1} = {}
  <2>1. 0 .. 0 - 1 = {}
    OBVIOUS
  <2> QED BY <2>1
<1>7. UNCHANGED <<pc, ring>>
  BY <1>1 DEF appVars, guestVars
<1>8. Walked(0)'
  <2>1. walk'.cur = Entry(0) /\ walk'.nxt = Following(0) /\ walk'.tasks = {Entry(j) : j \in 0 .. 0 - 1}
    BY <1>1, <1>4, <1>6
  <2> QED BY <1>7, <2>1 DEF Walked, Entry, Following
<1>9. WalkInv'
  BY <1>1, <1>2, <1>3, <1>5, <1>7, <1>8 DEF WalkInv
<1> QED BY <1>1, <1>9, WalkingKeeps

(* What the walk comes to while the guest stands still.                    *)
LEMMA WalkedOn ==
  ASSUME RingInv, TypeOK, NEW k \in 0 .. Len(ring), Walked(k)
  PROVE  /\ walk.tasks \cup {walk.cur} = {Entry(j) : j \in 0 .. k}
         /\ walk.nxt \notin gone
         /\ walk.nxt = InitTask <=> k = Len(ring)
         /\ walk.nxt # InitTask => /\ k + 1 \in 0 .. Len(ring)
                                   /\ walk.nxt = Entry(k + 1)
                                   /\ next[walk.nxt] = Following(k + 1)
<1>1. /\ walk.cur = Entry(k) /\ walk.nxt = Following(k)
      /\ walk.tasks = {Entry(j) : j \in 0 .. k - 1}
  BY DEF Walked
<1>2. Len(ring) \in Nat /\ DOMAIN ring = 1 .. Len(ring)
  BY DEF RingInv
<1>3. 0 .. k = (0 .. k - 1) \cup {k}
  BY <1>2
<1>4. walk.tasks \cup {walk.cur} = {Entry(j) : j \in 0 .. k}
  BY <1>1, <1>3
<1>5. /\ k = Len(ring) => walk.nxt = InitTask
      /\ k # Len(ring) => /\ k + 1 \in 0 .. Len(ring)
                          /\ walk.nxt = Entry(k + 1)
                          /\ walk.nxt = ring[k + 1]
                          /\ walk.nxt # InitTask
  BY <1>1, EntryFollows
<1>6. walk.nxt \notin gone
  <2>1. CASE k = Len(ring)
    BY <1>5, <2>1, MemoryAssumption DEF TypeOK
  <2>2. CASE k # Len(ring)
    <3>1. k + 1 \in DOMAIN ring
      <4> DEFINE n == Len(ring)
      <4> HIDE DEF n
      <4>1. k \in 0 .. n /\ n \in Nat /\ k # n
        BY <1>2, <2>2 DEF n
      <4>2. k \in Nat /\ k + 1 <= Len(ring)
        BY <4>1 DEF n
      <4>3. k + 1 \in 1 .. Len(ring)
        BY <1>2, <4>2
      <4> QED BY <1>2, <4>3
    <3> QED BY <1>5, <2>2, <3>1 DEF TypeOK, ToSet
  <2> QED BY <2>1, <2>2
<1>7. walk.nxt # InitTask => next[walk.nxt] = Following(k + 1)
  BY <1>5, EntryListed
<1> QED BY <1>4, <1>5, <1>6, <1>7

(* The walk takes the next entry, or ends with what it has collected.      *)
LEMMA ListStepKeeps ==
  ASSUME Inv, ListStep
  PROVE  Inv'
<1> DEFINE tasks == walk.tasks \cup {walk.cur}
<1>p. PICK p : p = walk.by
  OBVIOUS
<1>1. TypeOK /\ Domains /\ DialogueInv /\ TicketInv /\ RingInv /\ WalkInv
  BY DEF Inv
<1>2. /\ walk # NoWalk
      /\ UNCHANGED <<guestVars, holdVars, owed, balanced, pauses>>
  BY DEF ListStep, NoWalk, holdVars
<1>3. /\ walk = [on |-> TRUE, by |-> walk.by, cur |-> walk.cur, nxt |-> walk.nxt,
                 tasks |-> walk.tasks]
      /\ walk.by = p /\ p \in Apps /\ walk.cur \in Listed /\ walk.nxt \in Listed
      /\ pc[p] \in {"sent", "orphan"}
      /\ asked[p][1].type = "PROCESS_LIST"
      /\ balanced /\ owed[p] > 0 => \E k \in 0 .. Len(ring) : Walked(k)
  BY <1>1, <1>2, <1>p DEF WalkInv
<1>4. UNCHANGED <<cell, page, ring, next, gone>>
  BY <1>2 DEF guestVars
<1>5. CASE ~ ListEnd
  <2>1. /\ walk' = [walk EXCEPT !.cur = walk.nxt, !.nxt = next[walk.nxt], !.tasks = tasks]
        /\ UNCHANGED <<appVars, asked, reply>>
    BY <1>5 DEF ListStep
  <2>2. walk' = [on |-> TRUE, by |-> p, cur |-> walk.nxt, nxt |-> next[walk.nxt], tasks |-> tasks]
    <3> DEFINE cur == walk.nxt
               nxt == next[walk.nxt]
    <3>1. PICK c, n, t : walk = [on |-> TRUE, by |-> p, cur |-> c, nxt |-> n, tasks |-> t]
      BY <1>3
    <3>2. walk' = [walk EXCEPT !.cur = cur, !.nxt = nxt, !.tasks = tasks]
      BY <2>1
    <3> HIDE DEF cur, nxt, tasks
    <3>3. walk' = [on |-> TRUE, by |-> p, cur |-> cur, nxt |-> nxt, tasks |-> tasks]
      BY <3>1, <3>2
    <3> QED BY <3>3 DEF cur, nxt
  <2>3. next[walk.nxt] \in Listed
    BY <1>1, <1>3 DEF TypeOK
  <2>4. ASSUME balanced, owed[p] > 0 PROVE \E k \in 0 .. Len(ring) : Walked(k)'
    <3>1. PICK k \in 0 .. Len(ring) : Walked(k)
      BY <1>3, <2>4
    <3>2. walk.nxt # InitTask
      BY <1>5 DEF ListEnd
    <3>3. /\ tasks = {Entry(j) : j \in 0 .. k} /\ k + 1 \in 0 .. Len(ring)
          /\ walk.nxt = Entry(k + 1) /\ next[walk.nxt] = Following(k + 1)
      BY <1>1, <3>1, <3>2, WalkedOn
    <3>4. 0 .. k = 0 .. (k + 1) - 1
      BY <3>3
    <3>5. /\ walk'.cur = Entry(k + 1) /\ walk'.nxt = Following(k + 1)
          /\ walk'.tasks = {Entry(j) : j \in 0 .. (k + 1) - 1}
      BY <2>2, <3>3, <3>4
    <3>6. Walked(k + 1)'
      BY <1>4, <3>5 DEF Walked, Entry, Following
    <3> QED BY <3>3, <3>6
  <2>5. UNCHANGED pc
    BY <2>1 DEF appVars
  <2>6. WalkInv'
    BY <1>2, <1>3, <1>4, <2>1, <2>2, <2>3, <2>4, <2>5 DEF WalkInv
  <2> QED BY <1>2, <2>1, <2>6, WalkingKeeps
<1>6. CASE ListEnd
  <2> DEFINE ok == walk.nxt \notin gone
             a == Answer(asked[p][1], ok, tasks)
             answers == <<a>>
  <2>1. walk' = NoWalk /\ Answers(p, ok, tasks)
    BY <1>6, <1>p DEF ListStep
  <2>2. Dialogue(p)
    BY <1>1, <1>3 DEF DialogueInv
  <2>3. Served(p, answers)
    BY <1>1, <1>3, <2>1, <2>2, AnswersServe
  <2>4. a.type = "PROCESS_LIST" /\ a.ok = ok /\ a.value = tasks
    BY <1>3 DEF Answer
  <2> HIDE DEF a
  <2>5. answers # <<>> /\ answers = <<answers[1]>> /\ answers[1].type = asked[p][1].type
    BY <1>3, <2>4
  <2>6. ASSUME pc[p] = "sent", balanced, owed[p] > 0 PROVE Matches(ViewOf(p))'
    <3>1. PICK k \in 0 .. Len(ring) : Walked(k)
      BY <1>3, <2>6
    <3>2. tasks = {Entry(j) : j \in 0 .. k} /\ walk.nxt \notin gone /\ k = Len(ring)
      BY <1>1, <1>6, <3>1, WalkedOn DEF ListEnd
    <3>3. a.ok /\ a.value = ToSet(ring) \cup {InitTask}
      BY <1>1, <2>4, <3>2, ListIsWalked
    <3>4. call'[p] = asked[p][1] /\ reply'[p] = <<a>>
      BY <1>1, <1>3, <2>2, <2>3, <2>6 DEF Served, Domains, Dialogue
    <3>5. Parts(p)' = {1} /\ Part(p)' = a /\ call'[p].type = "PROCESS_LIST"
      BY <1>3, <2>4, <3>4, PartTaken
    <3>6. ViewOf(p)' = [type |-> "PROCESS_LIST", tasks |-> ToSet(ring) \cup {InitTask}]
      BY <3>3, <3>5 DEF ViewOf, ListOf
    <3> QED BY <1>4, <3>6 DEF Matches, ToSet
  <2>7. TicketInv'
    BY <1>1, <1>2, SameTickets
  <2>8. /\ cell' \in [Cells -> Stored \cup {NoPage}]
        /\ pauses' \in Nat /\ DOMAIN owed' = Apps /\ \A q \in Apps : owed'[q] \in Nat
        /\ Redeemed
    BY <1>1, <1>2, <1>4, NothingRedeemed DEF TypeOK, Domains
  <2> HIDE DEF answers
  <2> QED BY <1>2, <1>3, <1>4, <2>1, <2>3, <2>5, <2>6, <2>7, <2>8, ServedKeeps
<1> QED BY <1>5, <1>6

(* Every step keeps the invariant.                                         *)
LEMMA InvStep == Inv /\ [Next]_vars => Inv'
<1> SUFFICES ASSUME Inv, [Next]_vars PROVE Inv'
  OBVIOUS
<1>1. CASE GuestRuns
  BY <1>1, GuestKeeps
<1>2. CASE Partition
  <2>1. CASE ListStep
    BY <2>1, ListStepKeeps
  <2>2. CASE ListAborts
    BY <2>2, AbortsKeep
  <2>3. CASE \E p \in Apps : Serves(p)
    <3>1. PICK p \in Apps : Serves(p)
      BY <2>3
    <3>2. CASE ReadWord(p) \/ ReadBuffer(p) \/ ReadString(p) \/ Lookup(p)
      BY <3>2, ReadsKeep
    <3>3. CASE ReadStringAborts(p)
      BY <3>3, AbortsKeep
    <3>4. CASE WriteWord(p) \/ WriteBuffer(p)
      BY <3>4, WritesKeep
    <3>5. CASE Translate(p)
      BY <3>5, TranslateKeeps
    <3>6. CASE Unimplemented(p)
      BY <3>6, UnimplementedKeeps
    <3>7. CASE PauseVm(p) \/ ResumeVm(p)
      BY <3>7, PausesKeep
    <3>8. CASE ListBegin(p)
      BY <3>8, ListBeginKeeps
    <3> QED BY <3>1, <3>2, <3>3, <3>4, <3>5, <3>6, <3>7, <3>8 DEF Serves
  <2> QED BY <1>2, <2>1, <2>2, <2>3 DEF Partition
<1>3. CASE \E p \in Apps : (\E c \in Asks[p] : Begin(p, c)) \/ Return(p) \/ AppDies(p)
  BY <1>3, BeginKeeps, ReturnKeeps, AppDiesKeeps
<1>4. CASE UNCHANGED vars
  BY <1>4, AbortsKeep
<1> QED BY <1>1, <1>2, <1>3, <1>4 DEF Next

(* The invariant holds in every state.                                     *)
LEMMA InvAlways == Spec => []Inv
BY InvInit, InvStep, PTL DEF Spec

(* A word in memory keeps its width, a task list its links, and an app     *)
(* that runs has one call in its message (furnace_frontend.py:351-413).    *)
THEOREM MemoryTypeCorrect == Spec => []TypeOK
<1>1. Inv => TypeOK
  BY DEF Inv
<1> QED BY <1>1, InvAlways, PTL

(* While a pause of its own is in force, what an app was given of the task *)
(* list and of a translation is how the guest stands, for any number of    *)
(* apps that pause and resume, as long as none has resumed the guest       *)
(* without a pause of its own (furnace_frontend.py:1013-1110,              *)
(* furnace.cpp:3193).                                                      *)
THEOREM PausedViewCorrect == Spec => []PausedView
<1>1. Inv => PausedView
  BY DEF Inv, ViewInv, Matches, PausedView
<1> QED BY <1>1, InvAlways, PTL

-----------------------------------------------------------------------------
(* The calls implement one memory: see GuestMemory.                        *)

Home == [x \in Places |-> At(x)]

Asked == [p \in Apps |-> Pending(p)]

SeenBefore == [p \in Apps |-> Seen(p)]

Nothing == [kind |-> "nothing"]

(* The abstract memory's names for the concrete ones.                      *)
LEMMA HeldAlike ==
  ASSUME NEW x \in Places
  PROVE  Memory!Held(x) = Held(x)
BY DEF Memory!Held, Held

LEMMA LoadingTypes == DOMAIN Loading = {"READ", "READ_STR", "READ_BUFFER"}
BY DEF Loading

(* What a call asks of the memory, by its type.                            *)
LEMMA OperationOf ==
  ASSUME NEW c \in Calls
  PROVE  /\ c.type = "READ" => Operation(c) = [kind |-> "word", place |-> c.place]
         /\ c.type = "READ_STR" => Operation(c) = [kind |-> "text", place |-> c.place]
         /\ c.type = "READ_BUFFER" => Operation(c) = [kind |-> "bytes", place |-> c.place]
         /\ c.type = "WRITE" =>
              Operation(c) = [kind |-> "store", place |-> c.place, word |-> c.value % Size]
         /\ c.type = "WRITE_BUFFER" =>
              Operation(c) = [kind |-> "store", place |-> c.place, word |-> c.value]
         /\ c.type = "PAUSE_VM" => Operation(c) = [kind |-> "pause"]
         /\ c.type = "RESUME_VM" => Operation(c) = [kind |-> "resume"]
         /\ c.type \notin {"READ", "READ_STR", "READ_BUFFER", "WRITE", "WRITE_BUFFER",
                           "PAUSE_VM", "RESUME_VM"} => Operation(c) = Nothing
<1>1. CASE c.type \in {"READ", "READ_STR", "READ_BUFFER"}
  <2>1. /\ c.type = "READ" => Loading[c.type] = "word"
        /\ c.type = "READ_STR" => Loading[c.type] = "text"
        /\ c.type = "READ_BUFFER" => Loading[c.type] = "bytes"
    BY DEF Loading
  <2>2. Operation(c) = [kind |-> Loading[c.type], place |-> c.place]
    BY <1>1, LoadingTypes DEF Operation
  <2> QED BY <1>1, <2>1, <2>2
<1>2. CASE c.type \notin {"READ", "READ_STR", "READ_BUFFER"}
  BY <1>2, LoadingTypes DEF Operation, Storing, Nothing
<1> QED BY <1>1, <1>2

(* It is one of the abstract memory's operations.                          *)
LEMMA OperationTyped ==
  ASSUME NEW c \in Calls
  PROVE  /\ c.type \in {"READ", "READ_STR", "READ_BUFFER"} => Operation(c) \in Memory!Loads
         /\ c.type \in {"WRITE", "WRITE_BUFFER"} => Operation(c) \in Memory!Stores
         /\ c.type \in {"PAUSE_VM", "RESUME_VM"} => Operation(c) \in Memory!Holds
         /\ c.type \notin {"READ", "READ_STR", "READ_BUFFER"} => Operation(c) \notin Memory!Loads
         /\ Operation(c) \in Memory!Loads \cup Memory!Stores \cup Memory!Holds \cup {Nothing}
<1> DEFINE o == Operation(c)
<1>1. ASSUME c.type \in {"READ", "READ_STR", "READ_BUFFER"} PROVE o \in Memory!Loads
  <2>1. PICK k \in {"word", "text", "bytes"} : o = [kind |-> k, place |-> c.place]
    BY <1>1, OperationOf
  <2> QED BY <1>1, <2>1, CallFields DEF Memory!Loads
<1>2. ASSUME c.type \in {"WRITE", "WRITE_BUFFER"} PROVE o \in Memory!Stores
  <2>1. PICK w \in Stored : o = [kind |-> "store", place |-> c.place, word |-> w]
    BY <1>2, OperationOf, WordStored DEF Narrow
  <2> QED BY <1>2, <2>1, CallFields DEF Memory!Stores
<1>3. ASSUME c.type \in {"PAUSE_VM", "RESUME_VM"} PROVE o \in Memory!Holds
  BY <1>3, OperationOf DEF Memory!Holds
<1>4. ASSUME c.type \notin {"READ", "READ_STR", "READ_BUFFER"} PROVE o \notin Memory!Loads
  <2>1. o.kind \in {"store", "pause", "resume", "nothing"}
    BY <1>4, OperationOf DEF Nothing
  <2> HIDE DEF o
  <2> QED BY <2>1 DEF Memory!Loads
<1>5. ASSUME c.type \notin {"READ", "READ_STR", "READ_BUFFER", "WRITE", "WRITE_BUFFER",
                            "PAUSE_VM", "RESUME_VM"}
      PROVE  o = Nothing
  BY <1>5, OperationOf
<1> QED BY <1>1, <1>2, <1>3, <1>4, <1>5

(* What is pending of an app with a message, and of one without.           *)
LEMMA PendingOf ==
  ASSUME NEW p \in Apps, Dialogue(p)
  PROVE  /\ pc[p] \notin {"sent", "orphan"} => Pending(p) = Nothing
         /\ pc[p] = "sent" => Pending(p) = Operation(asked[p][1])
         /\ pc[p] = "orphan" =>
              Pending(p) = IF asked[p][1].type \in {"READ", "READ_STR", "READ_BUFFER"}
                           THEN Nothing ELSE Operation(asked[p][1])
<1>1. CASE pc[p] \notin {"sent", "orphan"}
  BY <1>1 DEF Dialogue, Pending, Nothing
<1>2. CASE pc[p] \in {"sent", "orphan"}
  <2>1. asked[p] # <<>> /\ Last(asked[p]) = asked[p][1]
    <3>1. PICK c : asked[p] = <<c>>
      BY <1>2 DEF Dialogue
    <3>2. <<c>> # <<>> /\ <<c>>[1] = c /\ Len(<<c>>) = 1
      OBVIOUS
    <3> QED BY <3>1, <3>2 DEF Last
  <2> QED BY <1>2, <2>1, LoadingTypes DEF Pending, Nothing
<1> QED BY <1>1, <1>2

(* What is pending changes only with the app's own state.                  *)
LEMMA SamePending ==
  ASSUME NEW q \in Apps, pc'[q] = pc[q], asked'[q] = asked[q]
  PROVE  Pending(q)' = Pending(q)
BY DEF Pending, Operation, Storing

(* What an app has seen changes only with its own state.                   *)
LEMMA SameSeen ==
  ASSUME NEW q \in Apps, pc'[q] = pc[q], call'[q] = call[q], reply'[q] = reply[q],
         result'[q] = result[q]
  PROVE  Seen(q)' = Seen(q)
<1>1. Parts(q)' = Parts(q) /\ Part(q)' = Part(q)
  BY DEF Parts, Part
<1>2. Given(q)' = Given(q)
  BY <1>1 DEF Given
<1>3. SeenBy(q)' = SeenBy(q)
  BY <1>2 DEF SeenBy
<1> QED BY <1>3 DEF Seen

(* The pages stay where they are.                                          *)
LEMMA SameHome ==
  ASSUME UNCHANGED page
  PROVE  Home' = Home
<1>1. \A x : At(x)' = At(x)
  BY DEF At, PageOf
<1> QED BY <1>1 DEF Home

(* The steps of the memory.                                                *)
LEMMA MemoryRuns ==
  ASSUME TypeOK, TypeOK', GuestRuns
  PROVE  Memory!Next
<1>1. /\ pauses = 0 /\ UNCHANGED <<pc, call, asked, reply, result, pauses>>
      /\ GuestWrites \/ GuestMaps \/ GuestLinks \/ GuestUnlinks \/ GuestFrees
  BY DEF GuestRuns, appVars, holdVars
<1>2. \A m \in Cells : cell'[m] # cell[m] => m \notin Holes /\ cell'[m] \in Stored
  BY <1>1 DEF TypeOK, GuestWrites, GuestMaps, GuestLinks, GuestUnlinks, GuestFrees
<1>3. Home' \in [Places -> Cells \cup {NoPage}]
  <2>1. \A x \in Places : At(x)' \in Cells \cup {NoPage}
    BY MemoryAssumption DEF TypeOK, At, PageOf, Places, Names
  <2> QED BY <2>1 DEF Home
<1>4. \A x \in Places \ Vas : Home'[x] = Home[x]
  BY DEF Home, At, PageOf, Places, Names
<1>5. Asked' = Asked
  BY <1>1, SamePending DEF Asked
<1>6. SeenBefore' = SeenBefore
  BY <1>1, SameSeen DEF SeenBefore
<1>7. cell' \in [Cells -> Stored \cup {NoPage}]
  BY DEF TypeOK
<1>8. Memory!GuestRuns
  BY <1>1, <1>2, <1>3, <1>4, <1>5, <1>6, <1>7 DEF Memory!GuestRuns, Home, Asked, SeenBefore
<1> QED BY <1>8 DEF Memory!Next

(* A step that changes none of it is a stutter of the abstract memory.     *)
LEMMA MemoryStays ==
  ASSUME UNCHANGED <<cell, page, pauses>>,
         \A q \in Apps : Seen(q)' = Seen(q) /\ Pending(q)' = Pending(q)
  PROVE  UNCHANGED Memory!memVars
<1>1. Home' = Home /\ SeenBefore' = SeenBefore /\ Asked' = Asked
  BY SameHome DEF SeenBefore, Asked
<1> QED BY <1>1 DEF Memory!memVars, Home, SeenBefore, Asked

(* A method of the frontend asks for something.                            *)
LEMMA MemoryAsks ==
  ASSUME NEW p \in Apps, NEW o, UNCHANGED <<cell, page, pauses>>,
         o \in Memory!Loads \cup Memory!Stores \cup Memory!Holds \cup {Nothing},
         Pending(p) = Nothing, Pending(p)' = o, Seen(p)' = NoResult,
         \A q \in Apps \ {p} : Seen(q)' = Seen(q) /\ Pending(q)' = Pending(q)
  PROVE  Memory!Next
<1>1. Home' = Home
  BY SameHome
<1>2. /\ SeenBefore' = [SeenBefore EXCEPT ![p] = NoResult]
      /\ Asked' = [Asked EXCEPT ![p] = o] /\ Asked[p] = Nothing
  BY DEF SeenBefore, Asked
<1>3. Memory!Nothing = Nothing
  BY DEF Memory!Nothing, Nothing
<1>4. Memory!Ask(p, o)
  BY <1>1, <1>2, <1>3 DEF Memory!Ask, Home, Asked, SeenBefore
<1> QED BY <1>3, <1>4 DEF Memory!Next

(* A read takes effect when it is served.                                  *)
LEMMA MemoryLoads ==
  ASSUME NEW p \in Apps, UNCHANGED <<cell, page, pauses>>,
         NEW o \in Memory!Loads, Pending(p) = o, Pending(p)' = Nothing,
         \/ \E w \in Memory!Given(o) : Seen(p)' = [place |-> o.place, value |-> w]
         \/ o.kind = "text" /\ Seen(p)' = Seen(p),
         \A q \in Apps \ {p} : Seen(q)' = Seen(q) /\ Pending(q)' = Pending(q)
  PROVE  Memory!Next
<1>1. Home' = Home
  BY SameHome
<1>2. Asked[p] = o /\ Asked' = [Asked EXCEPT ![p] = Memory!Nothing]
  BY DEF Asked, Memory!Nothing, Nothing
<1>3. \/ \E w \in Memory!Given(o) :
           SeenBefore' = [SeenBefore EXCEPT ![p] = [place |-> o.place, value |-> w]]
      \/ o.kind = "text" /\ SeenBefore' = SeenBefore
  BY DEF SeenBefore
<1>4. Memory!Load(p)
  BY <1>1, <1>2, <1>3 DEF Memory!Load, Home, Asked, SeenBefore
<1> QED BY <1>4 DEF Memory!Next

(* A write too.                                                            *)
LEMMA MemoryStores ==
  ASSUME NEW p \in Apps, NEW x \in Places, NEW w \in Stored, UNCHANGED <<page, pauses>>,
         Pending(p) = [kind |-> "store", place |-> x, word |-> w], Pending(p)' = Nothing,
         cell' = IF Held(x) = NoPage THEN cell ELSE [cell EXCEPT ![At(x)] = w],
         \A q \in Apps : Seen(q)' = Seen(q),
         \A q \in Apps \ {p} : Pending(q)' = Pending(q)
  PROVE  Memory!Next
<1> DEFINE o == [kind |-> "store", place |-> x, word |-> w]
<1>1. Home' = Home /\ SeenBefore' = SeenBefore
  BY SameHome DEF SeenBefore
<1>2. Asked[p] = o /\ Asked' = [Asked EXCEPT ![p] = Memory!Nothing]
  BY DEF Asked, Memory!Nothing, Nothing
<1>3. o \in Memory!Stores /\ o.place = x /\ o.word = w
  BY DEF Memory!Stores
<1>4. cell' = IF Memory!Held(x) = NoPage THEN cell ELSE [cell EXCEPT ![Home[x]] = w]
  BY HeldAlike DEF Home
<1> HIDE DEF o
<1>5. Memory!Store(p)
  BY <1>1, <1>2, <1>3, <1>4 DEF Memory!Store, Home, Asked, SeenBefore
<1> QED BY <1>5 DEF Memory!Next

(* So do pause_vm and resume_vm.                                           *)
LEMMA MemoryHolds ==
  ASSUME NEW p \in Apps, UNCHANGED <<cell, page>>,
         NEW o \in Memory!Holds, Pending(p) = o, Pending(p)' = Nothing,
         pauses' = IF o.kind = "pause" THEN pauses + 1
                   ELSE IF pauses = 0 THEN 0 ELSE pauses - 1,
         \A q \in Apps : Seen(q)' = Seen(q),
         \A q \in Apps \ {p} : Pending(q)' = Pending(q)
  PROVE  Memory!Next
<1>1. Home' = Home /\ SeenBefore' = SeenBefore
  BY SameHome DEF SeenBefore
<1>2. Asked[p] = o /\ Asked' = [Asked EXCEPT ![p] = Memory!Nothing]
  BY DEF Asked, Memory!Nothing, Nothing
<1>3. Memory!Hold(p)
  BY <1>1, <1>2 DEF Memory!Hold, Home, Asked, SeenBefore
<1> QED BY <1>3 DEF Memory!Next

(* An app that dies waits for nothing more.                                *)
LEMMA MemoryForgets ==
  ASSUME NEW p \in Apps, UNCHANGED <<cell, page, pauses>>, Seen(p)' = NoResult,
         Pending(p)' = IF Pending(p) \in Memory!Loads THEN Nothing ELSE Pending(p),
         \A q \in Apps \ {p} : Seen(q)' = Seen(q) /\ Pending(q)' = Pending(q)
  PROVE  Memory!Next
<1>1. Home' = Home
  BY SameHome
<1>2. SeenBefore' = [SeenBefore EXCEPT ![p] = NoResult]
  BY DEF SeenBefore
<1>3. Asked' = [Asked EXCEPT ![p] = IF Asked[p] \in Memory!Loads THEN Memory!Nothing ELSE Asked[p]]
  BY DEF Asked, Memory!Nothing, Nothing
<1>4. Memory!Forget(p)
  BY <1>1, <1>2, <1>3 DEF Memory!Forget, Home, Asked, SeenBefore
<1> QED BY <1>4 DEF Memory!Next

(* What the apps were given and ask for, before and after a call of p is   *)
(* served.                                                                 *)
LEMMA ServedSeen ==
  ASSUME Domains, NEW p \in Apps, Dialogue(p), NEW answers, Served(p, answers)
  PROVE  /\ \A q \in Apps \ {p} : Seen(q)' = Seen(q) /\ Pending(q)' = Pending(q)
         /\ Seen(p) = NoResult /\ Pending(p)' = Nothing
         /\ pc[p] = "orphan" => Seen(p)' = NoResult
         /\ pc[p] = "sent" => /\ Seen(p)' = SeenBy(p)'
                              /\ call'[p] = asked[p][1] /\ reply'[p] = answers
<1>1. ASSUME NEW q \in Apps \ {p} PROVE Seen(q)' = Seen(q) /\ Pending(q)' = Pending(q)
  <2>1. /\ pc'[q] = pc[q] /\ call'[q] = call[q] /\ reply'[q] = reply[q]
        /\ result'[q] = result[q] /\ asked'[q] = asked[q]
    BY DEF Served, Domains
  <2> QED BY <2>1, SameSeen, SamePending
<1>2. pc[p] \in {"sent", "orphan"} /\ asked'[p] = <<>>
  BY DEF Served, Domains
<1>3. Seen(p) = NoResult /\ Pending(p)' = Nothing
  BY <1>2 DEF Seen, Pending, Nothing
<1>4. CASE pc[p] = "orphan"
  <2>1. pc'[p] = "dead"
    BY <1>4 DEF Served, Domains
  <2>2. Seen(p)' = NoResult
    BY <2>1 DEF Seen
  <2> QED BY <1>1, <1>3, <1>4, <2>2
<1>5. CASE pc[p] = "sent"
  <2>1. pc'[p] = "answered" /\ reply'[p] = answers /\ call'[p] = asked[p][1]
    BY <1>5 DEF Served, Domains, Dialogue
  <2>2. Seen(p)' = SeenBy(p)'
    BY <2>1 DEF Seen
  <2> QED BY <1>1, <1>3, <1>5, <2>1, <2>2
<1> QED BY <1>2, <1>4, <1>5

(* A handler that answers, seen from the app's side.                       *)
LEMMA TakenServed ==
  ASSUME Inv, NEW p \in Apps, NEW types, Taking(p, types),
         NEW ok, NEW value, Answers(p, ok, value)
  PROVE  Served(p, <<Answer(asked[p][1], ok, value)>>)
BY TakenCall, AnswersServe

(* A call that does not read gives nothing to take.                        *)
LEMMA NothingSeen ==
  ASSUME Domains, NEW p \in Apps, Dialogue(p), NEW answers, Served(p, answers),
         asked[p][1].type \notin {"READ", "READ_STR", "READ_BUFFER"}
  PROVE  \A q \in Apps : Seen(q)' = Seen(q)
<1>1. ASSUME call'[p] = asked[p][1] PROVE SeenBy(p)' = NoResult
  <2>1. Given(p)' = {}
    BY <1>1 DEF Given
  <2> QED BY <2>1 DEF SeenBy
<1>2. Seen(p)' = NoResult /\ Seen(p) = NoResult
  BY <1>1, ServedSeen DEF Served
<1> QED BY <1>2, ServedSeen

(* A call that asks nothing of the memory leaves nothing pending.          *)
LEMMA NothingAsked ==
  ASSUME Inv, NEW p \in Apps, NEW answers, Served(p, answers),
         asked[p][1].type \notin {"READ", "READ_STR", "READ_BUFFER", "WRITE", "WRITE_BUFFER",
                                  "PAUSE_VM", "RESUME_VM"}
  PROVE  \A q \in Apps : Seen(q)' = Seen(q) /\ Pending(q)' = Pending(q)
<1>1. Domains /\ Dialogue(p)
  BY DEF Inv, DialogueInv
<1>2. pc[p] \in {"sent", "orphan"} /\ asked[p][1] \in Calls
  BY <1>1 DEF Served, Dialogue
<1>3. Pending(p) = Nothing
  BY <1>1, <1>2, PendingOf, OperationOf
<1> QED BY <1>1, <1>3, NothingSeen, ServedSeen

(* What an app takes from the reply to a read.                             *)
LEMMA GivenOf ==
  ASSUME NEW p \in Apps, NEW a, reply'[p] = <<a>>, a.type = call'[p].type,
         a.type \in {"READ", "READ_STR", "READ_BUFFER"}
  PROVE  /\ a.type = "READ" => Given(p)' = {IF a.ok THEN a.value ELSE 0}
         /\ a.type = "READ_BUFFER" => Given(p)' = {a.value}
         /\ \A w \in Given(p)' : a.type = "READ_STR" => w = a.value
<1>1. Parts(p)' = {1} /\ Part(p)' = a
  BY PartTaken
<1>2. CASE a.type = "READ"
  BY <1>1, <1>2 DEF Given, PaRead, VaRead, KsymRead, Word
<1>3. CASE a.type = "READ_BUFFER"
  BY <1>1, <1>3 DEF Given, BufferRead, Bytes
<1>4. CASE a.type = "READ_STR"
  BY <1>1, <1>4 DEF Given, PaRead, VaRead, KsymRead, Bytes, IntOfText
<1> QED BY <1>2, <1>3, <1>4

(* What the handlers that read may put into a reply.                       *)
Readable(c, value) ==
  /\ c.type = "READ" => value = IF Found(c) THEN Held(c.place) ELSE 0
  /\ c.type = "READ_BUFFER" => value \in IF Found(c) THEN BytesAt(c.place) ELSE {Empty, Scrap}
  /\ c.type = "READ_STR" => value \in IF Found(c) THEN BytesAt(c.place) ELSE {Empty}

LEMMA ReadsRead ==
  ASSUME Inv, NEW p \in Apps, ReadWord(p) \/ ReadBuffer(p) \/ ReadString(p)
  PROVE  /\ UNCHANGED <<cell, page, pauses>>
         /\ asked[p][1].type \in {"READ", "READ_STR", "READ_BUFFER"}
         /\ \E value : /\ Served(p, <<Answer(asked[p][1], Found(asked[p][1]), value)>>)
                       /\ Readable(asked[p][1], value)
<1> DEFINE c == asked[p][1]
<1>1. UNCHANGED <<cell, page, pauses>>
  BY DEF ReadWord, ReadBuffer, ReadString, guestVars, holdVars
<1>2. CASE ReadWord(p)
  <2>1. Taking(p, {"READ"}) /\ Answers(p, Found(c), IF Found(c) THEN Held(c.place) ELSE 0)
    BY <1>2 DEF ReadWord
  <2>2. c.type = "READ"
    BY <2>1 DEF Taking
  <2> QED BY <1>1, <2>1, <2>2, TakenServed DEF Readable
<1>3. CASE ReadBuffer(p)
  <2>1. PICK value \in IF Found(c) THEN BytesAt(c.place) ELSE {Empty, Scrap} :
          Taking(p, {"READ_BUFFER"}) /\ Answers(p, Found(c), value)
    BY <1>3 DEF ReadBuffer
  <2>2. c.type = "READ_BUFFER"
    BY <2>1 DEF Taking
  <2> QED BY <1>1, <2>1, <2>2, TakenServed DEF Readable
<1>4. CASE ReadString(p)
  <2>1. PICK value \in IF Found(c) THEN BytesAt(c.place) ELSE {Empty} :
          Taking(p, {"READ_STR"}) /\ Answers(p, Found(c), value)
    BY <1>4 DEF ReadString
  <2>2. c.type = "READ_STR"
    BY <2>1 DEF Taking
  <2> QED BY <1>1, <2>1, <2>2, TakenServed DEF Readable
<1> QED BY <1>2, <1>3, <1>4

(* What they put there is what the abstract read gives.                    *)
LEMMA ReadableGiven ==
  ASSUME NEW c \in Calls, c.type \in {"READ", "READ_STR", "READ_BUFFER"}, c.fit,
         NEW value, Readable(c, value)
  PROVE  (IF c.type = "READ" /\ ~ Found(c) THEN 0 ELSE value) \in Memory!Given(Operation(c))
<1> DEFINE o == Operation(c)
<1>1. c.place \in Places
  BY CallFields
<1>2. /\ o.place = c.place
      /\ c.type = "READ" => o.kind = "word"
      /\ c.type = "READ_STR" => o.kind = "text"
      /\ c.type = "READ_BUFFER" => o.kind = "bytes"
  BY OperationOf
<1>3. Memory!Held(o.place) = Held(c.place)
  BY <1>1, <1>2, HeldAlike
<1>4. Found(c) <=> Held(c.place) # NoPage
  BY DEF Found
<1> SUFFICES (IF c.type = "READ" /\ ~ Found(c) THEN 0 ELSE value) \in Memory!Given(o)
  OBVIOUS
<1> HIDE DEF o
<1>5. /\ Held(c.place) # NoPage => Held(c.place) \in Memory!Given(o)
      /\ Held(c.place) = NoPage => Memory!Failure(o) \in Memory!Given(o)
      /\ Memory!Torn(o) => Scrap \in Memory!Given(o)
  <2>1. /\ \A w : w = (IF Memory!Held(o.place) = NoPage THEN Memory!Failure(o)
                        ELSE Memory!Held(o.place)) => w \in Memory!Given(o)
        /\ Memory!Torn(o) => Scrap \in Memory!Given(o)
    BY DEF Memory!Given
  <2> QED BY <1>3, <2>1
<1>6. /\ o.kind = "word" => Memory!Failure(o) = 0
      /\ o.kind # "word" => Memory!Failure(o) = Empty
  BY DEF Memory!Failure
<1>7. /\ o.kind # "word" /\ pauses = 0 => Memory!Torn(o)
      /\ o.kind = "bytes" /\ Held(c.place) = NoPage => Memory!Torn(o)
  BY <1>3 DEF Memory!Torn
<1>8. ASSUME value \in BytesAt(c.place)
      PROVE  value = Held(c.place) \/ (value = Scrap /\ pauses = 0)
  BY <1>8 DEF BytesAt
<1>9. CASE c.type = "READ"
  BY <1>2, <1>4, <1>9, <1>5, <1>6 DEF Readable
<1>10. CASE c.type = "READ_STR"
  <2>1. SUFFICES value \in Memory!Given(o)
    BY <1>10
  <2>2. o.kind = "text"
    BY <1>2, <1>10
  <2>3. CASE Found(c)
    <3>1. value \in BytesAt(c.place)
      BY <1>10, <2>3 DEF Readable
    <3>2. Held(c.place) \in Memory!Given(o)
      BY <1>4, <1>5, <2>3
    <3>3. pauses = 0 => Scrap \in Memory!Given(o)
      <4>1. pauses = 0 => Memory!Torn(o)
        BY <1>7, <2>2
      <4> QED BY <1>5, <4>1, Zenon
    <3>4. value = Held(c.place) \/ (value = Scrap /\ pauses = 0)
      BY <1>8, <3>1
    <3> QED BY <3>2, <3>3, <3>4, Zenon
  <2>4. CASE ~ Found(c)
    <3>1. value = Empty
      BY <1>10, <2>4 DEF Readable
    <3>2. Memory!Failure(o) = Empty
      BY <1>6, <2>2
    <3> QED BY <1>4, <1>5, <2>4, <3>1, <3>2, Zenon
  <2> QED BY <2>3, <2>4
<1>11. CASE c.type = "READ_BUFFER"
  <2>1. SUFFICES value \in Memory!Given(o)
    BY <1>11
  <2>2. o.kind = "bytes"
    BY <1>2, <1>11
  <2>3. CASE Found(c)
    <3>1. value \in BytesAt(c.place)
      BY <1>11, <2>3 DEF Readable
    <3>2. Held(c.place) \in Memory!Given(o)
      BY <1>4, <1>5, <2>3
    <3>3. pauses = 0 => Scrap \in Memory!Given(o)
      <4>1. pauses = 0 => Memory!Torn(o)
        BY <1>7, <2>2
      <4> QED BY <1>5, <4>1, Zenon
    <3>4. value = Held(c.place) \/ (value = Scrap /\ pauses = 0)
      BY <1>8, <3>1
    <3> QED BY <3>2, <3>3, <3>4, Zenon
  <2>4. CASE ~ Found(c)
    <3>1. value \in {Empty, Scrap}
      BY <1>11, <2>4 DEF Readable
    <3>2. Memory!Failure(o) = Empty
      BY <1>6, <2>2
    <3>3. Empty \in Memory!Given(o)
      BY <1>4, <1>5, <2>4, <3>2, Zenon
    <3>4. Scrap \in Memory!Given(o)
      <4>1. Memory!Torn(o)
        BY <1>4, <1>7, <2>2, <2>4
      <4> QED BY <1>5, <4>1, Zenon
    <3> QED BY <3>1, <3>3, <3>4, Zenon
  <2> QED BY <2>3, <2>4
<1> QED BY <1>9, <1>10, <1>11

(* The handlers that read are loads; of an orphan's call they are stutters.*)
LEMMA ReadsLoad ==
  ASSUME Inv, NEW p \in Apps, ReadWord(p) \/ ReadBuffer(p) \/ ReadString(p)
  PROVE  [Memory!Next]_(Memory!memVars)
<1> DEFINE c == asked[p][1]
           o == Operation(c)
<1>1. /\ UNCHANGED <<cell, page, pauses>>
      /\ c.type \in {"READ", "READ_STR", "READ_BUFFER"}
  BY ReadsRead
<1>2. PICK value : Served(p, <<Answer(c, Found(c), value)>>) /\ Readable(c, value)
  BY ReadsRead
<1> DEFINE a == Answer(c, Found(c), value)
<1>3. /\ Domains /\ Dialogue(p) /\ pc[p] \in {"sent", "orphan"}
      /\ c \in Calls /\ c.fit
  BY <1>2 DEF Inv, DialogueInv, Dialogue, Served
<1>4. a.type = c.type /\ a.ok = Found(c) /\ a.value = value
  BY DEF Answer
<1>5. /\ \A q \in Apps \ {p} : Seen(q)' = Seen(q) /\ Pending(q)' = Pending(q)
      /\ Seen(p) = NoResult /\ Pending(p)' = Nothing
      /\ pc[p] = "orphan" => Seen(p)' = NoResult
      /\ pc[p] = "sent" => /\ Seen(p)' = SeenBy(p)'
                           /\ call'[p] = c /\ reply'[p] = <<a>>
  BY <1>2, <1>3, ServedSeen
<1>6. CASE pc[p] = "orphan"
  <2>1. Pending(p) = Nothing
    BY <1>1, <1>3, <1>6, PendingOf
  <2> QED BY <1>1, <1>5, <1>6, <2>1, MemoryStays
<1>7. CASE pc[p] = "sent"
  <2>1. Pending(p) = o /\ o \in Memory!Loads
    BY <1>1, <1>3, <1>7, PendingOf, OperationTyped
  <2>2. /\ o.place = c.place
        /\ c.type = "READ_STR" => o.kind = "text"
    BY <1>1, <1>3, OperationOf
  <2>3. (IF c.type = "READ" /\ ~ Found(c) THEN 0 ELSE value) \in Memory!Given(o)
    BY <1>1, <1>2, <1>3, ReadableGiven
  <2>4. /\ c.type = "READ" => Given(p)' = {IF Found(c) THEN value ELSE 0}
        /\ c.type = "READ_BUFFER" => Given(p)' = {value}
        /\ \A w \in Given(p)' : c.type = "READ_STR" => w = value
    <3> HIDE DEF a
    <3> QED BY <1>1, <1>4, <1>5, <1>7, GivenOf
  <2> HIDE DEF o, a
  <2>5. CASE Given(p)' = {}
    <3>1. c.type = "READ_STR"
      BY <1>1, <2>4, <2>5
    <3>2. Seen(p)' = Seen(p)
      BY <1>5, <1>7, <2>5 DEF SeenBy
    <3> QED BY <1>1, <1>5, <2>1, <2>2, <3>1, <3>2, MemoryLoads
  <2>6. CASE Given(p)' # {}
    <3> DEFINE w == CHOOSE v \in Given(p)' : TRUE
    <3>1. Seen(p)' = [place |-> c.place, value |-> w]
      BY <1>5, <1>7, <2>6 DEF SeenBy
    <3>2. w \in Given(p)'
      BY <2>6
    <3> HIDE DEF w
    <3>3. w = IF c.type = "READ" /\ ~ Found(c) THEN 0 ELSE value
      BY <1>1, <2>4, <3>2
    <3>4. \E v \in Memory!Given(o) : Seen(p)' = [place |-> o.place, value |-> v]
      BY <2>2, <2>3, <3>1, <3>3
    <3> QED BY <1>1, <1>5, <2>1, <3>4, MemoryLoads
  <2> QED BY <2>5, <2>6
<1> QED BY <1>3, <1>6, <1>7

(* The handlers that write are stores, also of an orphan's call.           *)
LEMMA WritesStore ==
  ASSUME Inv, NEW p \in Apps, WriteWord(p) \/ WriteBuffer(p)
  PROVE  Memory!Next
<1> DEFINE c == asked[p][1]
<1>1. PICK type \in {"WRITE", "WRITE_BUFFER"} :
        Write(p, type, IF type = "WRITE" THEN Narrow(c.value) ELSE c.value)
  BY DEF WriteWord, WriteBuffer
<1> DEFINE word == IF type = "WRITE" THEN Narrow(c.value) ELSE c.value
<1>2. /\ Taking(p, {type})
      /\ cell' = IF Found(c) THEN [cell EXCEPT ![At(c.place)] = word] ELSE cell
      /\ Answers(p, Found(c), Empty)
      /\ UNCHANGED <<page, pauses>>
  BY <1>1 DEF Write, holdVars
<1>3. /\ c \in Calls /\ c.type = type /\ c.fit /\ Domains /\ Dialogue(p)
      /\ pc[p] \in {"sent", "orphan"}
  BY <1>2, TakenCall DEF Dialogue
<1>4. Served(p, <<Answer(c, Found(c), Empty)>>)
  BY <1>2, TakenServed
<1>5. c.type \notin {"READ", "READ_STR", "READ_BUFFER"}
  BY <1>1, <1>3
<1>6. \A q \in Apps : Seen(q)' = Seen(q)
  BY <1>3, <1>4, <1>5, NothingSeen
<1>7. Pending(p)' = Nothing /\ \A q \in Apps \ {p} : Pending(q)' = Pending(q)
  BY <1>3, <1>4, ServedSeen
<1>8. Pending(p) = Operation(c)
  BY <1>3, <1>5, PendingOf
<1>9. Pending(p) = [kind |-> "store", place |-> c.place, word |-> word]
  BY <1>3, <1>8, OperationOf DEF Narrow
<1>10. word \in Stored /\ c.place \in Places
  BY <1>1, <1>3, WordStored, CallFields
<1>11. Found(c) <=> Held(c.place) # NoPage
  BY <1>3 DEF Found
<1>12. cell' = IF Held(c.place) = NoPage THEN cell ELSE [cell EXCEPT ![At(c.place)] = word]
  BY <1>2, <1>11
<1> HIDE DEF c, word
<1> QED BY <1>2, <1>6, <1>7, <1>9, <1>10, <1>12, MemoryStores

(* pause_vm and resume_vm take effect when they are served.                *)
LEMMA PausesHold ==
  ASSUME Inv, NEW p \in Apps, PauseVm(p) \/ ResumeVm(p)
  PROVE  Memory!Next
<1> DEFINE c == asked[p][1]
           o == Operation(c)
<1>1. PICK type \in {"PAUSE_VM", "RESUME_VM"} :
        /\ Taking(p, {type})
        /\ Answers(p, TRUE, Empty)
        /\ pauses' = IF type = "PAUSE_VM" THEN pauses + 1
                     ELSE IF pauses = 0 THEN 0 ELSE pauses - 1
        /\ UNCHANGED <<cell, page>>
  BY DEF PauseVm, ResumeVm, guestVars
<1>2. /\ c \in Calls /\ c.type = type /\ Domains /\ Dialogue(p) /\ pc[p] \in {"sent", "orphan"}
  BY <1>1, TakenCall
<1>3. Served(p, <<Answer(c, TRUE, Empty)>>)
  BY <1>1, TakenServed
<1>4. c.type \notin {"READ", "READ_STR", "READ_BUFFER"}
  BY <1>1, <1>2
<1>5. \A q \in Apps : Seen(q)' = Seen(q)
  BY <1>2, <1>3, <1>4, NothingSeen
<1>6. Pending(p)' = Nothing /\ \A q \in Apps \ {p} : Pending(q)' = Pending(q)
  BY <1>2, <1>3, ServedSeen
<1>7. Pending(p) = o /\ o \in Memory!Holds
  BY <1>1, <1>2, <1>4, PendingOf, OperationTyped
<1>8. o.kind = "pause" <=> type = "PAUSE_VM"
  BY <1>1, <1>2, OperationOf
<1> HIDE DEF o, c
<1> QED BY <1>1, <1>5, <1>6, <1>7, <1>8, MemoryHolds

(* The handlers that do neither are stutters.                              *)
LEMMA OthersStay ==
  ASSUME Inv, NEW p \in Apps, Translate(p) \/ Lookup(p) \/ Unimplemented(p)
  PROVE  UNCHANGED Memory!memVars
<1>1. UNCHANGED <<cell, page, pauses>>
  BY DEF Translate, Lookup, Unimplemented, guestVars, holdVars
<1>2. PICK types \in {{"TRANSLATE"}, {"LOOKUP"}, {"UNIMPLEMENTED"}} :
        /\ Taking(p, types)
        /\ \/ \E ok, value : Answers(p, ok, value)
           \/ Answered(p, <<>>, <<>>)
  BY DEF Translate, Lookup, Unimplemented
<1>3. \E answers : Served(p, answers)
  <2>1. CASE \E ok, value : Answers(p, ok, value)
    BY <1>2, <2>1, TakenServed
  <2>2. CASE Answered(p, <<>>, <<>>)
    <3>1. Served(p, <<>>)
      BY <1>2, <2>2, TakenCall, RefusalServes
    <3> QED BY <3>1
  <2> QED BY <1>2, <2>1, <2>2
<1>4. asked[p][1].type \in {"TRANSLATE", "LOOKUP", "UNIMPLEMENTED"}
  BY <1>2 DEF Taking
<1>5. \A q \in Apps : Seen(q)' = Seen(q) /\ Pending(q)' = Pending(q)
  BY <1>3, <1>4, NothingAsked
<1> QED BY <1>1, <1>5, MemoryStays

(* So are the steps of a walk and the end of the partition.                *)
LEMMA ListingStays ==
  ASSUME Inv, \/ ListStep \/ ListAborts
              \/ \E p \in Apps : ListBegin(p) \/ ReadStringAborts(p)
              \/ UNCHANGED vars
  PROVE  UNCHANGED Memory!memVars
<1>1. UNCHANGED <<cell, page, pauses>>
  BY DEF ListStep, ListAborts, ListBegin, ReadStringAborts, vars, guestVars, holdVars
<1>2. CASE UNCHANGED <<pc, call, asked, reply, result>>
  BY <1>1, <1>2, SameSeen, SamePending, MemoryStays
<1>3. CASE ListStep /\ ListEnd
  <2>1. PICK p : p = walk.by
    OBVIOUS
  <2>2. /\ p \in Apps /\ pc[p] \in {"sent", "orphan"} /\ asked[p][1].type = "PROCESS_LIST"
        /\ Domains /\ Dialogue(p)
    BY <1>3, <2>1 DEF Inv, WalkInv, DialogueInv, ListStep, NoWalk
  <2>3. PICK ok, value : Answers(p, ok, value)
    BY <1>3, <2>1 DEF ListStep
  <2>4. PICK answers : Served(p, answers)
    BY <2>2, <2>3, AnswersServe
  <2>5. \A q \in Apps : Seen(q)' = Seen(q) /\ Pending(q)' = Pending(q)
    BY <2>2, <2>4, NothingAsked
  <2> QED BY <1>1, <2>5, MemoryStays
<1>4. UNCHANGED <<pc, call, asked, reply, result>> \/ (ListStep /\ ListEnd)
  <2>1. CASE ListStep
    BY <2>1 DEF ListStep, appVars
  <2>2. CASE ListAborts \/ (\E p \in Apps : ListBegin(p) \/ ReadStringAborts(p)) \/ UNCHANGED vars
    BY <2>2 DEF ListAborts, ListBegin, ReadStringAborts, vars, appVars
  <2> QED BY <2>1, <2>2
<1> QED BY <1>2, <1>3, <1>4

(* The frontend's steps ask, take what was given, or forget.               *)
LEMMA FrontendAsks ==
  ASSUME Inv, NEW p \in Apps, (\E c \in Asks[p] : Begin(p, c)) \/ Return(p) \/ AppDies(p)
  PROVE  [Memory!Next]_(Memory!memVars)
<1>1. Domains /\ Dialogue(p)
  BY DEF Inv, DialogueInv
<1>2. UNCHANGED <<cell, page, pauses>>
  BY DEF Begin, Return, AppDies, guestVars, holdVars
<1>3. \A q \in Apps \ {p} : Seen(q)' = Seen(q) /\ Pending(q)' = Pending(q)
  <2> TAKE q \in Apps \ {p}
  <2>1. /\ pc'[q] = pc[q] /\ call'[q] = call[q] /\ reply'[q] = reply[q]
        /\ result'[q] = result[q] /\ asked'[q] = asked[q]
    BY <1>1 DEF Domains, Begin, Return, AppDies
  <2> QED BY <2>1, SameSeen, SamePending
<1>4. CASE Return(p)
  <2>1. /\ pc[p] = "answered" /\ pc'[p] = "idle" /\ result'[p] = SeenBy(p)
        /\ asked[p] = <<>> /\ asked' = asked
    BY <1>1, <1>4 DEF Return, Domains, Dialogue
  <2>2. Seen(p)' = Seen(p) /\ Pending(p)' = Pending(p)
    BY <2>1 DEF Seen, Pending
  <2> QED BY <1>2, <1>3, <2>2, MemoryStays
<1>5. ASSUME NEW c \in Asks[p], Begin(p, c) PROVE Memory!Next
  <2>1. c \in Calls
    BY AsksAssumption
  <2>2. pc[p] = "idle" /\ asked[p] = <<>> /\ result'[p] = NoResult
    BY <1>1, <1>5 DEF Begin, Domains, Dialogue
  <2>3. Pending(p) = Nothing
    BY <2>2 DEF Pending, Nothing
  <2>4. CASE c.fit
    <3>1. pc'[p] = "sent" /\ asked'[p] = <<c>>
      BY <1>1, <1>5, <2>4 DEF Begin, Helper, Domains
    <3>2. <<c>> # <<>> /\ Last(<<c>>) = c
      BY DEF Last
    <3>3. Pending(p)' = Operation(c) /\ Seen(p)' = NoResult
      BY <3>1, <3>2 DEF Pending, Seen, Operation, Storing
    <3> QED BY <1>2, <1>3, <2>1, <2>3, <3>3, OperationTyped, MemoryAsks
  <2>5. CASE ~ c.fit
    <3>1. pc'[p] = "idle" /\ asked'[p] = <<>>
      BY <1>5, <2>2, <2>5 DEF Begin
    <3>2. Pending(p)' = Nothing /\ Seen(p)' = NoResult
      BY <2>2, <3>1 DEF Pending, Seen, Nothing
    <3> QED BY <1>2, <1>3, <2>3, <3>2, MemoryAsks
  <2> QED BY <2>4, <2>5
<1>6. CASE AppDies(p)
  <2>1. /\ pc[p] \in {"idle", "sent", "answered"}
        /\ pc'[p] = IF pc[p] = "sent" THEN "orphan" ELSE "dead"
        /\ asked'[p] = asked[p]
    BY <1>1, <1>6 DEF AppDies, Domains
  <2>2. Seen(p)' = NoResult
    BY <2>1 DEF Seen
  <2>3. Pending(p)' = IF Pending(p) \in Memory!Loads THEN Nothing ELSE Pending(p)
    <3>1. CASE pc[p] # "sent"
      <4>1. asked[p] = <<>>
        BY <1>1, <2>1, <3>1 DEF Dialogue
      <4>2. Pending(p) = Nothing /\ Pending(p)' = Nothing
        BY <2>1, <4>1 DEF Pending, Nothing
      <4> QED BY <4>2
    <3>2. CASE pc[p] = "sent"
      <4>1. /\ Dialogue(p)' /\ pc'[p] = "orphan" /\ asked'[p][1] = asked[p][1]
            /\ asked[p][1] \in Calls
        BY <1>1, <1>6, <2>1, <3>2, AppDiesKeeps DEF Inv, DialogueInv, Dialogue
      <4>2. Pending(p) = Operation(asked[p][1])
        BY <1>1, <3>2, PendingOf
      <4>3. Pending(p)' = IF asked[p][1].type \in {"READ", "READ_STR", "READ_BUFFER"}
                          THEN Nothing ELSE Operation(asked[p][1])
        <5>1. \E c : asked[p] = <<c>>
          BY <1>1, <3>2 DEF Dialogue
        <5>2. asked[p] # <<>> /\ Last(asked[p]) = asked[p][1]
          BY <5>1 DEF Last
        <5> QED BY <2>1, <4>1, <5>2, LoadingTypes DEF Pending, Nothing, Operation, Storing
      <4> QED BY <4>1, <4>2, <4>3, OperationTyped
    <3> QED BY <3>1, <3>2
  <2> QED BY <1>2, <1>3, <2>2, <2>3, MemoryForgets
<1> QED BY <1>4, <1>5, <1>6

(* The initial states are the abstract memory's.                           *)
LEMMA MemoryInit == Init => Memory!Init
<1> SUFFICES ASSUME Init PROVE Memory!Init
  OBVIOUS
<1>1. TypeOK
  BY InvInit DEF Inv
<1>2. Home \in [Places -> Cells \cup {NoPage}]
  <2>1. \A x \in Places : At(x) \in Cells \cup {NoPage}
    BY <1>1, MemoryAssumption DEF TypeOK, At, PageOf, Places, Names
  <2> QED BY <2>1 DEF Home
<1>3. \A m \in Cells : Home[m] = m
  BY DEF Home, Places, At
<1>4. SeenBefore = [p \in Apps |-> NoResult]
  BY DEF Init, Seen, SeenBefore
<1>5. Asked = [p \in Apps |-> Memory!Nothing]
  BY DEF Init, Pending, Asked, Memory!Nothing
<1>6. cell \in [Cells -> Stored \cup {NoPage}] /\ pauses = 0
  BY DEF Init
<1> QED BY <1>2, <1>3, <1>4, <1>5, <1>6 DEF Memory!Init, Home, Asked, SeenBefore

(* Every step is one of the abstract memory or a stutter.                  *)
LEMMA MemoryNext == Inv /\ Inv' /\ [Next]_vars => [Memory!Next]_(Memory!memVars)
<1> SUFFICES ASSUME Inv, Inv', [Next]_vars PROVE [Memory!Next]_(Memory!memVars)
  OBVIOUS
<1>1. CASE GuestRuns
  BY <1>1, MemoryRuns DEF Inv
<1>2. CASE ListStep \/ ListAborts \/ UNCHANGED vars
  BY <1>2, ListingStays
<1>3. CASE \E p \in Apps : Serves(p)
  <2>1. PICK p \in Apps : Serves(p)
    BY <1>3
  <2>2. CASE ReadWord(p) \/ ReadBuffer(p) \/ ReadString(p)
    BY <2>2, ReadsLoad
  <2>3. CASE WriteWord(p) \/ WriteBuffer(p)
    BY <2>3, WritesStore
  <2>4. CASE Translate(p) \/ Lookup(p) \/ Unimplemented(p)
    BY <2>4, OthersStay
  <2>5. CASE ListBegin(p) \/ ReadStringAborts(p)
    BY <2>5, ListingStays
  <2>6. CASE PauseVm(p) \/ ResumeVm(p)
    BY <2>6, PausesHold
  <2> QED BY <2>1, <2>2, <2>3, <2>4, <2>5, <2>6 DEF Serves
<1>4. CASE \E p \in Apps : (\E c \in Asks[p] : Begin(p, c)) \/ Return(p) \/ AppDies(p)
  BY <1>4, FrontendAsks
<1> QED BY <1>1, <1>2, <1>3, <1>4 DEF Next, Partition

(* The memory calls behave as one memory: every call that was sent takes   *)
(* effect once; a read gives the word of its own place at that moment, a   *)
(* write changes the one cell behind its place, and while the guest is     *)
(* paused only the apps' writes change the memory, for any number of apps  *)
(* and addresses (furnace_frontend.py:351-411, 1112-1666).                 *)
THEOREM MemoryImplemented == Spec => ImplementsMemory
<1>1. Init => Memory!Init
  BY MemoryInit
<1>2. Inv /\ Inv' /\ [Next]_vars => [Memory!Next]_(Memory!memVars)
  BY MemoryNext
<1>3. Spec => Memory!Spec
  BY <1>1, <1>2, InvAlways, PTL DEF Spec, Memory!Spec
<1> QED BY <1>3 DEF ImplementsMemory
=============================================================================
