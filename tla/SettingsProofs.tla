--------------------------- MODULE SettingsProofs ---------------------------
(***************************************************************************)
(* Proofs about Settings, for any servers, clients, keys and requests.     *)
(***************************************************************************)
EXTENDS Settings, SequenceTheorems, TLAPS

-----------------------------------------------------------------------------
(* The invariant.                                                          *)

Labels == {"load", "fetch", "install", "compose", "exists", "store", "cache", "create",
           "display", "drop", "uncache"}

Tables(S) == UNION {[K -> S] : K \in SUBSET Keys}

Handlers == [req : Requests \cup {NoRequest}, server : Servers \cup {{}}, todo : Seq(Labels),
             seen : Tables(Contents), draft : Contents, blind : BOOLEAN]

Types ==
  /\ store \in Tables(Rows)
  /\ cache \in [Servers -> Tables(Contents)]
  /\ loaded \in [Servers -> BOOLEAN]
  /\ client \in [Clients -> Handlers]
  /\ suspect \subseteq Servers \X Keys
  /\ sent \in 0 .. MaxRequests

\* Where a handler is: the step it takes next, and those from step n on.
Place(c) == Head(client[c].todo)
Rest(q, n) == SubSeq(Program(q), n, Len(Program(q)))
Suffixes(q) == {Rest(q, n) : n \in 1 .. Len(Program(q))}

\* A handler goes through its program, and past its load its server is loaded,
\* unless the load has failed.
HandlerOK(c) ==
  /\ ~Busy(c) => client[c] = Idle
  /\ Busy(c) =>
       /\ Server(c) \in Servers
       /\ client[c].todo \in Suffixes(Req(c))
       /\ Req(c).op = "post" => client[c].draft = Req(c).row.value
       /\ ~client[c].blind /\ Place(c) \notin {"load", "fetch", "install"} => loaded[Server(c)]

WritesTo(c, k) == BusyWriting(c) /\ Key(c) = k

\* A trusted key of a server is written by one request at a time, which nobody
\* at that server loads next to, and through no other server while this one has
\* or fetches a copy.
Exclusive(s, k) ==
  \A c \in Clients : WritesTo(c, k) =>
    /\ Server(c) # s => ~loaded[s]
    /\ \A d \in Clients \ {c} :
         Busy(d) /\ Server(d) = s => Server(c) = s /\ ~WritesTo(d, k) /\ ~Loading(d)

\* What the table says of a key.
Value(k) == IF k \in DOMAIN store THEN store[k].value ELSE Default[k]

\* What the form makes of a list.
Edited(c, list) == IF Req(c).op = "add" THEN list \cup Req(c).amounts ELSE list \ {Req(c).amount}

\* The cache of a trusted key is right but between the two writes of a request.
CacheHolds(s, k) ==
  /\ loaded[s]
  /\ \A c \in Clients : WritesTo(c, k) /\ Server(c) = s => Place(c) \notin {"cache", "uncache"}
  => Lookup(cache[s], k) = Value(k)

\* So is what a handler has read of it.
ReadHolds(c, s, k) ==
  Busy(c) /\ Server(c) = s =>
    /\ Place(c) = "install" => Lookup(client[c].seen, k) = Value(k)
    /\ WritesTo(c, k) =>
         /\ Place(c) = "cache" => client[c].draft = Value(k)
         /\ Place(c) = "uncache" => k \notin DOMAIN store
         /\ Req(c).op = "patch" /\ Place(c) \in {"store", "cache", "display"} => k \in DOMAIN store
         /\ Req(c).op \in {"add", "remove"} /\ Place(c) = "store" /\ ~client[c].blind =>
              client[c].draft = Edited(c, Value(k))

Holds(s, k) == CacheHolds(s, k) /\ \A c \in Clients : ReadHolds(c, s, k)

Trusted(s, k) == <<s, k>> \notin suspect

PairsOK == \A s \in Servers, k \in Keys : Trusted(s, k) => Exclusive(s, k) /\ Holds(s, k)

IInv == Types /\ (\A c \in Clients : HandlerOK(c)) /\ PairsOK

-----------------------------------------------------------------------------
(* The programs.                                                           *)

\* A request is one of six kinds, and a PATCH names what it sets.
LEMMA RequestKinds ==
  ASSUME NEW q \in Requests
  PROVE  /\ q.op \in {"read", "add", "remove", "post", "patch", "delete"}
         /\ q.op # "read" => q.key \in Keys
         /\ q.op = "add" => q.amounts \in Contents
         /\ q.op = "post" => q.row \in Rows
         /\ q.op = "patch" => /\ DOMAIN q.set \in {{"value"}, {"display"}, {"value", "display"}}
                              /\ "value" \in DOMAIN q.set => q.set.value \in Contents
                              /\ "display" \in DOMAIN q.set => q.set.display \in BOOLEAN
<1>1. q \in RequestRecords
  BY ConstantsAssumption
<1>2. q.op \in {"read", "add", "remove", "post", "patch", "delete"} /\ (q.op # "read" => q.key \in Keys)
  BY <1>1 DEF RequestRecords
<1>3. q.op = "patch" => q.set \in Changes
  BY <1>1 DEF RequestRecords
<1>4. ASSUME NEW x \in Changes
      PROVE  /\ DOMAIN x \in {{"value"}, {"display"}, {"value", "display"}}
             /\ "value" \in DOMAIN x => x.value \in Contents
             /\ "display" \in DOMAIN x => x.display \in BOOLEAN
  <2>1. CASE x \in [value : Contents]
    <3>1. DOMAIN x = {"value"} /\ x.value \in Contents
      BY <2>1
    <3> QED
      BY <3>1, Zenon
  <2>2. CASE x \in [display : BOOLEAN]
    <3>1. DOMAIN x = {"display"}
      BY <2>2
    <3>2. x.display \in BOOLEAN
      BY <2>2, Zenon
    <3> QED
      BY <3>1, <3>2, Zenon
  <2>3. CASE x \in Rows
    <3>1. DOMAIN x = {"value", "display"} /\ x.value \in Contents
      BY <2>3 DEF Rows
    <3>2. x.display \in BOOLEAN
      BY <2>3, Zenon DEF Rows
    <3> QED
      BY <3>1, <3>2, Zenon
  <2> QED
    BY <1>4, <2>1, <2>2, <2>3 DEF Changes
<1>5. q.op = "add" => q.amounts \in Contents
  BY <1>1 DEF RequestRecords
<1>6. q.op = "post" => q.row \in Rows
  BY <1>1 DEF RequestRecords
<1> QED
  BY <1>2, <1>3, <1>4, <1>5, <1>6, Zenon

Programs ==
  {<<"load", "fetch", "install">>,
   <<"load", "fetch", "install", "compose", "store", "cache">>,
   <<"load", "fetch", "install", "create", "cache">>,
   <<"load", "fetch", "install", "exists", "store", "cache">>,
   <<"load", "fetch", "install", "exists", "display">>,
   <<"load", "fetch", "install", "exists", "store", "cache", "display">>,
   <<"load", "fetch", "install", "drop", "uncache">>}

\* The seven programs, told apart by their fourth step.
LEMMA ProgramIs ==
  ASSUME NEW q \in Requests
  PROVE  /\ Program(q) \in Programs
         /\ 4 \in DOMAIN Program(q) =>
              CASE q.op \in {"add", "remove"} -> Program(q)[4] = "compose"
                [] q.op = "post" -> Program(q)[4] = "create"
                [] q.op = "patch" -> Program(q)[4] = "exists"
                [] q.op = "delete" -> Program(q)[4] = "drop"
                [] OTHER -> FALSE
<1>1. CASE q.op = "read"
  <2>1. Program(q) = <<"load", "fetch", "install">>
    BY <1>1 DEF Program
  <2> QED
    BY <2>1 DEF Programs
<1>2. CASE q.op \in {"add", "remove"}
  <2>1. Program(q) = <<"load", "fetch", "install", "compose", "store", "cache">>
    BY <1>2 DEF Program
  <2> QED
    BY <1>2, <2>1 DEF Programs
<1>3. CASE q.op = "post"
  <2>1. Program(q) = <<"load", "fetch", "install", "create", "cache">>
    BY <1>3 DEF Program
  <2> QED
    BY <1>3, <2>1 DEF Programs
<1>4. CASE q.op = "patch"
  <2>1. DOMAIN q.set \in {{"value"}, {"display"}, {"value", "display"}}
    BY <1>4, RequestKinds
  <2>2. CASE DOMAIN q.set = {"value"}
    <3>1. Program(q) = <<"load", "fetch", "install", "exists", "store", "cache">>
      BY <1>4, <2>2 DEF Program
    <3> QED
      BY <1>4, <3>1 DEF Programs
  <2>3. CASE DOMAIN q.set = {"display"}
    <3>1. {"display"} # {"value"}
      OBVIOUS
    <3>2. Program(q) = <<"load", "fetch", "install", "exists", "display">>
      BY <1>4, <2>3, <3>1 DEF Program
    <3> QED
      BY <1>4, <3>2 DEF Programs
  <2>4. CASE DOMAIN q.set = {"value", "display"}
    <3>1. {"value", "display"} # {"value"} /\ {"value", "display"} # {"display"}
      OBVIOUS
    <3>2. Program(q) = <<"load", "fetch", "install", "exists", "store", "cache", "display">>
      BY <1>4, <2>4, <3>1 DEF Program
    <3> QED
      BY <1>4, <3>2 DEF Programs
  <2> QED
    BY <2>1, <2>2, <2>3, <2>4
<1>5. CASE q.op = "delete"
  <2>1. Program(q) = <<"load", "fetch", "install", "drop", "uncache">>
    BY <1>5 DEF Program
  <2> QED
    BY <1>5, <2>1 DEF Programs
<1> QED
  BY <1>1, <1>2, <1>3, <1>4, <1>5, RequestKinds

\* A program is a sequence of labels that begins with the load.
LEMMA ProgramType ==
  ASSUME NEW p \in Programs
  PROVE  /\ p \in Seq(Labels) /\ Len(p) \in 3 .. 7
         /\ p[1] = "load" /\ p[2] = "fetch" /\ p[3] = "install"
<1>1. CASE p = <<"load", "fetch", "install">>
  BY <1>1 DEF Labels
<1>2. CASE p = <<"load", "fetch", "install", "compose", "store", "cache">>
  BY <1>2 DEF Labels
<1>3. CASE p = <<"load", "fetch", "install", "create", "cache">>
  BY <1>3 DEF Labels
<1>4. CASE p = <<"load", "fetch", "install", "exists", "store", "cache">>
  BY <1>4 DEF Labels
<1>5. CASE p = <<"load", "fetch", "install", "exists", "display">>
  BY <1>5 DEF Labels
<1>6. CASE p = <<"load", "fetch", "install", "exists", "store", "cache", "display">>
  BY <1>6 DEF Labels
<1>7. CASE p = <<"load", "fetch", "install", "drop", "uncache">>
  BY <1>7 DEF Labels
<1> QED
  BY <1>1, <1>2, <1>3, <1>4, <1>5, <1>6, <1>7, Zenon DEF Programs

\* Which step comes after which.
LEMMA ProgramOrder ==
  ASSUME NEW p \in Programs, NEW n \in 4 .. Len(p)
  PROVE  /\ p[n] \notin {"load", "fetch", "install"}
         /\ p[n] = "compose" => p[4] = "compose" /\ n < Len(p) /\ p[n + 1] = "store"
         /\ p[n] = "exists" => p[4] = "exists" /\ n < Len(p) /\ p[n + 1] \in {"store", "display"}
         /\ p[n] = "store" => p[4] \in {"compose", "exists"} /\ n < Len(p) /\ p[n + 1] = "cache"
         /\ p[n] = "create" => p[4] = "create" /\ n < Len(p) /\ p[n + 1] = "cache"
         /\ p[n] = "cache" => p[4] \in {"compose", "exists", "create"} /\ (n = Len(p) \/ p[n + 1] = "display")
         /\ p[n] = "display" => p[4] = "exists" /\ n = Len(p)
         /\ p[n] = "drop" => p[4] = "drop" /\ n < Len(p) /\ p[n + 1] = "uncache"
         /\ p[n] = "uncache" => p[4] = "drop" /\ n = Len(p)
         /\ p[4] \in {"compose", "exists", "create", "drop"}
<1>1. CASE p = <<"load", "fetch", "install">>
  BY <1>1
<1>2. CASE p = <<"load", "fetch", "install", "compose", "store", "cache">>
  BY <1>2
<1>3. CASE p = <<"load", "fetch", "install", "create", "cache">>
  BY <1>3
<1>4. CASE p = <<"load", "fetch", "install", "exists", "store", "cache">>
  BY <1>4
<1>5. CASE p = <<"load", "fetch", "install", "exists", "display">>
  BY <1>5
<1>6. CASE p = <<"load", "fetch", "install", "exists", "store", "cache", "display">>
  BY <1>6
<1>7. CASE p = <<"load", "fetch", "install", "drop", "uncache">>
  BY <1>7
<1> QED
  BY <1>1, <1>2, <1>3, <1>4, <1>5, <1>6, <1>7, Zenon DEF Programs

\* What is left to do from step n on.
LEMMA RestIs ==
  ASSUME NEW q \in Requests, NEW n \in 1 .. Len(Program(q))
  PROVE  /\ Rest(q, n) \in Seq(Labels) /\ Rest(q, n) # <<>>
         /\ Head(Rest(q, n)) = Program(q)[n]
         /\ Tail(Rest(q, n)) = Rest(q, n + 1)
         /\ n = Len(Program(q)) => Tail(Rest(q, n)) = <<>>
<1> DEFINE p == Program(q)
<1>1. p \in Seq(Labels) /\ Len(p) \in 3 .. 7
  BY ProgramIs, ProgramType
<1> HIDE DEF p
<1>2. Head(SubSeq(p, n, Len(p))) = p[n] /\ Tail(SubSeq(p, n, Len(p))) = SubSeq(p, n + 1, Len(p))
  <2>1. n \in 1 .. Len(p) /\ Len(p) \in n .. Len(p)
    BY <1>1 DEF p
  <2> QED
    BY <1>1, <2>1, HeadTailOfSubSeq
<1>3. SubSeq(p, n, Len(p)) \in Seq(Labels) /\ Len(SubSeq(p, n, Len(p))) = Len(p) - n + 1
  <2>1. n \in Int /\ Len(p) \in Int /\ n <= Len(p) /\ \A i \in n .. Len(p) : p[i] \in Labels
    BY <1>1 DEF p
  <2> QED
    BY <2>1, SubSeqProperties
<1>4. SubSeq(p, n, Len(p)) # <<>>
  <2>1. n \in 1 .. Len(p) /\ Len(p) \in Nat
    BY <1>1 DEF p
  <2>2. Len(p) - n + 1 # 0
    BY <2>1
  <2>3. ASSUME NEW s \in Seq(Labels), Len(s) # 0 PROVE s # <<>>
    BY <2>3
  <2> HIDE DEF p
  <2> QED
    BY <1>3, <2>2, <2>3
<1>5. n = Len(p) => SubSeq(p, n + 1, Len(p)) = <<>>
  BY <1>1, SubSeqEmpty DEF p
<1> QED
  BY <1>2, <1>3, <1>4, <1>5 DEF p, Rest

\* What follows a step: nothing, or a step of those named.
Follows(q, t, L) == t = <<>> \/ (t \in Suffixes(q) /\ t # <<>> /\ Head(t) \in L)
Continues(q, t, L) == t \in Suffixes(q) /\ t # <<>> /\ Head(t) \in L

Composing == {"compose", "exists", "create", "drop"}

\* The order in which a handler takes its steps.
LEMMA Course ==
  ASSUME NEW q \in Requests, NEW t \in Suffixes(q)
  PROVE  /\ t \in Seq(Labels) /\ t # <<>> /\ Head(t) \in Labels
         /\ Head(t) = "load" => /\ Continues(q, Tail(t), {"fetch"})
                                /\ Follows(q, Tail(Tail(Tail(t))), Composing)
         /\ Head(t) = "fetch" => /\ Continues(q, Tail(t), {"install"})
                                 /\ Follows(q, Tail(Tail(t)), Composing)
         /\ Head(t) = "install" => Follows(q, Tail(t), Composing)
         /\ Head(t) = "compose" => q.op \in {"add", "remove"} /\ Continues(q, Tail(t), {"store"})
         /\ Head(t) = "exists" => q.op = "patch" /\ Continues(q, Tail(t), {"store", "display"})
         /\ Head(t) = "store" => q.op \in {"add", "remove", "patch"} /\ Continues(q, Tail(t), {"cache"})
         /\ Head(t) = "create" => q.op = "post" /\ Continues(q, Tail(t), {"cache"})
         /\ Head(t) = "cache" => /\ q.op \in {"add", "remove", "patch", "post"}
                                 /\ Follows(q, Tail(t), {"display"})
         /\ Head(t) = "display" => q.op = "patch" /\ Tail(t) = <<>>
         /\ Head(t) = "drop" => q.op = "delete" /\ Continues(q, Tail(t), {"uncache"})
         /\ Head(t) = "uncache" => q.op = "delete" /\ Tail(t) = <<>>
<1> DEFINE p == Program(q)
<1>1. p \in Programs /\ p \in Seq(Labels) /\ Len(p) \in 3 .. 7
      /\ p[1] = "load" /\ p[2] = "fetch" /\ p[3] = "install"
  BY ProgramIs, ProgramType
<1>2. PICK n \in 1 .. Len(p) : t = Rest(q, n)
  BY DEF Suffixes
<1>3. /\ t \in Seq(Labels) /\ t # <<>> /\ Head(t) = p[n] /\ p[n] \in Labels
      /\ Tail(t) = Rest(q, n + 1)
      /\ n = Len(p) => Tail(t) = <<>>
  BY <1>1, <1>2, RestIs, SMTT(30)
<1>4. ASSUME NEW m \in 1 .. Len(p)
      PROVE  Continues(q, Rest(q, m), {p[m]})
  BY <1>4, RestIs DEF Continues, Suffixes
<1>5. n < Len(p) => Continues(q, Tail(t), {p[n + 1]})
  <2>1. n < Len(p) => n + 1 \in 1 .. Len(p)
    BY <1>1
  <2> QED
    BY <1>3, <1>4, <2>1
<1>a. /\ 1 \in 1 .. Len(p) /\ 2 \in 1 .. Len(p) /\ 3 \in 1 .. Len(p)
      /\ 1 < Len(p) /\ 2 < Len(p) /\ (3 = Len(p) \/ (4 \in 4 .. Len(p) /\ 4 \in 1 .. Len(p)))
      /\ 1 + 1 = 2 /\ 2 + 1 = 3 /\ 3 + 1 = 4
  <2>1. ASSUME NEW l \in 3 .. 7
        PROVE  /\ 1 \in 1 .. l /\ 2 \in 1 .. l /\ 3 \in 1 .. l
               /\ 1 < l /\ 2 < l /\ (3 = l \/ (4 \in 4 .. l /\ 4 \in 1 .. l))
    OBVIOUS
  <2>2. 1 + 1 = 2 /\ 2 + 1 = 3 /\ 3 + 1 = 4
    OBVIOUS
  <2> HIDE DEF p
  <2>3. Len(p) \in 3 .. 7
    BY <1>1
  <2> QED
    BY <2>1, <2>2, <2>3, Zenon
<1>6. ASSUME NEW u, u = Rest(q, 4) \/ u = Tail(Rest(q, 3))
      PROVE  Follows(q, u, Composing)
  <2>1. u = Rest(q, 4) /\ (Len(p) = 3 => u = <<>>)
    <3>1. Tail(Rest(q, 3)) = Rest(q, 3 + 1) /\ (3 = Len(p) => Tail(Rest(q, 3)) = <<>>)
      BY <1>a, RestIs
    <3> QED
      BY <1>a, <1>6, <3>1
  <2>2. CASE Len(p) = 3
    BY <2>1, <2>2 DEF Follows
  <2>3. CASE Len(p) # 3
    <3>1. 4 \in 1 .. Len(p) /\ 4 \in 4 .. Len(p)
      BY <1>a, <2>3
    <3>2. p[4] \in Composing
      BY <1>1, <3>1, ProgramOrder DEF Composing
    <3> QED
      BY <2>1, <3>1, <3>2, <1>4 DEF Follows, Continues
  <2> QED
    BY <2>2, <2>3
<1>7. CASE n = 1
  <2>1. Head(t) = "load"
    BY <1>1, <1>3, <1>7
  <2>2. Continues(q, Tail(t), {"fetch"})
    BY <1>1, <1>5, <1>7, <1>a
  <2>3. Tail(t) = Rest(q, 2) /\ Tail(Tail(t)) = Rest(q, 3)
    <3>1. Tail(Rest(q, 2)) = Rest(q, 2 + 1)
      BY <1>a, RestIs
    <3>2. Tail(t) = Rest(q, 1 + 1)
      BY <1>3, <1>7
    <3> QED
      BY <1>a, <3>1, <3>2
  <2>4. Follows(q, Tail(Tail(Tail(t))), Composing)
    BY <1>6, <2>3
  <2> QED
    BY <1>3, <2>1, <2>2, <2>4
<1>8. CASE n = 2
  <2>1. Head(t) = "fetch"
    BY <1>1, <1>3, <1>8
  <2>2. Continues(q, Tail(t), {"install"})
    BY <1>1, <1>5, <1>8, <1>a
  <2>3. Follows(q, Tail(Tail(t)), Composing)
    <3>1. Tail(t) = Rest(q, 2 + 1)
      BY <1>3, <1>8
    <3> QED
      BY <1>6, <1>a, <3>1
  <2> QED
    BY <1>3, <2>1, <2>2, <2>3
<1>9. CASE n = 3
  <2>1. Head(t) = "install" /\ Follows(q, Tail(t), Composing)
    BY <1>1, <1>2, <1>3, <1>6, <1>9
  <2> QED
    BY <1>3, <2>1
<1>10. CASE n \in 4 .. Len(p)
  <2>1. 4 \in DOMAIN p
    BY <1>1, <1>10
  <2>2. /\ p[4] = "compose" => q.op \in {"add", "remove"}
        /\ p[4] = "exists" => q.op = "patch"
        /\ p[4] = "create" => q.op = "post"
        /\ p[4] = "drop" => q.op = "delete"
    BY <2>1, ProgramIs
  <2>3. /\ p[n] \notin {"load", "fetch", "install"}
        /\ p[n] = "compose" => p[4] = "compose" /\ n < Len(p) /\ p[n + 1] = "store"
        /\ p[n] = "exists" => p[4] = "exists" /\ n < Len(p) /\ p[n + 1] \in {"store", "display"}
        /\ p[n] = "store" => p[4] \in {"compose", "exists"} /\ n < Len(p) /\ p[n + 1] = "cache"
        /\ p[n] = "create" => p[4] = "create" /\ n < Len(p) /\ p[n + 1] = "cache"
        /\ p[n] = "cache" => p[4] \in {"compose", "exists", "create"} /\ (n = Len(p) \/ p[n + 1] = "display")
        /\ p[n] = "display" => p[4] = "exists" /\ n = Len(p)
        /\ p[n] = "drop" => p[4] = "drop" /\ n < Len(p) /\ p[n + 1] = "uncache"
        /\ p[n] = "uncache" => p[4] = "drop" /\ n = Len(p)
    BY <1>1, <1>10, ProgramOrder
  <2>4. Len(p) \in Int /\ (n = Len(p) \/ n < Len(p))
    BY <1>1, <1>10
  <2> HIDE DEF p
  <2>5. ASSUME NEW L, n < Len(p), p[n + 1] \in L
        PROVE  Continues(q, Tail(t), L)
    BY <1>5, <2>5 DEF Continues
  <2>6. p[n] = "cache" => Follows(q, Tail(t), {"display"})
    BY <1>3, <2>3, <2>4, <2>5 DEF Follows, Continues
  <2> QED
    BY <1>3, <2>2, <2>3, <2>5, <2>6
<1> QED
  BY <1>1, <1>7, <1>8, <1>9, <1>10

-----------------------------------------------------------------------------
(* A step of a handler.                                                    *)

\* A handler goes on to one of the steps named, or answers; the others stay.
MovesTo(c, L) ==
  /\ client' \in [Clients -> Handlers]
  /\ \A d \in Clients \ {c} : client'[d] = client[d]
  /\ client'[c] # Idle =>
       /\ Req(c)' = Req(c) /\ Server(c)' = Server(c)
       /\ client'[c].todo \in Suffixes(Req(c)) /\ Place(c)' \in L

LEMMA IdleIs ==
  /\ Idle \in Handlers
  /\ Idle.req = NoRequest /\ Idle.todo = <<>> /\ Idle.server = {}
<1>1. NoRows \in Tables(Contents)
  <2>1. NoRows \in [{} -> Contents]
    BY DEF NoRows
  <2> QED
    BY <2>1 DEF Tables
<1>2. <<>> \in Seq(Labels) /\ {} \in Contents
  BY DEF Contents
<1> QED
  BY <1>1, <1>2 DEF Idle, Handlers

LEMMA Became ==
  ASSUME Types, NEW c \in Clients, Busy(c), Req(c) \in Requests, NEW L,
         NEW h \in Handlers, h.req = Req(c), h.server = Server(c),
         Follows(Req(c), h.todo, L), Become(c, h)
  PROVE  MovesTo(c, L) /\ client'[c] \in {Idle, h} /\ (h.todo # <<>> => client'[c] # Idle)
<1>1. client' = [client EXCEPT ![c] = IF h.todo = <<>> THEN Idle ELSE h]
  BY DEF Become
<1>2. client \in [Clients -> Handlers]
  BY DEF Types
<1>3. client'[c] = IF h.todo = <<>> THEN Idle ELSE h
  BY <1>1, <1>2
<1>4. client' \in [Clients -> Handlers] /\ \A d \in Clients \ {c} : client'[d] = client[d]
  BY <1>1, <1>2, IdleIs
<1>5. client'[c] # Idle => client'[c] = h /\ h.todo \in Suffixes(Req(c)) /\ Head(h.todo) \in L
  BY <1>3 DEF Follows
<1>6. h.todo # <<>> => client'[c] # Idle
  BY <1>3, IdleIs
<1> QED
  BY <1>3, <1>4, <1>5, <1>6 DEF MovesTo, Req, Server, Place

\* A busy handler, whatever it does next.
LEMMA BusyIs ==
  ASSUME Types, NEW c \in Clients, Busy(c), HandlerOK(c)
  PROVE  /\ client[c] \in Handlers /\ Req(c) \in Requests /\ Server(c) \in Servers
         /\ client[c].todo \in Suffixes(Req(c))
<1>1. client[c] \in Handlers
  BY DEF Types
<1>2. Req(c) \in Requests
  BY <1>1 DEF Handlers, Req, Busy
<1> QED
  BY <1>1, <1>2 DEF HandlerOK

LEMMA FollowsType ==
  ASSUME NEW q \in Requests, NEW t, NEW L, Follows(q, t, L) \/ Continues(q, t, L)
  PROVE  t \in Seq(Labels) /\ Follows(q, t, L)
<1>1. t = <<>> => t \in Seq(Labels)
  OBVIOUS
<1>2. t \in Suffixes(q) => t \in Seq(Labels)
  BY Course
<1> QED
  BY <1>1, <1>2, Zenon DEF Follows, Continues

LEMMA Ended ==
  ASSUME Types, NEW c \in Clients, End(c)
  PROVE  /\ client' \in [Clients -> Handlers] /\ client'[c] = Idle
         /\ \A L : MovesTo(c, L)
  BY IdleIs DEF End, Types, MovesTo

\* One step on, with the rest of the handler as it was.
LEMMA Proceeded ==
  ASSUME Types, NEW c \in Clients, Busy(c), HandlerOK(c), NEW L, NEW t,
         Follows(Req(c), t, L) \/ Continues(Req(c), t, L),
         Become(c, [client[c] EXCEPT !.todo = t])
  PROVE  /\ MovesTo(c, L)
         /\ client'[c] # Idle => /\ client'[c].draft = client[c].draft
                                 /\ client'[c].seen = client[c].seen
                                 /\ client'[c].blind = client[c].blind
         /\ Continues(Req(c), t, L) => client'[c] # Idle
<1> DEFINE h == [client[c] EXCEPT !.todo = t]
<1>1. client[c] \in Handlers /\ Req(c) \in Requests
  BY BusyIs
<1>2. t \in Seq(Labels) /\ Follows(Req(c), t, L)
  BY <1>1, FollowsType
<1>3. /\ h \in Handlers /\ h.req = client[c].req /\ h.server = client[c].server /\ h.todo = t
      /\ h.draft = client[c].draft /\ h.seen = client[c].seen /\ h.blind = client[c].blind
  BY <1>1, <1>2 DEF Handlers
<1>4. h.req = Req(c) /\ h.server = Server(c) /\ Follows(Req(c), h.todo, L) /\ Become(c, h)
  BY <1>2, <1>3 DEF Req, Server
<1> HIDE DEF h
<1>5. MovesTo(c, L) /\ client'[c] \in {Idle, h} /\ (h.todo # <<>> => client'[c] # Idle)
  BY <1>1, <1>3, <1>4, Became
<1> QED
  BY <1>3, <1>5 DEF Continues

\* The gate's load.
LEMMA LoadMoves ==
  ASSUME Types, NEW c \in Clients, HandlerOK(c), Load(c)
  PROVE  /\ MovesTo(c, {"fetch"} \cup Composing)
         /\ client'[c] # Idle => /\ client'[c].draft = client[c].draft
                                 /\ client'[c].blind = client[c].blind
                                 /\ Place(c)' = "fetch" => ~loaded[Server(c)]
                                 /\ Place(c)' # "fetch" => loaded[Server(c)]
<1>1. /\ Busy(c) /\ client[c].todo \in Suffixes(Req(c)) /\ Req(c) \in Requests
      /\ Head(client[c].todo) = "load"
  BY BusyIs DEF Load, At
<1>2. /\ Continues(Req(c), Tail(client[c].todo), {"fetch"})
      /\ Follows(Req(c), Tail(Tail(Tail(client[c].todo))), Composing)
  BY <1>1, Course
<1>3. CASE loaded[Server(c)]
  <2>1. Become(c, [client[c] EXCEPT !.todo = Tail(Tail(Tail(client[c].todo)))])
    BY <1>3 DEF Load
  <2>2. /\ MovesTo(c, Composing)
        /\ client'[c] # Idle => client'[c].draft = client[c].draft /\ client'[c].blind = client[c].blind
    BY <1>1, <1>2, <2>1, Proceeded
  <2> QED
    BY <1>3, <2>2 DEF MovesTo, Composing
<1>4. CASE ~loaded[Server(c)]
  <2>1. Become(c, [client[c] EXCEPT !.todo = Tail(client[c].todo)])
    BY <1>4 DEF Load, Proceed
  <2>2. /\ MovesTo(c, {"fetch"})
        /\ client'[c] # Idle => client'[c].draft = client[c].draft /\ client'[c].blind = client[c].blind
    BY <1>1, <1>2, <2>1, Proceeded
  <2> QED
    BY <1>4, <2>2 DEF MovesTo, Composing
<1> QED
  BY <1>3, <1>4

\* The tables that are read.
LEMMA TableTypes ==
  ASSUME Types
  PROVE  /\ All \in Tables(Contents) /\ DOMAIN All = DOMAIN store
         /\ \A k \in Keys : Lookup(All, k) = Value(k) /\ Value(k) \in Contents
         /\ \A s \in Servers, k \in Keys : Lookup(cache[s], k) \in Contents
<1>1. PICK K \in SUBSET Keys : store \in [K -> Rows]
  BY DEF Types, Tables
<1>2. \A k \in K : store[k].value \in Contents
  BY <1>1 DEF Rows
<1>3. All \in [K -> Contents]
  BY <1>1, <1>2 DEF All
<1>4. All \in Tables(Contents) /\ DOMAIN All = DOMAIN store
  BY <1>1, <1>3 DEF Tables
<1>5. \A k \in Keys : Lookup(All, k) = Value(k) /\ Value(k) \in Contents
  BY <1>1, <1>2, ConstantsAssumption DEF All, Lookup, Value
<1>6. ASSUME NEW s \in Servers, NEW k \in Keys
      PROVE  Lookup(cache[s], k) \in Contents
  <2>1. PICK K2 \in SUBSET Keys : cache[s] \in [K2 -> Contents]
    BY DEF Types, Tables
  <2> QED
    BY <2>1, ConstantsAssumption DEF Lookup
<1> QED
  BY <1>4, <1>5, <1>6

LEMMA FetchMoves ==
  ASSUME Types, NEW c \in Clients, HandlerOK(c), Fetch(c)
  PROVE  /\ MovesTo(c, {"install"})
         /\ client'[c] # Idle => /\ client'[c].draft = client[c].draft
                                 /\ client'[c].seen = All
<1> DEFINE h == [client[c] EXCEPT !.todo = Tail(client[c].todo), !.seen = All]
<1>1. /\ Busy(c) /\ client[c].todo \in Suffixes(Req(c)) /\ Req(c) \in Requests
      /\ Head(client[c].todo) = "fetch" /\ client[c] \in Handlers
  BY BusyIs DEF Fetch, At
<1>2. Tail(client[c].todo) \in Seq(Labels) /\ Follows(Req(c), Tail(client[c].todo), {"install"})
  BY <1>1, Course, FollowsType
<1>3. /\ h \in Handlers /\ h.req = client[c].req /\ h.server = client[c].server
      /\ h.todo = Tail(client[c].todo)
      /\ h.draft = client[c].draft /\ h.seen = All
  BY <1>1, <1>2, TableTypes DEF Handlers
<1>4. h.req = Req(c) /\ h.server = Server(c) /\ Follows(Req(c), h.todo, {"install"}) /\ Become(c, h)
  BY <1>2, <1>3 DEF Req, Server, Fetch
<1> HIDE DEF h
<1>5. MovesTo(c, {"install"}) /\ client'[c] \in {Idle, h}
  BY <1>1, <1>3, <1>4, Became
<1> QED
  BY <1>3, <1>5

LEMMA FetchFailsMoves ==
  ASSUME Types, NEW c \in Clients, HandlerOK(c), FetchFails(c)
  PROVE  /\ MovesTo(c, Composing)
         /\ client'[c] # Idle => client'[c].draft = client[c].draft /\ client'[c].blind
<1> DEFINE h == [client[c] EXCEPT !.todo = Tail(Tail(client[c].todo)), !.blind = TRUE]
<1>1. /\ Busy(c) /\ client[c].todo \in Suffixes(Req(c)) /\ Req(c) \in Requests
      /\ Head(client[c].todo) = "fetch" /\ client[c] \in Handlers
  BY BusyIs DEF FetchFails, At
<1>2. Tail(Tail(client[c].todo)) \in Seq(Labels) /\ Follows(Req(c), Tail(Tail(client[c].todo)), Composing)
  BY <1>1, Course, FollowsType
<1>3. /\ h \in Handlers /\ h.req = client[c].req /\ h.server = client[c].server
      /\ h.todo = Tail(Tail(client[c].todo))
      /\ h.draft = client[c].draft /\ h.blind
  BY <1>1, <1>2 DEF Handlers
<1>4. h.req = Req(c) /\ h.server = Server(c) /\ Follows(Req(c), h.todo, Composing) /\ Become(c, h)
  BY <1>2, <1>3 DEF Req, Server, FetchFails
<1> HIDE DEF h
<1>5. MovesTo(c, Composing) /\ client'[c] \in {Idle, h}
  BY <1>1, <1>3, <1>4, Became
<1> QED
  BY <1>3, <1>5

LEMMA InstallMoves ==
  ASSUME Types, NEW c \in Clients, HandlerOK(c), Install(c)
  PROVE  /\ MovesTo(c, Composing)
         /\ client'[c] # Idle => client'[c].draft = client[c].draft
<1> DEFINE h == [client[c] EXCEPT !.todo = Tail(client[c].todo), !.seen = NoRows]
<1>1. /\ Busy(c) /\ client[c].todo \in Suffixes(Req(c)) /\ Req(c) \in Requests
      /\ Head(client[c].todo) = "install" /\ client[c] \in Handlers
  BY BusyIs DEF Install, At
<1>2. Tail(client[c].todo) \in Seq(Labels) /\ Follows(Req(c), Tail(client[c].todo), Composing)
  BY <1>1, Course, FollowsType
<1>3. Idle \in Handlers /\ Idle.seen = NoRows
  BY IdleIs DEF Idle
<1>4. /\ h \in Handlers /\ h.req = client[c].req /\ h.server = client[c].server
      /\ h.todo = Tail(client[c].todo) /\ h.draft = client[c].draft
  BY <1>1, <1>2, <1>3 DEF Handlers
<1>5. h.req = Req(c) /\ h.server = Server(c) /\ Follows(Req(c), h.todo, Composing) /\ Become(c, h)
  BY <1>2, <1>4 DEF Req, Server, Install
<1> HIDE DEF h
<1>6. MovesTo(c, Composing) /\ client'[c] \in {Idle, h}
  BY <1>1, <1>4, <1>5, Became
<1> QED
  BY <1>4, <1>6

LEMMA ComposeMoves ==
  ASSUME Types, NEW c \in Clients, HandlerOK(c), ComposeAdd(c) \/ ComposeRemove(c)
  PROVE  /\ MovesTo(c, {"store"})
         /\ Req(c).op \in {"add", "remove"}
         /\ client'[c] # Idle => client'[c].draft = Edited(c, Get(c)) /\ client'[c].blind = client[c].blind
<1> DEFINE h == [client[c] EXCEPT !.todo = Tail(client[c].todo), !.draft = Edited(c, Get(c))]
<1>1. /\ Busy(c) /\ client[c].todo \in Suffixes(Req(c)) /\ Req(c) \in Requests
      /\ Head(client[c].todo) = "compose" /\ client[c] \in Handlers /\ Server(c) \in Servers
      /\ Req(c).op \in {"add", "remove"}
  BY BusyIs DEF ComposeAdd, ComposeRemove, At
<1>2. Tail(client[c].todo) \in Seq(Labels) /\ Follows(Req(c), Tail(client[c].todo), {"store"})
  BY <1>1, Course, FollowsType
<1>3. Edited(c, Get(c)) \in Contents
  <2>1. Key(c) \in Keys /\ (Req(c).op = "add" => Req(c).amounts \in Contents)
    BY <1>1, RequestKinds DEF Key
  <2>2. Get(c) \in Contents
    BY <1>1, <2>1, TableTypes, ConstantsAssumption DEF Get
  <2> QED
    BY <1>1, <2>1, <2>2 DEF Edited, Contents
<1>4. /\ h \in Handlers /\ h.req = client[c].req /\ h.server = client[c].server
      /\ h.todo = Tail(client[c].todo)
      /\ h.draft = Edited(c, Get(c)) /\ h.blind = client[c].blind
  BY <1>1, <1>2, <1>3 DEF Handlers
<1>5. h.req = Req(c) /\ h.server = Server(c) /\ Follows(Req(c), h.todo, {"store"})
  BY <1>2, <1>4 DEF Req, Server
<1>6. Become(c, h) \/ End(c)
  BY DEF ComposeAdd, ComposeRemove, Edited
<1> HIDE DEF h
<1>7. CASE Become(c, h)
  <2>1. MovesTo(c, {"store"}) /\ client'[c] \in {Idle, h}
    BY <1>1, <1>4, <1>5, <1>7, Became
  <2> QED
    BY <1>1, <1>4, <2>1
<1>8. CASE End(c)
  BY <1>1, <1>8, Ended
<1> QED
  BY <1>6, <1>7, <1>8

\* The steps of a write: where each goes on, the draft and the rest kept.
Keeps(c) == client'[c] # Idle =>
              client'[c].draft = client[c].draft /\ client'[c].blind = client[c].blind

LEMMA WriteMoves ==
  ASSUME Types, NEW c \in Clients, HandlerOK(c), Busy(c)
  PROVE  /\ Exists(c) => /\ MovesTo(c, {"store", "display"}) /\ Keeps(c) /\ Req(c).op = "patch"
                         /\ client'[c] # Idle => Key(c) \in DOMAIN store
         /\ StoreValue(c) => /\ MovesTo(c, {"cache"}) /\ Keeps(c) /\ client'[c] # Idle
                             /\ Req(c).op \in {"add", "remove", "patch"}
         /\ CacheValue(c) => /\ MovesTo(c, {"display"}) /\ Keeps(c)
                             /\ Req(c).op \in {"add", "remove", "patch", "post"}
         /\ Create(c) => /\ MovesTo(c, {"cache"}) /\ Keeps(c) /\ Req(c).op = "post"
                         /\ IF Taken(Key(c)) THEN client'[c] = Idle ELSE client'[c] # Idle
         /\ Drop(c) => MovesTo(c, {"uncache"}) /\ Keeps(c) /\ client'[c] # Idle /\ Req(c).op = "delete"
         /\ SetDisplay(c) => MovesTo(c, {}) /\ client'[c] = Idle /\ Req(c).op = "patch"
         /\ Uncache(c) => MovesTo(c, {}) /\ client'[c] = Idle /\ Req(c).op = "delete"
         /\ WriteFails(c) => MovesTo(c, {}) /\ client'[c] = Idle /\ Req(c).op # "read"
<1> DEFINE t == client[c].todo
<1>2. t \in Suffixes(Req(c)) /\ Req(c) \in Requests
  BY BusyIs
<1>3. /\ Head(t) = "exists" => Req(c).op = "patch" /\ Continues(Req(c), Tail(t), {"store", "display"})
      /\ Head(t) = "store" => Req(c).op \in {"add", "remove", "patch"} /\ Continues(Req(c), Tail(t), {"cache"})
      /\ Head(t) = "create" => Req(c).op = "post" /\ Continues(Req(c), Tail(t), {"cache"})
      /\ Head(t) = "cache" => /\ Req(c).op \in {"add", "remove", "patch", "post"}
                              /\ Follows(Req(c), Tail(t), {"display"})
      /\ Head(t) = "display" => Req(c).op = "patch" /\ Tail(t) = <<>>
      /\ Head(t) = "drop" => Req(c).op = "delete" /\ Continues(Req(c), Tail(t), {"uncache"})
      /\ Head(t) = "uncache" => Req(c).op = "delete" /\ Tail(t) = <<>>
  BY <1>2, Course
<1>4. ASSUME Proceed(c), NEW L, Follows(Req(c), Tail(t), L) \/ Continues(Req(c), Tail(t), L)
      PROVE  MovesTo(c, L) /\ Keeps(c)
  <2>1. Become(c, [client[c] EXCEPT !.todo = Tail(t)])
    BY <1>4 DEF Proceed
  <2> QED
    BY <1>2, <1>4, <2>1, Proceeded DEF Keeps
<1>a. ASSUME Proceed(c), NEW L, Continues(Req(c), Tail(t), L)
      PROVE  client'[c] # Idle
  <2>1. Become(c, [client[c] EXCEPT !.todo = Tail(t)])
    BY <1>a DEF Proceed
  <2> QED
    BY <1>2, <1>a, <2>1, Proceeded
<1>5. ASSUME End(c), NEW L
      PROVE  MovesTo(c, L) /\ Keeps(c) /\ client'[c] = Idle
  BY <1>5, Ended DEF Keeps
<1>6. ASSUME Proceed(c), Tail(t) = <<>>
      PROVE  MovesTo(c, {}) /\ client'[c] = Idle
  <2>1. Follows(Req(c), Tail(t), {})
    BY <1>6 DEF Follows
  <2>2. MovesTo(c, {})
    BY <1>4, <1>6, <2>1
  <2> QED
    BY <2>2 DEF MovesTo
<1>7. Exists(c) => /\ MovesTo(c, {"store", "display"}) /\ Keeps(c) /\ Req(c).op = "patch"
                   /\ client'[c] # Idle => Key(c) \in DOMAIN store
  <2> SUFFICES ASSUME Exists(c)
               PROVE  /\ MovesTo(c, {"store", "display"}) /\ Keeps(c) /\ Req(c).op = "patch"
                      /\ client'[c] # Idle => Key(c) \in DOMAIN store
    OBVIOUS
  <2>1. Head(t) = "exists"
    BY DEF Exists, At
  <2>2. CASE Key(c) \in DOMAIN store /\ Proceed(c)
    BY <1>3, <1>4, <2>1, <2>2
  <2>3. CASE End(c)
    BY <1>3, <1>5, <2>1, <2>3
  <2> QED
    BY <2>2, <2>3 DEF Exists
<1>8. StoreValue(c) => /\ MovesTo(c, {"cache"}) /\ Keeps(c) /\ client'[c] # Idle
                       /\ Req(c).op \in {"add", "remove", "patch"}
  BY <1>3, <1>4, <1>a DEF StoreValue, At
<1>9. CacheValue(c) => /\ MovesTo(c, {"display"}) /\ Keeps(c)
                       /\ Req(c).op \in {"add", "remove", "patch", "post"}
  BY <1>3, <1>4 DEF CacheValue, At
<1>10. Create(c) => /\ MovesTo(c, {"cache"}) /\ Keeps(c) /\ Req(c).op = "post"
                   /\ IF Taken(Key(c)) THEN client'[c] = Idle ELSE client'[c] # Idle
  BY <1>3, <1>4, <1>5, <1>a DEF Create, At
<1>11. Drop(c) => MovesTo(c, {"uncache"}) /\ Keeps(c) /\ client'[c] # Idle /\ Req(c).op = "delete"
  BY <1>3, <1>4, <1>a DEF Drop, At
<1>12. SetDisplay(c) => MovesTo(c, {}) /\ client'[c] = Idle /\ Req(c).op = "patch"
  BY <1>3, <1>6 DEF SetDisplay, At
<1>13. Uncache(c) => MovesTo(c, {}) /\ client'[c] = Idle /\ Req(c).op = "delete"
  BY <1>3, <1>6 DEF Uncache, At
<1>14. WriteFails(c) => MovesTo(c, {}) /\ client'[c] = Idle /\ Req(c).op # "read"
  BY <1>3, <1>5 DEF WriteFails, At
<1> QED
  BY <1>7, <1>8, <1>9, <1>10, <1>11, <1>12, <1>13, <1>14

\* The other handlers are as they were, and a loaded server stays loaded; so
\* is the handler that steps, when it has kept its draft and has loaded.
LEMMA HandlersKept ==
  ASSUME Types, NEW c \in Clients, \A d \in Clients : HandlerOK(d), Busy(c), NEW L, MovesTo(c, L),
         \A s \in Servers : loaded[s] => loaded'[s],
         client'[c] # Idle =>
           /\ Req(c).op = "post" => client'[c].draft = client[c].draft
           /\ ~client'[c].blind /\ Place(c)' \notin {"load", "fetch", "install"} => loaded'[Server(c)]
  PROVE  \A d \in Clients : HandlerOK(d)'
<1>1. HandlerOK(c)'
  <2>1. CASE client'[c] = Idle
    BY <2>1, IdleIs DEF HandlerOK, Busy, Req
  <2>2. CASE client'[c] # Idle
    <3>1. Req(c)' = Req(c) /\ Server(c)' = Server(c) /\ client'[c].todo \in Suffixes(Req(c))
      BY <2>2 DEF MovesTo
    <3>2. Server(c) \in Servers /\ (Req(c).op = "post" => client[c].draft = Req(c).row.value)
      BY DEF HandlerOK
    <3> QED
      BY <2>2, <3>1, <3>2 DEF HandlerOK, Busy
  <2> QED
    BY <2>1, <2>2
<1>2. ASSUME NEW d \in Clients \ {c}
      PROVE  HandlerOK(d)'
  <2>1. client'[d] = client[d] /\ HandlerOK(d)
    BY DEF MovesTo
  <2> QED
    BY <2>1 DEF HandlerOK, Busy, Req, Server, Place
<1> QED
  BY <1>1, <1>2

-----------------------------------------------------------------------------
(* A trusted key stays written by one request at a time.                   *)

LEMMA ExclusiveKept ==
  ASSUME Types, NEW c \in Clients, Busy(c), NEW L, MovesTo(c, L),
         client'[c] # Idle => (Loading(c)' => Loading(c)),
         \A s \in Servers : (loaded[s] => loaded'[s]) /\ (loaded'[s] => loaded[s] \/ s = Server(c)),
         \A d \in Clients : HandlerOK(d),
         NEW s \in Servers, NEW k \in Keys, Exclusive(s, k)
  PROVE  Exclusive(s, k)'
<1>1. ASSUME NEW d \in Clients, Busy(d)'
      PROVE  /\ Busy(d) /\ Req(d)' = Req(d) /\ Server(d)' = Server(d)
             /\ WritesTo(d, k)' <=> WritesTo(d, k)
             /\ Loading(d)' => Loading(d)
  <2>1. CASE d = c
    <3>1. client'[c] # Idle
      BY <1>1, <2>1, IdleIs DEF Busy, Req
    <3>2. Req(c)' = Req(c) /\ Server(c)' = Server(c)
      BY <3>1 DEF MovesTo
    <3> QED
      BY <2>1, <3>1, <3>2 DEF WritesTo, BusyWriting, Key, Busy
  <2>2. CASE d # c
    <3>1. client'[d] = client[d]
      BY <2>2 DEF MovesTo
    <3>2. Busy(d) /\ Req(d)' = Req(d) /\ Server(d)' = Server(d)
      BY <1>1, <3>1 DEF Busy, Req, Server
    <3>3. Server(d) \in Servers
      BY <3>2 DEF HandlerOK
    <3>4. Loading(d)' => Loading(d)
      BY <3>1, <3>2, <3>3 DEF Loading
    <3> QED
      BY <3>2, <3>4 DEF WritesTo, BusyWriting, Key, Busy
  <2> QED
    BY <2>1, <2>2
<1>2. ASSUME NEW w \in Clients, WritesTo(w, k)'
      PROVE  /\ Server(w)' # s => ~loaded'[s]
             /\ \A d \in Clients \ {w} :
                  Busy(d)' /\ Server(d)' = s => Server(w)' = s /\ ~WritesTo(d, k)' /\ ~Loading(d)'
  <2>1. Busy(w)'
    BY <1>2 DEF WritesTo, BusyWriting
  <2>2. WritesTo(w, k) /\ Server(w)' = Server(w)
    BY <1>1, <1>2, <2>1
  <2>3. /\ Server(w) # s => ~loaded[s]
        /\ \A d \in Clients \ {w} :
             Busy(d) /\ Server(d) = s => Server(w) = s /\ ~WritesTo(d, k) /\ ~Loading(d)
    BY <2>2 DEF Exclusive
  <2>4. Server(w)' # s => ~loaded'[s]
    <3>1. SUFFICES ASSUME Server(w) # s, loaded'[s]
                   PROVE  FALSE
      BY <2>2
    <3>2. s = Server(c)
      BY <2>3, <3>1
    <3>3. c # w
      BY <3>1, <3>2
    <3> QED
      BY <2>3, <3>1, <3>2, <3>3
  <2>5. ASSUME NEW d \in Clients \ {w}, Busy(d)', Server(d)' = s
        PROVE  Server(w)' = s /\ ~WritesTo(d, k)' /\ ~Loading(d)'
    <3>1. /\ Busy(d) /\ Server(d) = s
          /\ WritesTo(d, k)' <=> WritesTo(d, k)
          /\ Loading(d)' => Loading(d)
      BY <1>1, <2>5
    <3>2. Server(w) = s /\ ~WritesTo(d, k) /\ ~Loading(d)
      BY <2>3, <3>1
    <3> QED
      BY <2>2, <3>1, <3>2
  <2> QED
    BY <2>4, <2>5
<1> QED
  BY <1>2 DEF Exclusive

-----------------------------------------------------------------------------
(* What the cache and the handlers hold stays right.                       *)

\* A handler that does not step holds what it held as long as the key has its
\* row and its value.
LEMMA OtherReads ==
  ASSUME NEW c \in Clients, NEW L, MovesTo(c, L), NEW d \in Clients \ {c},
         NEW s \in Servers, NEW k \in Keys, ReadHolds(d, s, k),
         Value(k)' = Value(k), k \in DOMAIN store' <=> k \in DOMAIN store
  PROVE  ReadHolds(d, s, k)'
<1>1. client'[d] = client[d]
  BY DEF MovesTo
<1>2. /\ Req(d)' = Req(d) /\ Server(d)' = Server(d) /\ Place(d)' = Place(d) /\ (Busy(d)' <=> Busy(d))
      /\ WritesTo(d, k)' <=> WritesTo(d, k)
      /\ Edited(d, Value(k))' = Edited(d, Value(k))
  BY <1>1 DEF Req, Server, Place, Busy, WritesTo, BusyWriting, Key, Edited
<1> QED
  BY <1>1, <1>2 DEF ReadHolds

\* The cache of a server a step leaves alone.
LEMMA CacheStays ==
  ASSUME Types, NEW c \in Clients, Busy(c), NEW L, MovesTo(c, L),
         NEW s \in Servers, NEW k \in Keys, CacheHolds(s, k),
         loaded'[s] = loaded[s], Lookup(cache'[s], k) = Lookup(cache[s], k), Value(k)' = Value(k),
         WritesTo(c, k) /\ Server(c) = s => Place(c) \notin {"cache", "uncache"}
  PROVE  CacheHolds(s, k)'
<1> SUFFICES ASSUME loaded'[s],
                    \A d \in Clients : WritesTo(d, k)' /\ Server(d)' = s => Place(d)' \notin {"cache", "uncache"}
             PROVE  Lookup(cache'[s], k) = Value(k)'
  BY DEF CacheHolds, Lookup
<1>1. ASSUME NEW d \in Clients, WritesTo(d, k), Server(d) = s
      PROVE  Place(d) \notin {"cache", "uncache"}
  <2>1. CASE d = c
    BY <1>1, <2>1
  <2>2. CASE d # c
    <3>1. client'[d] = client[d]
      BY <2>2 DEF MovesTo
    <3>2. WritesTo(d, k)' /\ Server(d)' = s /\ Place(d)' = Place(d)
      BY <1>1, <3>1 DEF Req, Server, Place, Busy, WritesTo, BusyWriting, Key
    <3> QED
      BY <3>2
  <2> QED
    BY <2>1, <2>2
<1> QED
  BY <1>1 DEF CacheHolds

HandlersOK == \A c \in Clients : HandlerOK(c)

\* A step of a handler preserves the invariant when it preserves what is held
\* of the keys that are trusted.
LEMMA StepKeeps ==
  ASSUME Types, HandlersOK, PairsOK, NEW c \in Clients, Busy(c), NEW L, MovesTo(c, L),
         client'[c] # Idle =>
           /\ Loading(c)' => Loading(c)
           /\ Req(c).op = "post" => client'[c].draft = client[c].draft
           /\ ~client'[c].blind /\ Place(c)' \notin {"load", "fetch", "install"} => loaded'[Server(c)],
         \A s \in Servers : (loaded[s] => loaded'[s]) /\ (loaded'[s] => loaded[s] \/ s = Server(c)),
         suspect \subseteq suspect',
         \A s \in Servers, k \in Keys :
           Trusted(s, k)' /\ Exclusive(s, k) /\ Holds(s, k) => Holds(s, k)'
  PROVE  HandlersOK' /\ PairsOK'
<1>1. HandlersOK'
  BY HandlersKept DEF HandlersOK
<1>2. ASSUME NEW s \in Servers, NEW k \in Keys, Trusted(s, k)'
      PROVE  Exclusive(s, k)' /\ Holds(s, k)'
  <2>1. Exclusive(s, k) /\ Holds(s, k)
    BY <1>2 DEF PairsOK, Trusted
  <2>2. Exclusive(s, k)'
    BY <2>1, ExclusiveKept DEF HandlersOK
  <2> QED
    BY <1>2, <2>1, <2>2
<1> QED
  BY <1>1, <1>2 DEF PairsOK

\* A step that touches neither the table nor a cache.
LEMMA LocalKeeps ==
  ASSUME Types, HandlersOK, PairsOK, NEW c \in Clients, Busy(c), NEW L, MovesTo(c, L),
         store' = store, cache' = cache, loaded' = loaded, suspect' = suspect,
         Place(c) \notin {"cache", "uncache"},
         client'[c] # Idle =>
           /\ Loading(c)' => Loading(c)
           /\ Req(c).op = "post" => client'[c].draft = client[c].draft
           /\ ~client'[c].blind /\ Place(c)' \notin {"load", "fetch", "install"} => loaded'[Server(c)],
         \A s \in Servers, k \in Keys :
           Trusted(s, k) /\ Exclusive(s, k) /\ Holds(s, k) => ReadHolds(c, s, k)'
  PROVE  HandlersOK' /\ PairsOK'
<1>1. ASSUME NEW s \in Servers, NEW k \in Keys, Trusted(s, k)', Exclusive(s, k), Holds(s, k)
      PROVE  Holds(s, k)'
  <2>1. Value(k)' = Value(k)
    BY DEF Value
  <2>2. \A d \in Clients \ {c} : ReadHolds(d, s, k)'
    BY <1>1, <2>1, OtherReads DEF Holds
  <2>3. ReadHolds(c, s, k)'
    BY <1>1 DEF Trusted
  <2>4. CacheHolds(s, k)'
    <3>1. Lookup(cache'[s], k) = Lookup(cache[s], k)
      BY Zenon
    <3> QED
      BY <1>1, <2>1, <3>1, CacheStays DEF Holds
  <2> QED
    BY <2>2, <2>3, <2>4 DEF Holds
<1> QED
  BY <1>1, StepKeeps

\* A handler that has not begun to write, and has nothing to install, holds
\* nothing that could be wrong.
LEMMA NothingRead ==
  ASSUME NEW c \in Clients, NEW L, MovesTo(c, L), NEW s \in Servers, NEW k \in Keys,
         client'[c] = Idle \/ L \subseteq {"load", "fetch"} \cup Composing
  PROVE  ReadHolds(c, s, k)'
<1>1. CASE client'[c] = Idle
  BY <1>1, IdleIs DEF ReadHolds, Busy, Req
<1>2. CASE client'[c] # Idle
  <2>1. Place(c)' \notin {"install", "cache", "uncache", "store", "display"}
    BY <1>2 DEF MovesTo, Composing
  <2> QED
    BY <2>1 DEF ReadHolds
<1> QED
  BY <1>1, <1>2

LEMMA LoadKeeps ==
  ASSUME Types, HandlersOK, PairsOK, NEW c \in Clients, Load(c)
  PROVE  HandlersOK' /\ PairsOK'
<1>1. /\ Busy(c) /\ Place(c) = "load"
      /\ store' = store /\ cache' = cache /\ loaded' = loaded /\ suspect' = suspect
  BY DEF Load, At, Place
<1>2. /\ MovesTo(c, {"fetch"} \cup Composing)
      /\ client'[c] # Idle => /\ client'[c].draft = client[c].draft
                              /\ client'[c].blind = client[c].blind
                              /\ Place(c)' = "fetch" => ~loaded[Server(c)]
                              /\ Place(c)' # "fetch" => loaded[Server(c)]
  BY LoadMoves DEF HandlersOK
<1>3. client'[c] # Idle =>
        /\ Loading(c)' => Loading(c)
        /\ Req(c).op = "post" => client'[c].draft = client[c].draft
        /\ ~client'[c].blind /\ Place(c)' \notin {"load", "fetch", "install"} => loaded'[Server(c)]
  BY <1>1, <1>2 DEF Loading, Place, MovesTo, Composing
<1>4. \A s \in Servers, k \in Keys : ReadHolds(c, s, k)'
  BY <1>2, NothingRead
<1> QED
  BY <1>1, <1>2, <1>3, <1>4, LocalKeeps

LEMMA FetchKeeps ==
  ASSUME Types, HandlersOK, PairsOK, NEW c \in Clients, Fetch(c)
  PROVE  HandlersOK' /\ PairsOK'
<1>1. /\ Busy(c) /\ Place(c) = "fetch"
      /\ store' = store /\ cache' = cache /\ loaded' = loaded /\ suspect' = suspect
  BY DEF Fetch, At, Place
<1>2. /\ MovesTo(c, {"install"})
      /\ client'[c] # Idle => client'[c].draft = client[c].draft /\ client'[c].seen = All
  BY FetchMoves DEF HandlersOK
<1>3. client'[c] # Idle =>
        /\ Loading(c)' => Loading(c)
        /\ Req(c).op = "post" => client'[c].draft = client[c].draft
        /\ ~client'[c].blind /\ Place(c)' \notin {"load", "fetch", "install"} => loaded'[Server(c)]
  BY <1>1, <1>2 DEF Loading, Place, MovesTo
<1>4. ASSUME NEW s \in Servers, NEW k \in Keys
      PROVE  ReadHolds(c, s, k)'
  <2>1. CASE client'[c] = Idle
    BY <1>2, <2>1, NothingRead
  <2>2. CASE client'[c] # Idle
    <3>1. Place(c)' = "install"
      BY <1>2, <2>2 DEF MovesTo
    <3>2. Lookup(client'[c].seen, k) = Value(k)
      BY <1>2, <2>2, TableTypes
    <3>3. Value(k)' = Value(k)
      BY <1>1 DEF Value
    <3> QED
      BY <3>1, <3>2, <3>3 DEF ReadHolds, Lookup
  <2> QED
    BY <2>1, <2>2
<1> QED
  BY <1>1, <1>2, <1>3, <1>4, LocalKeeps

LEMMA FetchFailsKeeps ==
  ASSUME Types, HandlersOK, PairsOK, NEW c \in Clients, FetchFails(c)
  PROVE  HandlersOK' /\ PairsOK'
<1>1. /\ Busy(c) /\ Place(c) = "fetch"
      /\ store' = store /\ cache' = cache /\ loaded' = loaded /\ suspect' = suspect
  BY DEF FetchFails, At, Place
<1>2. /\ MovesTo(c, Composing)
      /\ client'[c] # Idle => client'[c].draft = client[c].draft /\ client'[c].blind
  BY FetchFailsMoves DEF HandlersOK
<1>3. client'[c] # Idle =>
        /\ Loading(c)' => Loading(c)
        /\ Req(c).op = "post" => client'[c].draft = client[c].draft
        /\ ~client'[c].blind /\ Place(c)' \notin {"load", "fetch", "install"} => loaded'[Server(c)]
  BY <1>1, <1>2 DEF Loading, Place, MovesTo
<1>4. \A s \in Servers, k \in Keys : ReadHolds(c, s, k)'
  BY <1>2, NothingRead
<1> QED
  BY <1>1, <1>2, <1>3, <1>4, LocalKeeps

LEMMA InstallKeeps ==
  ASSUME Types, HandlersOK, PairsOK, NEW c \in Clients, Install(c)
  PROVE  HandlersOK' /\ PairsOK'
<1>1. /\ Busy(c) /\ Place(c) = "install" /\ Server(c) \in Servers
      /\ store' = store /\ suspect' = suspect
  BY DEF Install, At, Place, HandlersOK, HandlerOK
<1>2. /\ MovesTo(c, Composing)
      /\ client'[c] # Idle => client'[c].draft = client[c].draft
  BY InstallMoves DEF HandlersOK
<1>3. /\ cache' = [cache EXCEPT ![Server(c)] = client[c].seen]
      /\ loaded' = [loaded EXCEPT ![Server(c)] = TRUE]
  BY DEF Install
<1>4. /\ cache'[Server(c)] = client[c].seen /\ loaded'[Server(c)]
      /\ \A s \in Servers \ {Server(c)} : cache'[s] = cache[s] /\ loaded'[s] = loaded[s]
  BY <1>1, <1>3 DEF Types
<1>5. client'[c] # Idle =>
        /\ Loading(c)' => Loading(c)
        /\ Req(c).op = "post" => client'[c].draft = client[c].draft
        /\ ~client'[c].blind /\ Place(c)' \notin {"load", "fetch", "install"} => loaded'[Server(c)]
  BY <1>1, <1>2, <1>4 DEF Loading, Place, MovesTo
<1>6. ASSUME NEW s \in Servers, NEW k \in Keys, Holds(s, k)
      PROVE  Holds(s, k)'
  <2>1. Value(k)' = Value(k)
    BY <1>1 DEF Value
  <2>2. \A d \in Clients \ {c} : ReadHolds(d, s, k)'
    BY <1>1, <1>2, <1>6, <2>1, OtherReads DEF Holds
  <2>3. ReadHolds(c, s, k)'
    BY <1>2, NothingRead
  <2>4. CacheHolds(s, k)'
    <3>1. CASE s = Server(c)
      <4>1. Lookup(cache'[s], k) = Value(k)
        BY <1>1, <1>4, <1>6, <3>1 DEF Holds, ReadHolds
      <4> QED
        BY <2>1, <4>1 DEF CacheHolds, Lookup
    <3>2. CASE s # Server(c)
      <4>1. loaded'[s] = loaded[s] /\ Lookup(cache'[s], k) = Lookup(cache[s], k)
        BY <1>4, <3>2
      <4> QED
        BY <1>1, <1>2, <1>6, <2>1, <4>1, CacheStays DEF Holds
    <3> QED
      BY <3>1, <3>2
  <2> QED
    BY <2>2, <2>3, <2>4 DEF Holds
<1>7. \A s \in Servers : (loaded[s] => loaded'[s]) /\ (loaded'[s] => loaded[s] \/ s = Server(c))
  BY <1>4
<1> QED
  BY <1>1, <1>2, <1>5, <1>6, <1>7, StepKeeps

\* What StepKeeps asks of a handler that is past its load.
LEMMA PastLoad ==
  ASSUME HandlersOK, NEW c \in Clients, Busy(c), Place(c) \notin {"load", "fetch", "install"},
         NEW L, MovesTo(c, L), {"load", "fetch", "install"} \cap L = {}, loaded' = loaded,
         client'[c] # Idle =>
           /\ client'[c].blind = client[c].blind
           /\ Req(c).op = "post" => client'[c].draft = client[c].draft
  PROVE  client'[c] # Idle =>
           /\ Loading(c)' => Loading(c)
           /\ Req(c).op = "post" => client'[c].draft = client[c].draft
           /\ ~client'[c].blind /\ Place(c)' \notin {"load", "fetch", "install"} => loaded'[Server(c)]
<1> SUFFICES ASSUME client'[c] # Idle
             PROVE  ~Loading(c)' /\ (~client[c].blind => loaded[Server(c)])
  OBVIOUS
<1>1. Place(c)' \notin {"load", "fetch", "install"}
  BY DEF MovesTo
<1> QED
  BY <1>1 DEF HandlersOK, HandlerOK, Loading, Place

LEMMA ComposeKeeps ==
  ASSUME Types, HandlersOK, PairsOK, NEW c \in Clients, ComposeAdd(c) \/ ComposeRemove(c)
  PROVE  HandlersOK' /\ PairsOK'
<1>1. /\ Busy(c) /\ Place(c) = "compose"
      /\ store' = store /\ cache' = cache /\ loaded' = loaded /\ suspect' = suspect
  BY DEF ComposeAdd, ComposeRemove, At, Place
<1>2. /\ MovesTo(c, {"store"})
      /\ Req(c).op \in {"add", "remove"}
      /\ client'[c] # Idle => client'[c].draft = Edited(c, Get(c)) /\ client'[c].blind = client[c].blind
  BY ComposeMoves DEF HandlersOK
<1>3. client'[c] # Idle =>
        /\ Loading(c)' => Loading(c)
        /\ Req(c).op = "post" => client'[c].draft = client[c].draft
        /\ ~client'[c].blind /\ Place(c)' \notin {"load", "fetch", "install"} => loaded'[Server(c)]
  BY <1>1, <1>2, PastLoad
<1>4. ASSUME NEW s \in Servers, NEW k \in Keys, Exclusive(s, k), Holds(s, k)
      PROVE  ReadHolds(c, s, k)'
  <2>1. CASE client'[c] = Idle
    BY <1>2, <2>1, NothingRead
  <2>2. CASE client'[c] # Idle
    <3>1. /\ Place(c)' = "store" /\ Req(c)' = Req(c) /\ Server(c)' = Server(c)
          /\ WritesTo(c, k)' <=> (Writes(Req(c)) /\ Key(c) = k /\ Busy(c)')
      BY <1>2, <2>2 DEF MovesTo, WritesTo, BusyWriting, Key
    <3>2. ASSUME Server(c) = s, Key(c) = k, ~client[c].blind
          PROVE  Get(c) = Value(k)
      <4>1. WritesTo(c, k)
        BY <1>1, <1>2, <3>2 DEF WritesTo, BusyWriting, Writes
      <4>2. loaded[s]
        BY <1>1, <3>2 DEF HandlersOK, HandlerOK
      <4>3. ASSUME NEW d \in Clients, WritesTo(d, k), Server(d) = s
            PROVE  Place(d) \notin {"cache", "uncache"}
        BY <1>1, <1>4, <3>2, <4>1, <4>3 DEF Exclusive, WritesTo, BusyWriting
      <4>4. Lookup(cache[s], k) = Value(k)
        BY <1>4, <4>2, <4>3 DEF Holds, CacheHolds
      <4> QED
        BY <3>2, <4>4 DEF Get
    <3>3. Value(k)' = Value(k) /\ Edited(c, Value(k))' = Edited(c, Value(k))
      BY <1>1, <3>1 DEF Value, Edited
    <3>4. Req(c)'.op # "patch"
      BY <1>2, <3>1
    <3> QED
      BY <1>2, <2>2, <3>1, <3>2, <3>3, <3>4 DEF ReadHolds
  <2> QED
    BY <2>1, <2>2
<1> QED
  BY <1>1, <1>2, <1>3, <1>4, LocalKeeps

LEMMA ExistsKeeps ==
  ASSUME Types, HandlersOK, PairsOK, NEW c \in Clients, Exists(c)
  PROVE  HandlersOK' /\ PairsOK'
<1>1. /\ Busy(c) /\ Place(c) = "exists"
      /\ store' = store /\ cache' = cache /\ loaded' = loaded /\ suspect' = suspect
  BY DEF Exists, At, Place
<1>2. /\ MovesTo(c, {"store", "display"}) /\ Keeps(c) /\ Req(c).op = "patch"
      /\ client'[c] # Idle => Key(c) \in DOMAIN store
  BY <1>1, WriteMoves DEF HandlersOK
<1>3. client'[c] # Idle =>
        /\ Loading(c)' => Loading(c)
        /\ Req(c).op = "post" => client'[c].draft = client[c].draft
        /\ ~client'[c].blind /\ Place(c)' \notin {"load", "fetch", "install"} => loaded'[Server(c)]
  BY <1>1, <1>2, PastLoad DEF Keeps
<1>4. ASSUME NEW s \in Servers, NEW k \in Keys
      PROVE  ReadHolds(c, s, k)'
  <2>1. CASE client'[c] = Idle
    BY <1>2, <2>1, NothingRead
  <2>2. CASE client'[c] # Idle
    <3>1. Place(c)' \in {"store", "display"} /\ Req(c)' = Req(c)
      BY <1>2, <2>2 DEF MovesTo
    <3>2. WritesTo(c, k)' => k \in DOMAIN store'
      BY <1>1, <1>2, <2>2, <3>1 DEF WritesTo, Key
    <3> QED
      BY <1>2, <3>1, <3>2 DEF ReadHolds
  <2> QED
    BY <2>1, <2>2
<1> QED
  BY <1>1, <1>2, <1>3, <1>4, LocalKeeps

\* A write of the table: other keys are not touched, other servers have no
\* copy of a trusted key and fetch none, and other handlers hold nothing of it.
LEMMA StoreKeeps ==
  ASSUME Types, HandlersOK, PairsOK, NEW c \in Clients, BusyWriting(c),
         Place(c) \in {"store", "create", "display", "drop"},
         NEW L, MovesTo(c, L), L \subseteq {"cache", "uncache"}, Keeps(c),
         cache' = cache, loaded' = loaded, suspect \subseteq suspect',
         \A k \in Keys \ {Key(c)} :
           Value(k)' = Value(k) /\ (k \in DOMAIN store' <=> k \in DOMAIN store),
         \A s \in Servers, k \in Keys :
           s = Server(c) /\ k = Key(c) /\ Trusted(s, k)' /\ Holds(s, k) =>
             CacheHolds(s, k)' /\ ReadHolds(c, s, k)'
  PROVE  HandlersOK' /\ PairsOK'
<1>1. Busy(c) /\ WritesTo(c, Key(c))
  BY DEF BusyWriting, WritesTo
<1>2. client'[c] # Idle =>
        /\ Loading(c)' => Loading(c)
        /\ Req(c).op = "post" => client'[c].draft = client[c].draft
        /\ ~client'[c].blind /\ Place(c)' \notin {"load", "fetch", "install"} => loaded'[Server(c)]
  BY <1>1, PastLoad DEF Keeps
<1>3. client'[c] # Idle => /\ Req(c)' = Req(c) /\ Server(c)' = Server(c) /\ Key(c)' = Key(c)
                          /\ Place(c)' \in {"cache", "uncache"}
  BY DEF MovesTo, Key
<1>4. client'[c] = Idle => ~Busy(c)'
  BY IdleIs DEF Busy, Req
<1>5. ASSUME NEW s \in Servers, NEW k \in Keys, Trusted(s, k)', Exclusive(s, k), Holds(s, k)
      PROVE  Holds(s, k)'
  <2>1. CASE k # Key(c)
    <3>1. Value(k)' = Value(k) /\ (k \in DOMAIN store' <=> k \in DOMAIN store)
      BY <2>1
    <3>2. \A d \in Clients \ {c} : ReadHolds(d, s, k)'
      BY <1>5, <3>1, OtherReads DEF Holds
    <3>3. ReadHolds(c, s, k)'
      BY <1>3, <1>4, <2>1 DEF ReadHolds, WritesTo
    <3>4. CacheHolds(s, k)'
      <4>1. Lookup(cache'[s], k) = Lookup(cache[s], k)
        BY Zenon
      <4> QED
        BY <1>1, <1>5, <3>1, <4>1, CacheStays DEF Holds
    <3> QED
      BY <3>2, <3>3, <3>4 DEF Holds
  <2>2. CASE k = Key(c) /\ s # Server(c)
    <3>1. /\ ~loaded[s]
          /\ \A d \in Clients \ {c} : ~(Busy(d) /\ Server(d) = s)
      BY <1>1, <1>5, <2>2 DEF Exclusive
    <3>2. CacheHolds(s, k)'
      BY <3>1 DEF CacheHolds
    <3>3. ReadHolds(c, s, k)'
      BY <1>3, <1>4, <2>2 DEF ReadHolds
    <3>4. ASSUME NEW d \in Clients \ {c}
          PROVE  ReadHolds(d, s, k)'
      BY <3>1 DEF ReadHolds, MovesTo, Busy, Req, Server
    <3> QED
      BY <3>2, <3>3, <3>4 DEF Holds
  <2>3. CASE k = Key(c) /\ s = Server(c)
    <3>1. \A d \in Clients \ {c} : Busy(d) /\ Server(d) = s => ~WritesTo(d, k) /\ ~Loading(d)
      BY <1>1, <1>5, <2>3 DEF Exclusive
    <3>2. CacheHolds(s, k)' /\ ReadHolds(c, s, k)'
      BY <1>5, <2>3
    <3>3. ASSUME NEW d \in Clients \ {c}
          PROVE  ReadHolds(d, s, k)'
      <4>1. client'[d] = client[d]
        BY DEF MovesTo
      <4>2. /\ Server(d)' = Server(d) /\ Place(d)' = Place(d) /\ (Busy(d)' <=> Busy(d))
            /\ WritesTo(d, k)' <=> WritesTo(d, k)
        BY <4>1 DEF Req, Server, Place, Busy, WritesTo, BusyWriting, Key
      <4>3. ~Loading(d) => Place(d) # "install"
        BY DEF Loading, Place
      <4> QED
        BY <3>1, <4>2, <4>3 DEF ReadHolds
    <3> QED
      BY <3>2, <3>3 DEF Holds
  <2> QED
    BY <2>1, <2>2, <2>3
<1>6. \A s \in Servers : (loaded[s] => loaded'[s]) /\ (loaded'[s] => loaded[s] \/ s = Server(c))
  OBVIOUS
<1> QED
  BY <1>1, <1>2, <1>5, <1>6, StepKeeps

\* The rows the statements write: those of one key.
Touches(new, k) ==
  /\ new \in Tables(Rows)
  /\ \A j \in (DOMAIN store \cup DOMAIN new) \ {k} :
       j \in DOMAIN store /\ j \in DOMAIN new /\ new[j] = store[j]

LEMMA PutIs ==
  ASSUME Types, NEW k \in Keys, NEW row \in Rows
  PROVE  LET new == Put(store, k, row) IN Touches(new, k) /\ k \in DOMAIN new /\ new[k] = row
<1> DEFINE new == Put(store, k, row)
<1>1. PICK K \in SUBSET Keys : store \in [K -> Rows]
  BY DEF Types, Tables
<1>2. new \in [K \cup {k} -> Rows]
  BY <1>1 DEF Put
<1>3. new \in Tables(Rows)
  BY <1>1, <1>2 DEF Tables
<1>4. /\ \A j \in (DOMAIN store \cup DOMAIN new) \ {k} :
            j \in DOMAIN store /\ j \in DOMAIN new /\ new[j] = store[j]
      /\ k \in DOMAIN new /\ new[k] = row
  BY DEF Put
<1> QED
  BY <1>3, <1>4 DEF Touches

LEMMA UpsertedIs ==
  ASSUME Types, NEW k \in Keys, NEW v \in Contents
  PROVE  LET new == Upserted(k, v) IN Touches(new, k) /\ k \in DOMAIN new /\ new[k].value = v
<1> DEFINE new == Upserted(k, v)
<1>1. PICK K \in SUBSET Keys : store \in [K -> Rows]
  BY DEF Types, Tables
<1>2. CASE k \in DOMAIN store
  <2>1. new = [store EXCEPT ![k] = [store[k] EXCEPT !.value = v]]
    BY <1>1, <1>2 DEF Upserted
  <2>2. [store[k] EXCEPT !.value = v] \in Rows /\ [store[k] EXCEPT !.value = v].value = v
    BY <1>1, <1>2 DEF Rows
  <2> HIDE DEF new
  <2>3. new \in [K -> Rows] /\ new[k].value = v /\ \A j \in K \ {k} : new[j] = store[j]
    BY <1>1, <1>2, <2>1, <2>2
  <2>4. Touches(new, k) /\ k \in DOMAIN new
    BY <1>1, <1>2, <2>3 DEF Tables, Touches
  <2> QED
    BY <2>3, <2>4 DEF new
<1>3. CASE k \notin DOMAIN store
  <2> DEFINE row == [value |-> v, display |-> FALSE]
  <2>1. new = Put(store, k, row)
    BY <1>3 DEF Upserted
  <2>2. row \in Rows /\ row.value = v
    BY DEF Rows
  <2> HIDE DEF row, new
  <2>3. Touches(new, k) /\ k \in DOMAIN new /\ new[k] = row
    BY <2>1, <2>2, PutIs
  <2> QED
    BY <2>2, <2>3 DEF new
<1> QED
  BY <1>2, <1>3

LEMMA WithoutIs ==
  ASSUME Types, NEW k \in Keys
  PROVE  Touches(Without(store, k), k) /\ k \notin DOMAIN Without(store, k)
<1>1. PICK K \in SUBSET Keys : store \in [K -> Rows]
  BY DEF Types, Tables
<1>2. Without(store, k) \in [K \ {k} -> Rows] /\ K \ {k} \in SUBSET Keys
  BY <1>1 DEF Without
<1> QED
  BY <1>1, <1>2 DEF Without, Tables, Touches

\* A table that has not moved.
LEMMA SameTable ==
  ASSUME Types, NEW k \in Keys
  PROVE  Touches(store, k)
BY DEF Types, Tables, Touches

\* Opting in or out leaves the value as it is, when the row is still there.
LEMMA DisplayedIs ==
  ASSUME Types, NEW k \in Keys, NEW b \in BOOLEAN
  PROVE  LET new == Displayed(k, b) IN
           /\ Touches(new, k)
           /\ k \in DOMAIN store => k \in DOMAIN new /\ new[k].value = store[k].value
           /\ ~b => (k \in DOMAIN store <=> k \in DOMAIN new)
<1> DEFINE new == Displayed(k, b)
<1>1. PICK K \in SUBSET Keys : store \in [K -> Rows]
  BY DEF Types, Tables
<1>2. CASE k \in DOMAIN store
  <2>1. new = [store EXCEPT ![k] = [store[k] EXCEPT !.display = b]]
    BY <1>1, <1>2 DEF Displayed
  <2>2. [store[k] EXCEPT !.display = b] \in Rows
    BY <1>1, <1>2, Zenon DEF Rows
  <2>3. [store[k] EXCEPT !.display = b].value = store[k].value
    BY <1>1, <1>2 DEF Rows
  <2> HIDE DEF new
  <2>4. new \in [K -> Rows] /\ new[k].value = store[k].value /\ \A j \in K \ {k} : new[j] = store[j]
    BY <1>1, <1>2, <2>1, <2>2, <2>3
  <2>5. Touches(new, k) /\ k \in DOMAIN new
    BY <1>1, <1>2, <2>4 DEF Tables, Touches
  <2> QED
    BY <1>2, <2>4, <2>5 DEF new
<1>3. CASE k \notin DOMAIN store /\ b
  <2> DEFINE row == [value |-> {}, display |-> TRUE]
  <2>1. new = Put(store, k, row)
    BY <1>3 DEF Displayed
  <2>2. row \in Rows
    BY DEF Rows, Contents
  <2> HIDE DEF row, new
  <2>3. Touches(new, k)
    BY <2>1, <2>2, PutIs
  <2> QED
    BY <1>3, <2>3 DEF new
<1>4. CASE k \notin DOMAIN store /\ ~b
  <2>1. new = store
    BY <1>4 DEF Displayed
  <2>2. Touches(store, k)
    BY <1>1 DEF Touches, Tables
  <2> QED
    BY <1>4, <2>1, <2>2
<1> QED
  BY <1>2, <1>3, <1>4

LEMMA OtherRows ==
  ASSUME NEW K, Touches(store', K)
  PROVE  \A k \in Keys \ {K} :
           Value(k)' = Value(k) /\ (k \in DOMAIN store' <=> k \in DOMAIN store)
<1> TAKE k \in Keys \ {K}
<1>1. k \in DOMAIN store' <=> k \in DOMAIN store
  BY DEF Touches
<1>2. k \in DOMAIN store => store'[k] = store[k]
  BY DEF Touches
<1> QED
  BY <1>1, <1>2 DEF Value

\* Who writes, and what.
LEMMA WriterIs ==
  ASSUME Types, HandlersOK, NEW c \in Clients, Busy(c), Req(c).op # "read"
  PROVE  /\ BusyWriting(c) /\ Key(c) \in Keys /\ client[c].draft \in Contents /\ Server(c) \in Servers
         /\ Req(c) \in Requests
<1>1. Req(c) \in Requests /\ Server(c) \in Servers /\ client[c] \in Handlers
  BY BusyIs DEF HandlersOK
<1> QED
  BY <1>1, RequestKinds DEF BusyWriting, Writes, Key, Handlers

LEMMA StoreValueKeeps ==
  ASSUME Types, HandlersOK, PairsOK, NEW c \in Clients, StoreValue(c)
  PROVE  HandlersOK' /\ PairsOK'
<1>1. /\ Busy(c) /\ Place(c) = "store"
      /\ store' = Upserted(Key(c), client[c].draft)
      /\ cache' = cache /\ loaded' = loaded /\ suspect' = suspect
  BY DEF StoreValue, At, Place
<1>2. /\ MovesTo(c, {"cache"}) /\ Keeps(c) /\ client'[c] # Idle
      /\ Req(c).op \in {"add", "remove", "patch"}
  BY <1>1, WriteMoves DEF HandlersOK
<1>3. BusyWriting(c) /\ Key(c) \in Keys /\ client[c].draft \in Contents
  BY <1>1, <1>2, WriterIs
<1>4. Touches(store', Key(c)) /\ Key(c) \in DOMAIN store' /\ store'[Key(c)].value = client[c].draft
  BY <1>1, <1>3, UpsertedIs
<1>5. \A k \in Keys \ {Key(c)} :
        Value(k)' = Value(k) /\ (k \in DOMAIN store' <=> k \in DOMAIN store)
  BY <1>4, OtherRows
<1>6. ASSUME NEW s \in Servers, NEW k \in Keys, s = Server(c), k = Key(c)
      PROVE  CacheHolds(s, k)' /\ ReadHolds(c, s, k)'
  <2>1. Place(c)' = "cache" /\ Server(c)' = s /\ Req(c)' = Req(c) /\ client'[c].draft = client[c].draft
    BY <1>2, <1>6 DEF MovesTo, Keeps
  <2>2. Value(k)' = client[c].draft /\ k \in DOMAIN store'
    BY <1>4, <1>6 DEF Value
  <2>3. WritesTo(c, k)'
    <3>1. Req(c) \in Requests
      BY <1>1, <1>2, WriterIs
    <3> QED
      BY <1>3, <1>6, <2>1, <3>1, ConstantsAssumption DEF WritesTo, BusyWriting, Key, Busy
  <2> QED
    BY <2>1, <2>2, <2>3 DEF CacheHolds, ReadHolds
<1> QED
  BY <1>1, <1>2, <1>3, <1>5, <1>6, StoreKeeps

LEMMA CreateKeeps ==
  ASSUME Types, HandlersOK, PairsOK, NEW c \in Clients, Create(c)
  PROVE  HandlersOK' /\ PairsOK'
<1>1. /\ Busy(c) /\ Place(c) = "create"
      /\ cache' = cache /\ loaded' = loaded /\ suspect' = suspect
  BY DEF Create, At, Place
<1>2. /\ MovesTo(c, {"cache"}) /\ Keeps(c) /\ Req(c).op = "post"
      /\ IF Taken(Key(c)) THEN client'[c] = Idle ELSE client'[c] # Idle
  BY <1>1, WriteMoves DEF HandlersOK
<1>3. BusyWriting(c) /\ Key(c) \in Keys /\ Req(c) \in Requests
  BY <1>1, <1>2, WriterIs
<1>4. CASE Taken(Key(c))
  <2>1. store' = store /\ client'[c] = Idle
    BY <1>2, <1>4 DEF Create
  <2>2. \A s \in Servers, k \in Keys : ReadHolds(c, s, k)'
    BY <1>2, <2>1, NothingRead
  <2> QED
    BY <1>1, <1>2, <2>1, <2>2, LocalKeeps
<1>5. CASE ~Taken(Key(c))
  <2>1. store' = Put(store, Key(c), Req(c).row) /\ client'[c] # Idle /\ Req(c).row \in Rows
    BY <1>2, <1>3, <1>5, RequestKinds DEF Create
  <2>2. Touches(store', Key(c)) /\ Key(c) \in DOMAIN store' /\ store'[Key(c)] = Req(c).row
    BY <1>3, <2>1, PutIs
  <2>3. \A k \in Keys \ {Key(c)} :
          Value(k)' = Value(k) /\ (k \in DOMAIN store' <=> k \in DOMAIN store)
    BY <2>2, OtherRows
  <2>4. ASSUME NEW s \in Servers, NEW k \in Keys, s = Server(c), k = Key(c)
        PROVE  CacheHolds(s, k)' /\ ReadHolds(c, s, k)'
    <3>1. /\ Place(c)' = "cache" /\ Server(c)' = s /\ Req(c)' = Req(c)
          /\ client'[c].draft = client[c].draft
      BY <1>2, <2>1, <2>4 DEF MovesTo, Keeps
    <3>2. Value(k)' = Req(c).row.value
      BY <2>2, <2>4 DEF Value
    <3>3. client[c].draft = Req(c).row.value
      BY <1>1, <1>2 DEF HandlersOK, HandlerOK
    <3>4. WritesTo(c, k)'
      BY <1>3, <2>4, <3>1, ConstantsAssumption DEF WritesTo, BusyWriting, Key, Busy
    <3> QED
      BY <1>2, <3>1, <3>2, <3>3, <3>4 DEF CacheHolds, ReadHolds
  <2> QED
    BY <1>1, <1>2, <1>3, <2>3, <2>4, StoreKeeps
<1> QED
  BY <1>4, <1>5

LEMMA DropKeeps ==
  ASSUME Types, HandlersOK, PairsOK, NEW c \in Clients, Drop(c)
  PROVE  HandlersOK' /\ PairsOK'
<1>1. /\ Busy(c) /\ Place(c) = "drop" /\ store' = Without(store, Key(c))
      /\ cache' = cache /\ loaded' = loaded /\ suspect' = suspect
  BY DEF Drop, At, Place
<1>2. /\ MovesTo(c, {"uncache"}) /\ Keeps(c) /\ client'[c] # Idle /\ Req(c).op = "delete"
  BY <1>1, WriteMoves DEF HandlersOK
<1>3. BusyWriting(c) /\ Key(c) \in Keys /\ Req(c) \in Requests
  BY <1>1, <1>2, WriterIs
<1>4. Touches(store', Key(c)) /\ Key(c) \notin DOMAIN store'
  BY <1>1, <1>3, WithoutIs
<1>5. \A k \in Keys \ {Key(c)} :
        Value(k)' = Value(k) /\ (k \in DOMAIN store' <=> k \in DOMAIN store)
  BY <1>4, OtherRows
<1>6. ASSUME NEW s \in Servers, NEW k \in Keys, s = Server(c), k = Key(c)
      PROVE  CacheHolds(s, k)' /\ ReadHolds(c, s, k)'
  <2>1. Place(c)' = "uncache" /\ Server(c)' = s /\ Req(c)' = Req(c)
    BY <1>2, <1>6 DEF MovesTo
  <2>2. k \notin DOMAIN store'
    BY <1>4, <1>6
  <2>3. WritesTo(c, k)'
    BY <1>3, <1>6, <2>1, ConstantsAssumption DEF WritesTo, BusyWriting, Key, Busy
  <2> QED
    BY <1>2, <2>1, <2>2, <2>3 DEF CacheHolds, ReadHolds
<1> QED
  BY <1>1, <1>2, <1>3, <1>5, <1>6, StoreKeeps

\* Only a PATCH that sets the display flag has a step to do so.
LEMMA DisplayKnown ==
  ASSUME NEW q \in Requests, q.op = "patch", NEW t \in Suffixes(q), Head(t) = "display"
  PROVE  q.set.display \in BOOLEAN
<1>1. PICK n \in 1 .. Len(Program(q)) : t = Rest(q, n)
  BY DEF Suffixes
<1>2. Program(q)[n] = "display"
  BY <1>1, RestIs
<1>3. CASE DOMAIN q.set = {"value"}
  <2>1. Program(q) = <<"load", "fetch", "install", "exists", "store", "cache">>
    BY <1>3 DEF Program
  <2> QED
    BY <1>2, <2>1
<1>4. CASE "display" \in DOMAIN q.set
  BY <1>4, RequestKinds, Zenon
<1>5. DOMAIN q.set = {"value"} \/ "display" \in DOMAIN q.set
  BY RequestKinds
<1> QED
  BY <1>3, <1>4, <1>5, Zenon

\* The display flag is written, whether the answer is lost or not.
LEMMA DisplayKeeps ==
  ASSUME Types, HandlersOK, PairsOK, NEW c \in Clients, At(c, "display"),
         MovesTo(c, {}), client'[c] = Idle, Req(c).op = "patch",
         store' = Displayed(Key(c), Req(c).set.display),
         cache' = cache, loaded' = loaded, suspect' = suspect
  PROVE  HandlersOK' /\ PairsOK'
<1>1. /\ Busy(c) /\ Place(c) = "display"
      /\ store' = Displayed(Key(c), Req(c).set.display)
      /\ cache' = cache /\ loaded' = loaded /\ suspect' = suspect
  BY DEF At, Place
<1>2. /\ MovesTo(c, {}) /\ client'[c] = Idle /\ Req(c).op = "patch"
  OBVIOUS
<1>3. BusyWriting(c) /\ Key(c) \in Keys /\ Req(c) \in Requests
  BY <1>1, <1>2, WriterIs
<1>4. /\ Touches(store', Key(c))
      /\ Key(c) \in DOMAIN store => /\ Key(c) \in DOMAIN store'
                                    /\ store'[Key(c)].value = store[Key(c)].value
  <2>1. Req(c).set.display \in BOOLEAN
    <3>1. client[c].todo \in Suffixes(Req(c)) /\ Head(client[c].todo) = "display"
      BY <1>1 DEF HandlersOK, HandlerOK, Place
    <3> QED
      BY <1>2, <1>3, <3>1, DisplayKnown, Zenon
  <2> QED
    BY <1>1, <1>3, <2>1, DisplayedIs
<1>5. \A k \in Keys \ {Key(c)} :
        Value(k)' = Value(k) /\ (k \in DOMAIN store' <=> k \in DOMAIN store)
  BY <1>4, OtherRows
<1>6. ASSUME NEW s \in Servers, NEW k \in Keys, s = Server(c), k = Key(c), Holds(s, k)
      PROVE  CacheHolds(s, k)' /\ ReadHolds(c, s, k)'
  <2>1. k \in DOMAIN store
    BY <1>1, <1>2, <1>3, <1>6 DEF Holds, ReadHolds, WritesTo, BusyWriting
  <2>2. Value(k)' = Value(k)
    BY <1>4, <1>6, <2>1 DEF Value
  <2>3. CacheHolds(s, k)'
    <3>1. Lookup(cache'[s], k) = Lookup(cache[s], k) /\ loaded'[s] = loaded[s]
      BY <1>1, Zenon
    <3> QED
      BY <1>1, <1>2, <1>6, <2>2, <3>1, CacheStays DEF Holds
  <2> QED
    BY <1>2, <2>3, NothingRead
<1>7. Keeps(c)
  BY <1>2 DEF Keeps
<1> QED
  BY <1>1, <1>2, <1>3, <1>5, <1>6, <1>7, StoreKeeps

LEMMA SetDisplayKeeps ==
  ASSUME Types, HandlersOK, PairsOK, NEW c \in Clients, SetDisplay(c)
  PROVE  HandlersOK' /\ PairsOK'
<1>1. /\ At(c, "display") /\ store' = Displayed(Key(c), Req(c).set.display)
      /\ cache' = cache /\ loaded' = loaded /\ suspect' = suspect
  BY DEF SetDisplay
<1>2. MovesTo(c, {}) /\ client'[c] = Idle /\ Req(c).op = "patch"
  BY <1>1, WriteMoves DEF HandlersOK, At
<1> QED
  BY <1>1, <1>2, DisplayKeeps

\* What a statement makes of the table: the row of its key, and no other.
LEMMA EffectIs ==
  ASSUME Types, HandlersOK, NEW c \in Clients
  PROVE  /\ At(c, "store") => /\ Req(c).op \in {"add", "remove", "patch"}
                              /\ Effect(c) = Upserted(Key(c), client[c].draft)
         /\ At(c, "create") => /\ Req(c).op = "post"
                               /\ Effect(c) = IF Taken(Key(c)) THEN store
                                                               ELSE Put(store, Key(c), Req(c).row)
         /\ At(c, "display") => /\ Req(c).op = "patch" /\ Req(c).set.display \in BOOLEAN
                                /\ Effect(c) = Displayed(Key(c), Req(c).set.display)
         /\ At(c, "drop") => Req(c).op = "delete" /\ Effect(c) = Without(store, Key(c))
         /\ (\E label \in {"store", "create", "display", "drop"} : At(c, label)) =>
              Touches(Effect(c), Key(c))
<1>1. Busy(c) => client[c].todo \in Suffixes(Req(c)) /\ Req(c) \in Requests
  BY BusyIs DEF HandlersOK
<1>2. ASSUME At(c, "store")
      PROVE  /\ Req(c).op \in {"add", "remove", "patch"}
             /\ Effect(c) = Upserted(Key(c), client[c].draft) /\ Touches(Effect(c), Key(c))
  <2>1. Req(c).op \in {"add", "remove", "patch"}
    BY <1>1, <1>2, Course DEF At
  <2>2. Effect(c) = Upserted(Key(c), client[c].draft)
    BY <1>2 DEF Effect, At
  <2>3. Key(c) \in Keys /\ client[c].draft \in Contents
    BY <1>2, <2>1, WriterIs DEF At
  <2> QED
    BY <2>1, <2>2, <2>3, UpsertedIs
<1>3. ASSUME At(c, "create")
      PROVE  /\ Req(c).op = "post" /\ Touches(Effect(c), Key(c))
             /\ Effect(c) = IF Taken(Key(c)) THEN store ELSE Put(store, Key(c), Req(c).row)
  <2>1. Req(c).op = "post"
    BY <1>1, <1>3, Course DEF At
  <2>2. Effect(c) = IF Taken(Key(c)) THEN store ELSE Put(store, Key(c), Req(c).row)
    BY <1>3 DEF Effect, At
  <2>3. Key(c) \in Keys /\ Req(c).row \in Rows
    BY <1>1, <1>3, <2>1, WriterIs, RequestKinds DEF At
  <2>4. Touches(store, Key(c)) /\ Touches(Put(store, Key(c), Req(c).row), Key(c))
    BY <2>3, PutIs, SameTable
  <2> QED
    BY <2>1, <2>2, <2>4
<1>4. ASSUME At(c, "display")
      PROVE  /\ Req(c).op = "patch" /\ Req(c).set.display \in BOOLEAN
             /\ Effect(c) = Displayed(Key(c), Req(c).set.display) /\ Touches(Effect(c), Key(c))
  <2>1. Req(c).op = "patch"
    BY <1>1, <1>4, Course DEF At
  <2>2. Effect(c) = Displayed(Key(c), Req(c).set.display)
    BY <1>4 DEF Effect, At
  <2>3. Req(c).set.display \in BOOLEAN
    BY <1>1, <1>4, <2>1, DisplayKnown, Zenon DEF At
  <2>4. Key(c) \in Keys
    BY <1>4, <2>1, WriterIs DEF At
  <2> QED
    BY <2>1, <2>2, <2>3, <2>4, DisplayedIs
<1>5. ASSUME At(c, "drop")
      PROVE  Req(c).op = "delete" /\ Effect(c) = Without(store, Key(c)) /\ Touches(Effect(c), Key(c))
  <2>1. Req(c).op = "delete"
    BY <1>1, <1>5, Course DEF At
  <2>2. Effect(c) = Without(store, Key(c))
    BY <1>5 DEF Effect, At
  <2>3. Key(c) \in Keys
    BY <1>5, <2>1, WriterIs DEF At
  <2> QED
    BY <2>1, <2>2, <2>3, WithoutIs
<1> QED
  BY <1>2, <1>3, <1>4, <1>5

LEMMA WriteFailsKeeps ==
  ASSUME Types, HandlersOK, PairsOK, NEW c \in Clients, WriteFails(c)
  PROVE  HandlersOK' /\ PairsOK'
<1>1. PICK label \in {"store", "create", "display", "drop"} : At(c, label)
  BY DEF WriteFails
<1>2. /\ Busy(c) /\ Place(c) \in {"store", "create", "display", "drop"}
      /\ cache' = cache /\ loaded' = loaded
  BY <1>1 DEF WriteFails, At, Place
<1>3. MovesTo(c, {}) /\ client'[c] = Idle /\ Req(c).op # "read"
  BY <1>2, WriteMoves DEF HandlersOK
<1>4. BusyWriting(c) /\ Key(c) \in Keys
  BY <1>2, <1>3, WriterIs
<1>5. CASE store' = store
  <2>1. suspect' = suspect
    BY <1>5 DEF WriteFails
  <2>2. \A s \in Servers, k \in Keys : ReadHolds(c, s, k)'
    BY <1>3, NothingRead
  <2> QED
    BY <1>2, <1>3, <1>5, <2>1, <2>2, LocalKeeps
<1>6. CASE store' # store /\ At(c, "display")
  <2>1. store' = Effect(c) /\ suspect' = suspect
    BY <1>6 DEF WriteFails
  <2> QED
    BY <1>2, <1>3, <1>6, <2>1, EffectIs, DisplayKeeps
<1>7. CASE store' # store /\ ~At(c, "display")
  <2>1. store' = Effect(c) /\ suspect' = suspect \cup {<<Server(c), Key(c)>>}
    BY <1>7 DEF WriteFails
  <2>2. Touches(store', Key(c))
    BY <1>1, <2>1, EffectIs
  <2>3. \A k \in Keys \ {Key(c)} :
          Value(k)' = Value(k) /\ (k \in DOMAIN store' <=> k \in DOMAIN store)
    BY <2>2, OtherRows
  <2>4. \A s \in Servers, k \in Keys : s = Server(c) /\ k = Key(c) => ~Trusted(s, k)'
    BY <2>1 DEF Trusted
  <2>5. Keeps(c)
    BY <1>3 DEF Keeps
  <2> QED
    BY <1>2, <1>3, <1>4, <2>1, <2>3, <2>4, <2>5, StoreKeeps
<1> QED
  BY <1>5, <1>6, <1>7

\* A write of the cache, which makes the key's entry what the table says.
LEMMA CacheKeeps ==
  ASSUME Types, HandlersOK, PairsOK, NEW c \in Clients, BusyWriting(c), Key(c) \in Keys, Server(c) \in Servers,
         Place(c) \in {"cache", "uncache"},
         NEW L, MovesTo(c, L), L \subseteq {"display"}, Keeps(c),
         store' = store, loaded' = loaded, suspect' = suspect,
         NEW f, cache' = [cache EXCEPT ![Server(c)] = f],
         \A k \in Keys \ {Key(c)} : Lookup(f, k) = Lookup(cache[Server(c)], k),
         Trusted(Server(c), Key(c)) /\ Holds(Server(c), Key(c)) => Lookup(f, Key(c)) = Value(Key(c)),
         client'[c] # Idle => Place(c) = "cache"
  PROVE  HandlersOK' /\ PairsOK'
<1>1. Busy(c) /\ WritesTo(c, Key(c))
  BY DEF BusyWriting, WritesTo
<1>2. client'[c] # Idle =>
        /\ Loading(c)' => Loading(c)
        /\ Req(c).op = "post" => client'[c].draft = client[c].draft
        /\ ~client'[c].blind /\ Place(c)' \notin {"load", "fetch", "install"} => loaded'[Server(c)]
  BY <1>1, PastLoad DEF Keeps
<1>3. client'[c] # Idle => /\ Req(c)' = Req(c) /\ Server(c)' = Server(c) /\ Key(c)' = Key(c)
                          /\ Place(c)' = "display"
  BY DEF MovesTo, Key
<1>4. /\ cache'[Server(c)] = f
      /\ \A s \in Servers \ {Server(c)} : cache'[s] = cache[s]
  BY DEF Types
<1>5. ASSUME NEW s \in Servers, NEW k \in Keys, Trusted(s, k), Exclusive(s, k), Holds(s, k)
      PROVE  Holds(s, k)'
  <2>1. Value(k)' = Value(k)
    BY DEF Value
  <2>2. \A d \in Clients \ {c} : ReadHolds(d, s, k)'
    BY <1>5, <2>1, OtherReads DEF Holds
  <2>3. ReadHolds(c, s, k)'
    <3>1. CASE client'[c] = Idle
      BY <3>1, NothingRead
    <3>2. CASE client'[c] # Idle
      <4>1. Busy(c) /\ Server(c) = s /\ WritesTo(c, k) /\ Req(c).op = "patch" => k \in DOMAIN store
        BY <1>5, <3>2 DEF Holds, ReadHolds
      <4>2. WritesTo(c, k)' => WritesTo(c, k)
        BY <1>1, <1>3, <3>2 DEF WritesTo
      <4> QED
        BY <1>1, <1>3, <3>2, <4>1, <4>2 DEF ReadHolds
    <3> QED
      BY <3>1, <3>2
  <2>4. CASE s = Server(c) /\ k = Key(c)
    <3>1. Lookup(cache'[s], k) = Value(k)
      BY <1>4, <1>5, <2>4
    <3>2. CacheHolds(s, k)'
      BY <2>1, <3>1 DEF CacheHolds, Lookup
    <3> QED
      BY <2>2, <2>3, <3>2 DEF Holds
  <2>5. CASE ~(s = Server(c) /\ k = Key(c))
    <3>1. Lookup(cache'[s], k) = Lookup(cache[s], k)
      <4>1. CASE s = Server(c)
        BY <1>4, <2>5, <4>1
      <4>2. CASE s # Server(c)
        <5>1. cache'[s] = cache[s]
          BY <1>4, <4>2
        <5> QED
          BY <5>1, Zenon
      <4> QED
        BY <4>1, <4>2
    <3>2. CacheHolds(s, k)'
      <4>1. ~(WritesTo(c, k) /\ Server(c) = s)
        BY <2>5 DEF WritesTo
      <4> QED
        BY <1>1, <1>5, <2>1, <3>1, <4>1, CacheStays DEF Holds
    <3> QED
      BY <2>2, <2>3, <3>2 DEF Holds
  <2> QED
    BY <2>4, <2>5
<1>6. \A s \in Servers : (loaded[s] => loaded'[s]) /\ (loaded'[s] => loaded[s] \/ s = Server(c))
  OBVIOUS
<1>7. \A s \in Servers, k \in Keys : Trusted(s, k)' => Trusted(s, k)
  BY DEF Trusted
<1> QED
  BY <1>1, <1>2, <1>5, <1>6, <1>7, StepKeeps

LEMMA CacheValueKeeps ==
  ASSUME Types, HandlersOK, PairsOK, NEW c \in Clients, CacheValue(c)
  PROVE  HandlersOK' /\ PairsOK'
<1> DEFINE f == Put(cache[Server(c)], Key(c), client[c].draft)
<1>1. /\ Busy(c) /\ Place(c) = "cache"
      /\ store' = store /\ loaded' = loaded /\ suspect' = suspect
      /\ cache' = [cache EXCEPT ![Server(c)] = f]
  BY DEF CacheValue, At, Place, Cached
<1>2. /\ MovesTo(c, {"display"}) /\ Keeps(c)
      /\ Req(c).op \in {"add", "remove", "patch", "post"}
  BY <1>1, WriteMoves DEF HandlersOK
<1>3. BusyWriting(c) /\ Key(c) \in Keys /\ Server(c) \in Servers
  BY <1>1, <1>2, WriterIs
<1>4. \A k \in Keys \ {Key(c)} : Lookup(f, k) = Lookup(cache[Server(c)], k)
  BY DEF Lookup, Put
<1>5. Lookup(f, Key(c)) = client[c].draft
  BY DEF Lookup, Put
<1>6. Holds(Server(c), Key(c)) => client[c].draft = Value(Key(c))
  BY <1>1, <1>3 DEF Holds, ReadHolds, WritesTo
<1> HIDE DEF f
<1> QED
  BY <1>1, <1>2, <1>3, <1>4, <1>5, <1>6, CacheKeeps

LEMMA UncacheKeeps ==
  ASSUME Types, HandlersOK, PairsOK, NEW c \in Clients, Uncache(c)
  PROVE  HandlersOK' /\ PairsOK'
<1> DEFINE f == Without(cache[Server(c)], Key(c))
<1>1. /\ Busy(c) /\ Place(c) = "uncache"
      /\ store' = store /\ loaded' = loaded /\ suspect' = suspect
      /\ cache' = [cache EXCEPT ![Server(c)] = f]
  BY DEF Uncache, At, Place, Dropped
<1>2. MovesTo(c, {}) /\ client'[c] = Idle /\ Req(c).op = "delete"
  BY <1>1, WriteMoves DEF HandlersOK
<1>3. BusyWriting(c) /\ Key(c) \in Keys /\ Server(c) \in Servers
  BY <1>1, <1>2, WriterIs
<1>4. \A k \in Keys \ {Key(c)} : Lookup(f, k) = Lookup(cache[Server(c)], k)
  BY DEF Lookup, Without
<1>5. Lookup(f, Key(c)) = Default[Key(c)]
  BY DEF Lookup, Without
<1>6. Holds(Server(c), Key(c)) => Value(Key(c)) = Default[Key(c)]
  BY <1>1, <1>3 DEF Holds, ReadHolds, WritesTo, BusyWriting, Value
<1>7. Keeps(c)
  BY <1>2 DEF Keeps
<1> HIDE DEF f
<1> QED
  BY <1>1, <1>2, <1>3, <1>4, <1>5, <1>6, <1>7, CacheKeeps

-----------------------------------------------------------------------------
(* Every step preserves the types.                                         *)

LEMMA TableWritten ==
  ASSUME NEW S, NEW f \in Tables(S), NEW k \in Keys
  PROVE  /\ \A v \in S : Put(f, k, v) \in Tables(S)
         /\ Without(f, k) \in Tables(S)
<1>1. PICK K \in SUBSET Keys : f \in [K -> S]
  BY DEF Tables
<1>2. ASSUME NEW v \in S
      PROVE  Put(f, k, v) \in Tables(S)
  <2>1. Put(f, k, v) \in [K \cup {k} -> S] /\ K \cup {k} \in SUBSET Keys
    BY <1>1 DEF Put
  <2> QED
    BY <2>1 DEF Tables
<1>3. Without(f, k) \in [K \ {k} -> S] /\ K \ {k} \in SUBSET Keys
  BY <1>1 DEF Without
<1> QED
  BY <1>2, <1>3 DEF Tables

LEMMA StepKeepsTypes ==
  ASSUME Types, HandlersOK, NEW c \in Clients, Step(c)
  PROVE  Types'
<1> USE DEF HandlersOK
<1>1. Busy(c)
  BY DEF Step, Load, Fetch, FetchFails, Install, ComposeAdd, ComposeRemove, Exists, StoreValue,
         CacheValue, Create, SetDisplay, Drop, Uncache, WriteFails, At
<1>2. client[c] \in Handlers /\ Server(c) \in Servers /\ client[c].draft \in Contents
      /\ client[c].seen \in Tables(Contents)
  BY <1>1, BusyIs DEF Handlers
<1>3. sent' = sent
  BY DEF Step, Load, Fetch, FetchFails, Install, ComposeAdd, ComposeRemove, Exists, StoreValue,
         CacheValue, Create, SetDisplay, Drop, Uncache, WriteFails
<1>4. client' \in [Clients -> Handlers]
  BY <1>1, LoadMoves, FetchMoves, FetchFailsMoves, InstallMoves, ComposeMoves, WriteMoves
  DEF Step, MovesTo
<1>5. store' \in Tables(Rows)
  <2>1. ASSUME StoreValue(c)
        PROVE  store' \in Tables(Rows)
    <3>1. Key(c) \in Keys
      BY <1>1, <2>1, WriteMoves, WriterIs
    <3>2. Touches(Upserted(Key(c), client[c].draft), Key(c))
      BY <1>2, <3>1, UpsertedIs
    <3> QED
      BY <2>1, <3>2 DEF StoreValue, Touches
  <2>2. ASSUME Create(c)
        PROVE  store' \in Tables(Rows)
    <3>1. Key(c) \in Keys /\ Req(c).row \in Rows
      BY <1>1, <2>2, WriteMoves, WriterIs, RequestKinds
    <3>2. Touches(Put(store, Key(c), Req(c).row), Key(c))
      BY <3>1, PutIs
    <3> QED
      BY <2>2, <3>2 DEF Create, Touches, Types
  <2>3. ASSUME SetDisplay(c)
        PROVE  store' \in Tables(Rows)
    <3>1. Req(c).op = "patch"
      BY <1>1, <2>3, WriteMoves
    <3>2. Key(c) \in Keys /\ Req(c) \in Requests
      BY <1>1, <3>1, WriterIs
    <3>3. client[c].todo \in Suffixes(Req(c)) /\ Head(client[c].todo) = "display"
      BY <1>1, <2>3 DEF HandlerOK, SetDisplay, At
    <3>4. Req(c).set.display \in BOOLEAN
      BY <3>1, <3>2, <3>3, DisplayKnown, Zenon
    <3>5. Touches(Displayed(Key(c), Req(c).set.display), Key(c))
      BY <3>2, <3>4, DisplayedIs
    <3> QED
      BY <2>3, <3>5 DEF SetDisplay, Touches
  <2>4. ASSUME Drop(c)
        PROVE  store' \in Tables(Rows)
    <3>1. Key(c) \in Keys
      BY <1>1, <2>4, WriteMoves, WriterIs
    <3> QED
      BY <2>4, <3>1, WithoutIs DEF Drop, Touches
  <2>5. CASE store' = store
    BY <2>5 DEF Types
  <2>6. ASSUME WriteFails(c)
        PROVE  store' \in Tables(Rows)
    <3>1. Touches(Effect(c), Key(c))
      BY <2>6, EffectIs DEF WriteFails
    <3> QED
      BY <2>5, <2>6, <3>1 DEF WriteFails, Touches
  <2> QED
    BY <2>1, <2>2, <2>3, <2>4, <2>5, <2>6
    DEF Step, Load, Fetch, FetchFails, Install, ComposeAdd, ComposeRemove, Exists, CacheValue, Uncache
<1>6. cache' \in [Servers -> Tables(Contents)]
  <2>1. ASSUME NEW f \in Tables(Contents), cache' = [cache EXCEPT ![Server(c)] = f]
        PROVE  cache' \in [Servers -> Tables(Contents)]
    BY <2>1 DEF Types
  <2>2. CASE Install(c)
    BY <1>2, <2>1, <2>2 DEF Install
  <2>3. CASE CacheValue(c) \/ Uncache(c)
    <3>1. Key(c) \in Keys /\ cache[Server(c)] \in Tables(Contents)
      BY <1>1, <1>2, <2>3, WriteMoves, WriterIs DEF Types
    <3>2. /\ Put(cache[Server(c)], Key(c), client[c].draft) \in Tables(Contents)
          /\ Without(cache[Server(c)], Key(c)) \in Tables(Contents)
      BY <1>2, <3>1, TableWritten
    <3> QED
      BY <2>1, <2>3, <3>2 DEF CacheValue, Uncache, Cached, Dropped
  <2>4. CASE cache' = cache
    BY <2>4 DEF Types
  <2> QED
    BY <2>2, <2>3, <2>4
    DEF Step, Load, Fetch, FetchFails, ComposeAdd, ComposeRemove, Exists, StoreValue, WriteFails,
        Create, SetDisplay, Drop
<1>7. loaded' \in [Servers -> BOOLEAN]
  <2>1. loaded' = loaded \/ loaded' = [loaded EXCEPT ![Server(c)] = TRUE]
    BY DEF Step, Load, Fetch, FetchFails, Install, ComposeAdd, ComposeRemove, Exists, StoreValue,
           CacheValue, Create, SetDisplay, Drop, Uncache, WriteFails
  <2> QED
    BY <2>1 DEF Types
<1>8. suspect' \subseteq Servers \X Keys
  <2>1. CASE WriteFails(c)
    <3>1. Key(c) \in Keys
      BY <1>1, <2>1, WriteMoves, WriterIs
    <3> QED
      BY <1>2, <2>1, <3>1 DEF WriteFails, Types
  <2>2. CASE suspect' = suspect
    BY <2>2 DEF Types
  <2> QED
    BY <2>1, <2>2
    DEF Step, Load, Fetch, FetchFails, Install, ComposeAdd, ComposeRemove, Exists, StoreValue,
        CacheValue, Create, SetDisplay, Drop, Uncache
<1> QED
  BY <1>3, <1>4, <1>5, <1>6, <1>7, <1>8 DEF Types

LEMMA StepKeepsIInv ==
  ASSUME IInv, NEW c \in Clients, Step(c)
  PROVE  IInv'
<1>1. Types /\ HandlersOK /\ PairsOK
  BY DEF IInv, HandlersOK
<1>2. HandlersOK' /\ PairsOK'
  BY <1>1, LoadKeeps, FetchKeeps, FetchFailsKeeps, InstallKeeps, ComposeKeeps, ExistsKeeps,
     StoreValueKeeps, WriteFailsKeeps, CacheValueKeeps, CreateKeeps, SetDisplayKeeps, DropKeeps,
     UncacheKeeps
  DEF Step
<1>3. Types'
  BY <1>1, StepKeepsTypes
<1> QED
  BY <1>2, <1>3 DEF IInv, HandlersOK

-----------------------------------------------------------------------------
(* A new request.                                                          *)

LEMMA SentIs ==
  ASSUME Types, NEW c \in Clients, NEW s0 \in Servers, NEW q \in Requests, Send(c, s0, q)
  PROVE  /\ client' \in [Clients -> Handlers] /\ \A d \in Clients \ {c} : client'[d] = client[d]
         /\ Req(c)' = q /\ Server(c)' = s0 /\ Busy(c)' /\ ~client'[c].blind /\ ~Busy(c)
         /\ client'[c].todo \in Suffixes(q) /\ Place(c)' = "load"
         /\ q.op = "post" => client'[c].draft = q.row.value
<1> DEFINE h == [Idle EXCEPT !.req = q, !.server = s0, !.todo = Program(q), !.draft = GivenValue(q)]
<1>1. /\ Program(q) \in Seq(Labels) /\ Len(Program(q)) \in 3 .. 7 /\ Program(q)[1] = "load"
  BY ProgramIs, ProgramType
<1>2. 1 \in 1 .. Len(Program(q))
  BY <1>1
<1>3. Rest(q, 1) = Program(q)
  BY <1>1, SubSeqFull DEF Rest
<1>4. Head(Program(q)) = "load" /\ Program(q) \in Suffixes(q)
  BY <1>1, <1>2, <1>3, RestIs DEF Suffixes
<1>5. GivenValue(q) \in Contents
  <2>1. CASE q.op = "post"
    BY <2>1, RequestKinds DEF GivenValue, Rows
  <2>2. CASE q.op = "patch" /\ "value" \in DOMAIN q.set
    BY <2>2, RequestKinds DEF GivenValue
  <2>3. CASE q.op # "post" /\ ~(q.op = "patch" /\ "value" \in DOMAIN q.set)
    BY <2>3 DEF GivenValue, Contents
  <2> QED
    BY <2>1, <2>2, <2>3
<1>6. h \in Handlers /\ h.req = q /\ h.server = s0 /\ h.todo = Program(q) /\ h.draft = GivenValue(q)
      /\ h.blind = FALSE
  <2>1. Idle \in Handlers
    BY IdleIs
  <2>2. Idle.blind = FALSE
    BY DEF Idle
  <2> QED
    BY <1>1, <1>5, <2>1, <2>2 DEF Handlers
<1>7. client' = [client EXCEPT ![c] = h] /\ ~Busy(c)
  BY DEF Send
<1> HIDE DEF h
<1>8. client'[c] = h /\ client' \in [Clients -> Handlers] /\ \A d \in Clients \ {c} : client'[d] = client[d]
  BY <1>6, <1>7 DEF Types
<1>9. q # NoRequest
  BY ConstantsAssumption
<1>10. q.op = "post" => h.draft = q.row.value
  BY <1>6 DEF GivenValue
<1> QED
  BY <1>4, <1>6, <1>7, <1>8, <1>9, <1>10 DEF Req, Server, Busy, Place

\* Whatever a request is suspected to spoil.
LEMMA SuspectsIs ==
  ASSUME NEW s0 \in Servers, NEW q \in Requests, NEW s \in Servers, NEW k \in Keys,
         <<s, k>> \notin Suspects(s0, q)
  PROVE  /\ Writes(q) /\ q.key = k /\ s # s0 =>
              ~loaded[s] /\ \A d \in Clients : ~(Busy(d) /\ Server(d) = s)
         /\ Writes(q) /\ q.key = k =>
              \A d \in Clients : Busy(d) /\ s \in {s0, Server(d)} => ~Loading(d) /\ ~WritesTo(d, k)
         /\ \A d \in Clients : s = s0 /\ WritesTo(d, k) => loaded[s0] /\ Server(d) = s0
<1>1. ASSUME Writes(q), q.key = k, s # s0
      PROVE  ~loaded[s] /\ \A d \in Clients : ~(Busy(d) /\ Server(d) = s)
  BY <1>1 DEF Suspects
<1>2. ASSUME Writes(q), q.key = k, NEW d \in Clients, Busy(d), s \in {s0, Server(d)}
      PROVE  ~Loading(d) /\ ~WritesTo(d, k)
  <2>1. SUFFICES ASSUME Loading(d) \/ (BusyWriting(d) /\ Key(d) = q.key)
                 PROVE  FALSE
    BY <1>2 DEF WritesTo
  <2>2. d \in {e \in Clients : Busy(e) /\ (Loading(e) \/ (BusyWriting(e) /\ Key(e) = q.key))}
    BY <1>2, <2>1
  <2>3. <<s, k>> \in {<<s0, q.key>>, <<Server(d), q.key>>}
    BY <1>2
  <2> QED
    BY <1>2, <2>2, <2>3 DEF Suspects
<1>3. ASSUME NEW d \in Clients, s = s0, WritesTo(d, k)
      PROVE  loaded[s0] /\ Server(d) = s0
  BY <1>3 DEF Suspects, WritesTo
<1> QED
  BY <1>1, <1>2, <1>3

\* A handler that stays as it is, next to one that is not.
LEMMA Unmoved ==
  ASSUME NEW d \in Clients, client'[d] = client[d], loaded' = loaded, HandlerOK(d)
  PROVE  /\ HandlerOK(d)'
         /\ Busy(d)' <=> Busy(d)
         /\ Server(d)' = Server(d) /\ Place(d)' = Place(d)
         /\ \A k \in Keys : WritesTo(d, k)' <=> WritesTo(d, k)
         /\ Loading(d)' <=> Loading(d)
  BY DEF HandlerOK, Busy, Req, Server, Place, WritesTo, BusyWriting, Key, Loading

LEMMA SendKeepsIInv ==
  ASSUME IInv, NEW c \in Clients, NEW s0 \in Servers, NEW q \in Requests, Send(c, s0, q)
  PROVE  IInv'
<1>1. Types /\ HandlersOK /\ PairsOK
  BY DEF IInv, HandlersOK
<1>2. /\ client' \in [Clients -> Handlers] /\ \A d \in Clients \ {c} : client'[d] = client[d]
      /\ Req(c)' = q /\ Server(c)' = s0 /\ Busy(c)' /\ ~client'[c].blind /\ ~Busy(c)
      /\ client'[c].todo \in Suffixes(q) /\ Place(c)' = "load"
      /\ q.op = "post" => client'[c].draft = q.row.value
  BY <1>1, SentIs
<1>3. /\ store' = store /\ cache' = cache /\ loaded' = loaded
      /\ sent < MaxRequests /\ sent' = sent + 1 /\ suspect' = suspect \cup Suspects(s0, q)
  BY DEF Send
<1>4. \A d \in Clients \ {c} :
        /\ HandlerOK(d)'
        /\ Busy(d)' <=> Busy(d)
        /\ Server(d)' = Server(d) /\ Place(d)' = Place(d)
        /\ \A k \in Keys : WritesTo(d, k)' <=> WritesTo(d, k)
        /\ Loading(d)' <=> Loading(d)
  BY <1>1, <1>2, <1>3, Unmoved DEF HandlersOK
<1>5. HandlersOK'
  <2>1. HandlerOK(c)'
    BY <1>2 DEF HandlerOK
  <2> QED
    BY <1>4, <2>1 DEF HandlersOK
<1>6. Types'
  <2>1. sent' \in 0 .. MaxRequests
    BY <1>1, <1>3, ConstantsAssumption DEF Types
  <2>2. Suspects(s0, q) \subseteq Servers \X Keys
    <3>1. \A d \in Clients : Busy(d) => Server(d) \in Servers
      BY <1>1 DEF HandlersOK, HandlerOK
    <3>2. \A d \in Clients : BusyWriting(d) => Key(d) \in Keys
      BY <1>1, WriterIs DEF BusyWriting, Writes
    <3>3. Writes(q) => q.key \in Keys
      BY RequestKinds DEF Writes
    <3> QED
      BY <3>1, <3>2, <3>3 DEF Suspects, BusyWriting
  <2> QED
    BY <1>1, <1>2, <1>3, <2>1, <2>2 DEF Types
<1>7. ASSUME NEW s \in Servers, NEW k \in Keys, Trusted(s, k)'
      PROVE  Exclusive(s, k)' /\ Holds(s, k)'
  <2>1. <<s, k>> \notin Suspects(s0, q) /\ Exclusive(s, k) /\ Holds(s, k)
    BY <1>1, <1>3, <1>7 DEF PairsOK, Trusted
  <2>2. /\ Writes(q) /\ q.key = k /\ s # s0 =>
             ~loaded[s] /\ \A d \in Clients : ~(Busy(d) /\ Server(d) = s)
        /\ Writes(q) /\ q.key = k =>
             \A d \in Clients : Busy(d) /\ s \in {s0, Server(d)} => ~Loading(d) /\ ~WritesTo(d, k)
        /\ \A d \in Clients : s = s0 /\ WritesTo(d, k) => loaded[s0] /\ Server(d) = s0
    BY <2>1, SuspectsIs
  <2>3. WritesTo(c, k)' <=> Writes(q) /\ q.key = k
    BY <1>2 DEF WritesTo, BusyWriting, Key
  <2>4. Loading(c)' <=> ~loaded[s0]
    BY <1>2, <1>3 DEF Loading, Place
  <2>5. ASSUME NEW w \in Clients, WritesTo(w, k)'
        PROVE  /\ Server(w)' # s => ~loaded'[s]
               /\ \A d \in Clients \ {w} :
                    Busy(d)' /\ Server(d)' = s => Server(w)' = s /\ ~WritesTo(d, k)' /\ ~Loading(d)'
    <3>1. CASE w = c
      <4>1. Writes(q) /\ q.key = k
        BY <2>3, <2>5, <3>1
      <4> QED
        BY <1>2, <1>3, <1>4, <2>2, <3>1, <4>1
    <3>2. CASE w # c
      <4>1. WritesTo(w, k) /\ Server(w)' = Server(w) /\ Busy(w)
        BY <1>4, <2>5, <3>2 DEF WritesTo, BusyWriting
      <4>2. /\ Server(w) # s => ~loaded[s]
            /\ \A d \in Clients \ {w} :
                 Busy(d) /\ Server(d) = s => Server(w) = s /\ ~WritesTo(d, k) /\ ~Loading(d)
        BY <2>1, <4>1 DEF Exclusive
      <4>3. ASSUME Server(c)' = s
            PROVE  Server(w) = s /\ ~WritesTo(c, k)' /\ ~Loading(c)'
        <5>1. s = s0
          BY <1>2, <4>3
        <5>2. loaded[s0] /\ Server(w) = s0
          BY <2>2, <4>1, <5>1
        <5>3. ~(Writes(q) /\ q.key = k)
          BY <2>2, <4>1, <5>1
        <5> QED
          BY <2>3, <2>4, <5>1, <5>2, <5>3
      <4>4. ASSUME NEW d \in Clients \ {w}, Busy(d)', Server(d)' = s
            PROVE  Server(w) = s /\ ~WritesTo(d, k)' /\ ~Loading(d)'
        <5>1. CASE d = c
          BY <4>3, <4>4, <5>1
        <5>2. CASE d # c
          BY <1>4, <4>2, <4>4, <5>2
        <5> QED
          BY <5>1, <5>2
      <4> QED
        BY <1>3, <4>1, <4>2, <4>4
    <3> QED
      BY <3>1, <3>2
  <2>6. Exclusive(s, k)'
    BY <2>5 DEF Exclusive
  <2>7. Value(k)' = Value(k)
    BY <1>3 DEF Value
  <2>8. CacheHolds(s, k)'
    <3> SUFFICES ASSUME loaded'[s],
                        \A d \in Clients : WritesTo(d, k)' /\ Server(d)' = s => Place(d)' \notin {"cache", "uncache"}
                 PROVE  Lookup(cache'[s], k) = Value(k)'
      BY DEF CacheHolds, Lookup
    <3>1. ASSUME NEW d \in Clients, WritesTo(d, k), Server(d) = s
          PROVE  Place(d) \notin {"cache", "uncache"}
      <4>1. d # c
        BY <1>2, <3>1 DEF WritesTo, BusyWriting
      <4> QED
        BY <1>4, <3>1, <4>1
    <3>2. Lookup(cache'[s], k) = Lookup(cache[s], k)
      BY <1>3, Zenon
    <3> QED
      BY <1>3, <2>1, <2>7, <3>1, <3>2 DEF Holds, CacheHolds
  <2>9. ReadHolds(c, s, k)'
    BY <1>2 DEF ReadHolds
  <2>10. ASSUME NEW d \in Clients \ {c}
         PROVE  ReadHolds(d, s, k)'
    <3>1. ReadHolds(d, s, k) /\ client'[d] = client[d]
      BY <1>2, <2>1 DEF Holds
    <3>2. Edited(d, Value(k))' = Edited(d, Value(k)) /\ Req(d)' = Req(d)
      BY <2>7, <3>1 DEF Edited, Req
    <3> QED
      BY <1>3, <1>4, <2>7, <3>1, <3>2 DEF ReadHolds
  <2> QED
    BY <2>6, <2>8, <2>9, <2>10 DEF Holds
<1> QED
  BY <1>5, <1>6, <1>7 DEF IInv, HandlersOK, PairsOK

-----------------------------------------------------------------------------
(* A restart, and the first state.                                         *)

\* A server that starts again has no request, no cache and no suspect key.
LEMMA RestartKeepsIInv ==
  ASSUME IInv, NEW s0 \in Servers, Restart(s0)
  PROVE  IInv'
<1>1. Types /\ HandlersOK /\ PairsOK
  BY DEF IInv, HandlersOK
<1>2. /\ client' = [c \in Clients |-> IF Busy(c) /\ Server(c) = s0 THEN Idle ELSE client[c]]
      /\ cache' = [cache EXCEPT ![s0] = NoRows]
      /\ loaded' = [loaded EXCEPT ![s0] = FALSE]
      /\ suspect' = {p \in suspect : p[1] # s0}
      /\ store' = store /\ sent' = sent
  BY DEF Restart
<1>3. NoRows \in Tables(Contents)
  <2>1. Idle \in Handlers /\ Idle.seen = NoRows
    BY IdleIs DEF Idle
  <2> QED
    BY <2>1 DEF Handlers
<1>4. Types'
  BY <1>1, <1>2, <1>3, IdleIs DEF Types
<1>5. /\ cache'[s0] = NoRows /\ ~loaded'[s0]
      /\ \A s \in Servers \ {s0} : cache'[s] = cache[s] /\ loaded'[s] = loaded[s]
  BY <1>1, <1>2 DEF Types
<1>6. ASSUME NEW d \in Clients, Busy(d)'
      PROVE  client'[d] = client[d] /\ Busy(d) /\ Server(d) # s0 /\ Server(d) \in Servers
  <2>1. client'[d] = client[d] /\ ~(Busy(d) /\ Server(d) = s0)
    BY <1>2, <1>6, IdleIs DEF Busy, Req
  <2>2. Busy(d)
    BY <1>6, <2>1 DEF Busy, Req
  <2> QED
    BY <1>1, <2>1, <2>2 DEF HandlersOK, HandlerOK
<1>7. ASSUME NEW d \in Clients, Busy(d)'
      PROVE  /\ HandlerOK(d)'
             /\ Busy(d) /\ Req(d)' = Req(d) /\ Server(d)' = Server(d) /\ Place(d)' = Place(d)
             /\ \A k \in Keys : WritesTo(d, k)' <=> WritesTo(d, k)
             /\ Loading(d)' <=> Loading(d)
  <2>1. /\ client'[d] = client[d] /\ Busy(d) /\ HandlerOK(d)
        /\ loaded'[Server(d)] = loaded[Server(d)]
    BY <1>1, <1>5, <1>6, <1>7 DEF HandlersOK
  <2> QED
    BY <1>7, <2>1 DEF HandlerOK, Busy, Req, Server, Place, WritesTo, BusyWriting, Key, Loading
<1>8. HandlersOK'
  <2>1. ASSUME NEW d \in Clients, ~Busy(d)'
        PROVE  HandlerOK(d)'
    <3>1. client'[d] = Idle \/ (client'[d] = client[d] /\ ~Busy(d))
      BY <1>2, <2>1 DEF Busy, Req
    <3>2. client'[d] = Idle
      BY <1>1, <3>1 DEF HandlersOK, HandlerOK
    <3> QED
      BY <2>1, <3>2 DEF HandlerOK
  <2> QED
    BY <1>7, <2>1 DEF HandlersOK
<1>9. ASSUME NEW s \in Servers, NEW k \in Keys, Trusted(s, k)'
      PROVE  Exclusive(s, k)' /\ Holds(s, k)'
  <2>1. CASE s = s0
    <3>1. \A d \in Clients : Busy(d)' => Server(d)' # s
      BY <1>6, <1>7, <2>1
    <3>2. Exclusive(s, k)'
      BY <1>5, <2>1, <3>1 DEF Exclusive
    <3>3. CacheHolds(s, k)'
      BY <1>5, <2>1 DEF CacheHolds
    <3>4. \A d \in Clients : ReadHolds(d, s, k)'
      BY <3>1 DEF ReadHolds
    <3> QED
      BY <3>2, <3>3, <3>4 DEF Holds
  <2>2. CASE s # s0
    <3>1. <<s, k>>[1] # s0
      BY <2>2
    <3>2. Exclusive(s, k) /\ Holds(s, k)
      BY <1>1, <1>2, <1>9, <3>1 DEF PairsOK, Trusted
    <3>3. loaded'[s] = loaded[s] /\ cache'[s] = cache[s]
      BY <1>5, <2>2
    <3>4. ASSUME NEW w \in Clients, WritesTo(w, k)'
          PROVE  /\ Server(w)' # s => ~loaded'[s]
                 /\ \A d \in Clients \ {w} :
                      Busy(d)' /\ Server(d)' = s => Server(w)' = s /\ ~WritesTo(d, k)' /\ ~Loading(d)'
      <4>1. WritesTo(w, k) /\ Server(w)' = Server(w)
        BY <1>7, <3>4 DEF WritesTo, BusyWriting
      <4>2. /\ Server(w) # s => ~loaded[s]
            /\ \A d \in Clients \ {w} :
                 Busy(d) /\ Server(d) = s => Server(w) = s /\ ~WritesTo(d, k) /\ ~Loading(d)
        BY <3>2, <4>1 DEF Exclusive
      <4> QED
        BY <1>7, <3>3, <4>1, <4>2
    <3>5. Exclusive(s, k)'
      BY <3>4 DEF Exclusive
    <3>6. Value(k)' = Value(k)
      BY <1>2 DEF Value
    <3>7. CacheHolds(s, k)'
      <4> SUFFICES ASSUME loaded'[s],
                          \A d \in Clients : WritesTo(d, k)' /\ Server(d)' = s => Place(d)' \notin {"cache", "uncache"}
                   PROVE  Lookup(cache'[s], k) = Value(k)'
        BY DEF CacheHolds, Lookup
      <4>1. ASSUME NEW d \in Clients, WritesTo(d, k), Server(d) = s
            PROVE  Place(d) \notin {"cache", "uncache"}
        <5>1. client'[d] = client[d]
          BY <1>2, <2>2, <4>1
        <5>2. Busy(d)'
          BY <4>1, <5>1 DEF WritesTo, BusyWriting, Busy, Req
        <5> QED
          BY <1>7, <4>1, <5>2
      <4>2. Lookup(cache'[s], k) = Lookup(cache[s], k)
        BY <3>3, Zenon
      <4> QED
        BY <3>2, <3>3, <3>6, <4>1, <4>2 DEF Holds, CacheHolds
    <3>8. ASSUME NEW d \in Clients
          PROVE  ReadHolds(d, s, k)'
      <4>1. CASE ~Busy(d)'
        BY <4>1 DEF ReadHolds
      <4>2. CASE Busy(d)'
        <5>1. ReadHolds(d, s, k) /\ client'[d] = client[d]
          BY <1>6, <3>2, <4>2 DEF Holds
        <5>2. Edited(d, Value(k))' = Edited(d, Value(k)) /\ Req(d)' = Req(d)
          BY <3>6, <5>1 DEF Edited, Req
        <5> QED
          BY <1>2, <1>7, <3>6, <4>2, <5>1, <5>2 DEF ReadHolds
      <4> QED
        BY <4>1, <4>2
    <3> QED
      BY <3>5, <3>7, <3>8 DEF Holds
  <2> QED
    BY <2>1, <2>2
<1> QED
  BY <1>4, <1>8, <1>9 DEF IInv, HandlersOK, PairsOK

LEMMA InitOK == Init => IInv
<1> SUFFICES ASSUME Init PROVE IInv
  OBVIOUS
<1>1. \A c \in Clients : client[c] = Idle /\ ~Busy(c)
  BY IdleIs DEF Init, Busy, Req
<1>2. Types
  <2>1. StartStore \in Tables(Rows)
    <3>1. DOMAIN StartStore \in SUBSET Keys /\ StartStore \in [DOMAIN StartStore -> Rows]
      BY ConstantsAssumption DEF IsTable
    <3> QED
      BY <3>1 DEF Tables
  <2>2. NoRows \in Tables(Contents)
    <3>1. Idle \in Handlers /\ Idle.seen = NoRows
      BY IdleIs DEF Idle
    <3> QED
      BY <3>1 DEF Handlers
  <2>3. 0 \in 0 .. MaxRequests
    BY ConstantsAssumption
  <2> QED
    BY <2>1, <2>2, <2>3, IdleIs DEF Init, Types
<1>3. \A c \in Clients : HandlerOK(c)
  BY <1>1 DEF HandlerOK
<1>4. ASSUME NEW s \in Servers, NEW k \in Keys
      PROVE  Exclusive(s, k) /\ Holds(s, k)
  <2>1. ~loaded[s]
    BY DEF Init
  <2> QED
    BY <1>1, <2>1 DEF Exclusive, Holds, CacheHolds, ReadHolds, WritesTo, BusyWriting
<1> QED
  BY <1>2, <1>3, <1>4 DEF IInv, PairsOK

-----------------------------------------------------------------------------
(* The theorems.                                                           *)

\* A step that changes nothing keeps the invariant.
LEMMA StutterKeepsIInv ==
  ASSUME IInv, UNCHANGED vars
  PROVE  IInv'
<1> USE DEF vars
<1>1. Types'
  BY DEF IInv, Types
<1>2. \A c \in Clients : HandlerOK(c)'
  BY DEF IInv, HandlerOK, Busy, Req, Server, Place
<1>3. ASSUME NEW s \in Servers, NEW k \in Keys, Trusted(s, k)'
      PROVE  Exclusive(s, k)' /\ Holds(s, k)'
  <2>1. Exclusive(s, k) /\ Holds(s, k)
    BY <1>3 DEF IInv, PairsOK, Trusted
  <2>2. Exclusive(s, k)'
    BY <2>1 DEF Exclusive, WritesTo, BusyWriting, Busy, Req, Server, Key, Loading
  <2>3. CacheHolds(s, k)'
    BY <2>1 DEF Holds, CacheHolds, WritesTo, BusyWriting, Busy, Req, Server, Key, Place, Lookup, Value
  <2>4. \A d \in Clients : ReadHolds(d, s, k)'
    BY <2>1 DEF Holds, ReadHolds, WritesTo, BusyWriting, Busy, Req, Server, Key, Place, Lookup, Value, Edited
  <2> QED
    BY <2>2, <2>3, <2>4 DEF Holds
<1> QED
  BY <1>1, <1>2, <1>3 DEF IInv, PairsOK

LEMMA NextKeepsIInv == IInv /\ [Next]_vars => IInv'
<1> SUFFICES ASSUME IInv, [Next]_vars PROVE IInv'
  OBVIOUS
<1>1. ASSUME NEW c \in Clients, Step(c)
      PROVE  IInv'
  BY <1>1, StepKeepsIInv
<1>2. ASSUME NEW c \in Clients, NEW s \in Servers, NEW q \in Requests, Send(c, s, q)
      PROVE  IInv'
  BY <1>2, SendKeepsIInv
<1>3. ASSUME NEW s \in Servers, Restart(s)
      PROVE  IInv'
  BY <1>3, RestartKeepsIInv
<1>4. CASE Quiet
  BY <1>4, StutterKeepsIInv DEF Quiet
<1>5. CASE UNCHANGED vars
  BY <1>5, StutterKeepsIInv
<1> QED
  BY <1>1, <1>2, <1>3, <1>4, <1>5 DEF Next

\* The invariant: handlers keep to their programs, and whoever reads or writes
\* a key that is not suspect does so alone, and holds what the table says.
THEOREM Invariant == Spec => []IInv
<1>1. Init => IInv
  BY InitOK
<1>2. IInv /\ [Next]_vars => IInv'
  BY NextKeepsIInv
<1> QED
  BY <1>1, <1>2, PTL DEF Spec

\* Types, for any servers, clients and requests: a handler has something to do
\* exactly while its request is in flight, and the table and the caches hold
\* only values of their keys.
THEOREM TypeCorrect == Spec => []TypeOK
<1>1. IInv => TypeOK
  <2> SUFFICES ASSUME IInv PROVE TypeOK
    OBVIOUS
  <2>1. ASSUME NEW S, NEW f \in Tables(S)
        PROVE  IsTable(f, S)
    BY <2>1 DEF Tables, IsTable
  <2>2. Types
    BY DEF IInv
  <2>3. IsTable(store, Rows) /\ \A s \in Servers : IsTable(cache[s], Contents)
    BY <2>1, <2>2 DEF Types
  <2>4. ASSUME NEW c \in Clients
        PROVE  /\ Busy(c) <=> client[c].todo # <<>>
               /\ Busy(c) => Req(c) \in Requests /\ Server(c) \in Servers
               /\ client[c].draft \in Contents
               /\ IsTable(client[c].seen, Contents)
    <3>1. client[c].draft \in Contents /\ client[c].seen \in Tables(Contents) /\ HandlerOK(c)
      BY <2>2 DEF IInv, Types, Handlers
    <3>2. Busy(c) => /\ Req(c) \in Requests /\ Server(c) \in Servers
                     /\ client[c].todo \in Suffixes(Req(c))
      BY <2>2, <3>1, BusyIs
    <3>3. Busy(c) => client[c].todo # <<>>
      BY <3>2, Course
    <3>4. ~Busy(c) => client[c].todo = <<>>
      BY <3>1, IdleIs DEF HandlerOK
    <3> QED
      BY <2>1, <3>1, <3>2, <3>3, <3>4
  <2> QED
    BY <2>2, <2>3, <2>4 DEF TypeOK, Types
<1> QED
  BY <1>1, Invariant, PTL

\* The cache of a loaded server agrees with the table on every key nobody is
\* writing there and nothing has made suspect, for any number of servers and
\* of requests that overlap (settings.go Get, Set, SetIfMissing, Delete).
THEOREM CacheIsRight == Spec => []CacheAgrees
<1>1. IInv => CacheAgrees
  <2> SUFFICES ASSUME IInv, NEW s \in Servers, NEW k \in Keys,
                      loaded[s], \A c \in Clients : ~(BusyWriting(c) /\ Server(c) = s /\ Key(c) = k),
                      <<s, k>> \notin suspect
               PROVE  Lookup(cache[s], k) = Lookup(All, k)
    BY DEF CacheAgrees
  <2>1. CacheHolds(s, k)
    BY DEF IInv, PairsOK, Trusted, Holds
  <2>2. Lookup(cache[s], k) = Value(k)
    BY <2>1 DEF CacheHolds, WritesTo
  <2>3. Lookup(All, k) = Value(k)
    BY TableTypes DEF IInv
  <2> QED
    BY <2>2, <2>3
<1> QED
  BY <1>1, Invariant, PTL

\* Whoever changes the table changes it to what the statement it has come to
\* makes of it.
LEMMA WriterSteps ==
  ASSUME IInv, Next, store' # store, NEW c \in Clients, client'[c] # client[c]
  PROVE  (\E label \in {"store", "create", "display", "drop"} : At(c, label)) /\ store' = Effect(c)
<1>1. PICK d \in Clients : \/ StoreValue(d) \/ Create(d) \/ SetDisplay(d) \/ Drop(d) \/ WriteFails(d)
  BY DEF Next, Step, Load, Fetch, FetchFails, Install, ComposeAdd, ComposeRemove, Exists, CacheValue,
         Uncache, Send, Restart, Quiet, vars
<1>2. \A e \in Clients \ {d} : client'[e] = client[e]
  <2>1. Busy(d)
    BY <1>1 DEF StoreValue, Create, SetDisplay, Drop, WriteFails, At
  <2> QED
    BY <1>1, <2>1, WriteMoves DEF IInv, MovesTo
<1>3. c = d
  BY <1>2
<1>4. Types /\ HandlersOK
  BY DEF IInv, HandlersOK
<1> QED
  BY <1>1, <1>3, <1>4, EffectIs DEF StoreValue, Create, SetDisplay, Drop, WriteFails

\* The projections card edits the stored list, although it starts from the
\* cache and nothing is locked from the read to the write: for any number of
\* forms sent at a time, on any servers (views/projections.go saveTargets,
\* deleteTarget).
THEOREM CardEditsRight == Spec => CardEditsWhatIsStored
<1>1. ASSUME IInv, [Next]_vars, NEW c \in Clients,
             At(c, "store"), store' # store, client'[c] # client[c],
             Req(c).op \in {"add", "remove"}, ~client[c].blind, <<Server(c), Key(c)>> \notin suspect
      PROVE  store'[Key(c)].value = IF Req(c).op = "add" THEN Lookup(All, Key(c)) \cup Req(c).amounts
                                                          ELSE Lookup(All, Key(c)) \ {Req(c).amount}
  <2>1. Types /\ HandlersOK /\ PairsOK
    BY <1>1 DEF IInv, HandlersOK
  <2>2. Next
    BY <1>1 DEF vars
  <2>4. store' = Upserted(Key(c), client[c].draft)
    BY <1>1, <2>1, <2>2, WriterSteps, EffectIs
  <2>5. /\ Busy(c) /\ BusyWriting(c) /\ Key(c) \in Keys /\ Server(c) \in Servers
        /\ client[c].draft \in Contents
    BY <1>1, <2>1, WriterIs DEF At
  <2>6. client[c].draft = Edited(c, Value(Key(c)))
    <3>1. ReadHolds(c, Server(c), Key(c))
      BY <1>1, <2>1, <2>5 DEF PairsOK, Trusted, Holds
    <3> QED
      BY <1>1, <2>5, <3>1 DEF ReadHolds, WritesTo, At, Place
  <2>7. store'[Key(c)].value = Edited(c, Value(Key(c)))
    BY <2>1, <2>4, <2>5, <2>6, UpsertedIs
  <2>8. Lookup(All, Key(c)) = Value(Key(c))
    BY <2>1, <2>5, TableTypes
  <2> QED
    BY <2>7, <2>8 DEF Edited
<1>2. IInv /\ [Next]_vars =>
        [\A c \in Clients :
           At(c, "store") /\ store' # store /\ client'[c] # client[c]
           /\ Req(c).op \in {"add", "remove"} /\ ~client[c].blind
           /\ <<Server(c), Key(c)>> \notin suspect =>
             LET before == Lookup(All, Key(c)) IN
             store'[Key(c)].value = IF Req(c).op = "add" THEN before \cup Req(c).amounts
                                                         ELSE before \ {Req(c).amount}]_store
  BY <1>1
<1> QED
  BY <1>2, Invariant, PTL DEF Spec, CardEditsWhatIsStored

\* POST never writes over a row, PATCH of a key that is not suspect never makes
\* one, and opting out makes none, whatever overlaps (httpapi/settings.go,
\* mysql/settings.go).
THEOREM RowsAppearRight == Spec => RowsAppearAsAsked
<1>1. ASSUME IInv, [Next]_vars, NEW c \in Clients, client'[c] # client[c], Busy(c), store' # store
      PROVE  /\ Req(c).op = "post" => Key(c) \notin DOMAIN store
             /\ Req(c).op = "patch" /\ <<Server(c), Key(c)>> \notin suspect => DOMAIN store' = DOMAIN store
             /\ At(c, "display") /\ ~Req(c).set.display => DOMAIN store' = DOMAIN store
  <2>1. Types /\ HandlersOK /\ PairsOK
    BY <1>1 DEF IInv, HandlersOK
  <2>2. Next
    BY <1>1 DEF vars
  <2>3. PICK label \in {"store", "create", "display", "drop"} : At(c, label) /\ store' = Effect(c)
    BY <1>1, <2>2, WriterSteps
  <2>4. /\ label = "store" => Req(c).op \in {"add", "remove", "patch"}
        /\ label = "create" => Req(c).op = "post"
        /\ label = "display" => Req(c).op = "patch"
        /\ label = "drop" => Req(c).op = "delete"
    BY <2>1, <2>3, EffectIs
  <2>5. Req(c).op # "read"
    BY <2>3, <2>4
  <2>6. /\ BusyWriting(c) /\ Key(c) \in Keys /\ Server(c) \in Servers
        /\ client[c].draft \in Contents /\ Req(c) \in Requests
    BY <1>1, <2>1, <2>5, WriterIs
  <2>7. ASSUME Req(c).op = "post"
        PROVE  Key(c) \notin DOMAIN store
    BY <1>1, <2>1, <2>3, <2>4, <2>7, EffectIs DEF Taken
  <2>8. ASSUME At(c, "display")
        PROVE  /\ Req(c).set.display \in BOOLEAN /\ Touches(store', Key(c))
               /\ Key(c) \in DOMAIN store => Key(c) \in DOMAIN store'
               /\ ~Req(c).set.display => (Key(c) \in DOMAIN store <=> Key(c) \in DOMAIN store')
    <3>1. Req(c).set.display \in BOOLEAN /\ store' = Displayed(Key(c), Req(c).set.display)
      BY <2>1, <2>3, <2>8, EffectIs
    <3> QED
      BY <2>1, <2>6, <3>1, DisplayedIs
  <2>9. ASSUME Touches(store', Key(c)), Key(c) \in DOMAIN store <=> Key(c) \in DOMAIN store'
        PROVE  DOMAIN store' = DOMAIN store
    <3>1. \A j \in DOMAIN store' : j \in DOMAIN store
      BY <2>9 DEF Touches
    <3>2. \A j \in DOMAIN store : j \in DOMAIN store'
      BY <2>9 DEF Touches
    <3> QED
      BY <3>1, <3>2
  <2>10. ASSUME Req(c).op = "patch", <<Server(c), Key(c)>> \notin suspect
         PROVE  DOMAIN store' = DOMAIN store
    <3>1. label \in {"store", "display"}
      BY <2>4, <2>10
    <3>2. Place(c) \in {"store", "display"}
      BY <2>3, <3>1 DEF At, Place
    <3>3. Key(c) \in DOMAIN store
      <4>1. ReadHolds(c, Server(c), Key(c))
        BY <2>1, <2>6, <2>10 DEF PairsOK, Trusted, Holds
      <4> QED
        BY <1>1, <2>6, <2>10, <3>2, <4>1 DEF ReadHolds, WritesTo
    <3>4. CASE label = "display"
      BY <2>3, <2>8, <2>9, <3>3, <3>4
    <3>5. CASE label = "store"
      <4>1. store' = Upserted(Key(c), client[c].draft)
        BY <2>1, <2>3, <3>5, EffectIs
      <4>2. Touches(store', Key(c)) /\ Key(c) \in DOMAIN store'
        BY <2>1, <2>6, <4>1, UpsertedIs
      <4> QED
        BY <2>9, <3>3, <4>2
    <3> QED
      BY <3>1, <3>4, <3>5
  <2>11. ASSUME At(c, "display"), ~Req(c).set.display
         PROVE  DOMAIN store' = DOMAIN store
    BY <2>8, <2>9, <2>11
  <2> QED
    BY <2>7, <2>10, <2>11
<1>2. IInv /\ [Next]_vars =>
        [\A c \in Clients : client'[c] # client[c] /\ Busy(c) /\ store' # store =>
           /\ Req(c).op = "post" => Key(c) \notin DOMAIN store
           /\ Req(c).op = "patch" /\ <<Server(c), Key(c)>> \notin suspect => DOMAIN store' = DOMAIN store
           /\ At(c, "display") /\ ~Req(c).set.display => DOMAIN store' = DOMAIN store]_store
  BY <1>1
<1> QED
  BY <1>2, Invariant, PTL DEF Spec, RowsAppearAsAsked
=============================================================================
