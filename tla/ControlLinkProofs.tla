--------------------------- MODULE ControlLinkProofs ---------------------------
(***************************************************************************)
(* Proofs about ControlLink, for any number of controller applications and *)
(* of commands on their way.                                               *)
(***************************************************************************)
EXTENDS ControlLink, FiniteSetTheorems, SequenceTheorems, TLAPS

Commands == {"reload", "CONTROLLER"}

TypeInv ==
  /\ running \in BOOLEAN /\ listening \in BOOLEAN /\ current \in BOOLEAN
  /\ reloadDue \in BOOLEAN /\ missed \in BOOLEAN
  /\ gui \in [Apps -> {"off", "idle", "saved"}]
  /\ client \in [Apps -> {"none", "created", "unconnected", "connected", "lost"}]
  /\ greetDue \in [Apps -> BOOLEAN]
  /\ pipe \in [Apps -> Seq(Commands)]
  /\ accepted \in [Apps -> BOOLEAN]
  /\ inbox \in [Apps -> Seq(Commands)]
  /\ notified \in [Apps -> BOOLEAN]
  /\ controller \in Apps \cup {None}
  /\ swallowed \in [Apps -> Nat]
  /\ early \in [Apps -> BOOLEAN]
  /\ superseded \in [Apps -> BOOLEAN]

\* What an application wrote and the server has not read.
Stream(a) == inbox[a] \o pipe[a]

\* There is one greeting at most.
Single(s) == \A i, j \in DOMAIN s : s[i] = "CONTROLLER" /\ s[j] = "CONTROLLER" => i = j

\* A greeting is the first command.
GreetsFirst(s) == \A i \in DOMAIN s : s[i] = "CONTROLLER" => i = 1

(***************************************************************************)
(* A connection greets once.  Until its greeting is read it has lost no    *)
(* request and is not the controller; a request lost took the greeting     *)
(* with it.  If no request was sent before it the greeting comes first,    *)
(* and whatever reads the buffer takes it.                                 *)
(***************************************************************************)
AppInv(a) ==
  /\ client[a] # "connected" =>
       /\ pipe[a] = <<>> /\ inbox[a] = <<>> /\ ~greetDue[a] /\ ~notified[a]
       /\ swallowed[a] = 0 /\ controller # a
  /\ Single(Stream(a))
  /\ greetDue[a] => ~Has(Stream(a), "CONTROLLER")
  /\ greetDue[a] \/ Has(Stream(a), "CONTROLLER") => swallowed[a] = 0 /\ controller # a
  /\ swallowed[a] <= 1
  /\ swallowed[a] = 1 => controller # a
  /\ ~early[a] =>
       /\ greetDue[a] => Stream(a) = <<>>
       /\ GreetsFirst(Stream(a))
       /\ client[a] = "connected" /\ ~greetDue[a] =>
            \/ Has(Stream(a), "CONTROLLER")
            \/ controller = a \/ superseded[a] \/ swallowed[a] = 1
       /\ accepted[a] /\ ~notified[a] => ~Has(inbox[a], "CONTROLLER")

LinkInv == \A a \in Apps : AppInv(a)

IInv == TypeInv /\ LinkInv /\ RequestOnTheWay

-----------------------------------------------------------------------------
(* Facts about sequences.                                                  *)

\* A set of numbers has a least one: of the intervals up to its members one has
\* none strictly inside it.
LEMMA LeastNumber ==
  ASSUME NEW S \in SUBSET Nat, S # {}
  PROVE  \E m \in S : \A k \in S : m <= k
<1> DEFINE upTo == {0..i : i \in S}
<1>1. upTo \subseteq FiniteSubsetsOf(Nat)
  <2>1. \A i \in S : IsFiniteSet(0..i) /\ 0..i \subseteq Nat
    BY FS_Interval
  <2> QED BY <2>1 DEF FiniteSubsetsOf
<1>2. upTo # {}
  OBVIOUS
<1>3. IsWellFoundedOn(StrictSubsetOrdering(Nat), FiniteSubsetsOf(Nat))
  BY FS_StrictSubsetOrderingWellFounded
<1> HIDE DEF upTo
<1>4. PICK x \in upTo : \A y \in upTo : ~(<<y, x>> \in StrictSubsetOrdering(Nat))
  BY <1>1, <1>2, <1>3, WFMin
<1>5. PICK m \in S : x = 0..m
  BY DEF upTo
<1>6. ASSUME NEW k \in S, k < m PROVE FALSE
  <2>1. 0..k \in upTo
    BY DEF upTo
  <2>2. m \in 0..m /\ m \notin 0..k
    BY <1>6
  <2>3. <<0..k, 0..m>> \in StrictSubsetOrdering(Nat)
    BY <1>6, <2>2 DEF StrictSubsetOrdering
  <2> QED BY <1>4, <1>5, <2>1, <2>3
<1> QED BY <1>6

\* A list and its domain.
LEMMA SeqDomain ==
  ASSUME NEW T, NEW s \in Seq(T)
  PROVE  Len(s) \in Nat /\ DOMAIN s = 1..Len(s) /\ \A i \in DOMAIN s : s[i] \in T
OBVIOUS

\* The line that readLine returns ends with the first request, if there is one.
LEMMA LineLengthFacts ==
  ASSUME NEW s \in Seq(Commands)
  PROVE  /\ LineLength(s) \in 0..Len(s)
         /\ Has(s, "reload") => /\ LineLength(s) >= 1 /\ s[LineLength(s)] = "reload"
                                /\ \A i \in 1..(LineLength(s) - 1) : s[i] # "reload"
         /\ ~Has(s, "reload") => LineLength(s) = Len(s)
<1>1. Len(s) \in Nat /\ DOMAIN s = 1..Len(s)
  BY SeqDomain
<1>2. CASE ~Has(s, "reload")
  BY <1>1, <1>2 DEF LineLength
<1>3. CASE Has(s, "reload")
  <2> DEFINE requests == {i \in DOMAIN s : s[i] = "reload"}
  <2>1. PICK m \in requests : \A k \in requests : m <= k
    <3>1. requests \in SUBSET Nat /\ requests # {}
      BY <1>1, <1>3 DEF Has
    <3> HIDE DEF requests
    <3> QED BY <3>1, LeastNumber
  <2>2. \A i \in DOMAIN s : ~Has(SubSeq(s, 1, i - 1), "reload") <=>
                            \A j \in 1..(i - 1) : s[j] # "reload"
    <3> SUFFICES ASSUME NEW i \in DOMAIN s
                 PROVE  ~Has(SubSeq(s, 1, i - 1), "reload") <=>
                        \A j \in 1..(i - 1) : s[j] # "reload"
      OBVIOUS
    <3> DEFINE r == SubSeq(s, 1, i - 1)
    <3>1. DOMAIN r = 1..(i - 1) /\ \A j \in 1..(i - 1) : r[j] = s[j]
      BY <1>1
    <3> HIDE DEF r
    <3>2. ~Has(r, "reload") <=> \A j \in 1..(i - 1) : s[j] # "reload"
      BY <3>1 DEF Has
    <3> QED BY <3>2 DEF r
  <2>3. m \in DOMAIN s /\ s[m] = "reload" /\ ~Has(SubSeq(s, 1, m - 1), "reload")
    <3>1. \A j \in 1..(m - 1) : s[j] # "reload"
      BY <1>1, <2>1
    <3> QED BY <2>2, <3>1
  <2>4. /\ LineLength(s) \in DOMAIN s /\ s[LineLength(s)] = "reload"
        /\ ~Has(SubSeq(s, 1, LineLength(s) - 1), "reload")
    BY <1>3, <2>3 DEF LineLength
  <2> QED BY <1>1, <1>3, <2>2, <2>4
<1> QED BY <1>2, <1>3

\* What a read takes, and what it leaves.
Line(s) == SubSeq(s, 1, LineLength(s))
Rest(s) == SubSeq(s, LineLength(s) + 1, Len(s))

LEMMA LineFacts ==
  ASSUME NEW s \in Seq(Commands)
  PROVE  /\ Line(s) \in Seq(Commands) /\ Len(Line(s)) = LineLength(s)
         /\ DOMAIN Line(s) = 1..LineLength(s)
         /\ \A i \in 1..LineLength(s) : Line(s)[i] = s[i]
         /\ Rest(s) \in Seq(Commands) /\ Len(Rest(s)) = Len(s) - LineLength(s)
         /\ \A i \in 1..(Len(s) - LineLength(s)) : Rest(s)[i] = s[i + LineLength(s)]
<1> DEFINE n == LineLength(s)
<1>1. Len(s) \in Nat /\ n \in 0..Len(s)
  BY LineLengthFacts, SeqDomain
<1> HIDE DEF n
<1>2. /\ SubSeq(s, 1, n) \in Seq(Commands) /\ Len(SubSeq(s, 1, n)) = n
      /\ DOMAIN SubSeq(s, 1, n) = 1..n
      /\ \A i \in 1..n : SubSeq(s, 1, n)[i] = s[i]
  BY <1>1
<1>3. /\ SubSeq(s, n + 1, Len(s)) \in Seq(Commands)
      /\ Len(SubSeq(s, n + 1, Len(s))) = Len(s) - n
      /\ \A i \in 1..(Len(s) - n) : SubSeq(s, n + 1, Len(s))[i] = s[i + n]
  BY <1>1
<1> QED BY <1>2, <1>3 DEF n, Line, Rest

\* A request is lost only behind the greeting, and whatever takes the greeting
\* is a greeting or loses a request.
LEMMA LineCommands ==
  ASSUME NEW s \in Seq(Commands)
  PROVE  /\ s # <<>> => LineLength(s) >= 1
         /\ Line(s) = <<"CONTROLLER">> => s # <<>> /\ s[1] = "CONTROLLER"
         /\ Has(Line(s), "reload") /\ Line(s) # <<"reload">> => s # <<>> /\ s[1] = "CONTROLLER"
         /\ Has(s, "reload") <=> Has(Line(s), "reload")
         /\ s # <<>> /\ s[1] = "CONTROLLER" /\ Single(s) /\ Line(s) # <<"CONTROLLER">>
              => Has(Line(s), "reload") /\ Line(s) # <<"reload">>
<1> DEFINE n == LineLength(s)
           l == Line(s)
<1>1. Len(s) \in Nat /\ DOMAIN s = 1..Len(s) /\ \A i \in 1..Len(s) : s[i] \in Commands
  BY SeqDomain
<1>2. n \in Nat /\ n <= Len(s) /\ (~Has(s, "reload") => n = Len(s))
  BY <1>1, LineLengthFacts
<1>3. Has(s, "reload") => n >= 1 /\ s[n] = "reload" /\ \A i \in 1..(n - 1) : s[i] # "reload"
  BY LineLengthFacts
<1>4. /\ l \in Seq(Commands) /\ Len(l) = n /\ DOMAIN l = 1..n
      /\ \A i \in 1..n : l[i] = s[i]
  BY LineFacts
<1> HIDE DEF n, l
<1>5. s # <<>> => Len(s) # 0
  OBVIOUS
<1>6. s # <<>> => n >= 1
  <2>1. Len(s) \in Nat /\ n \in Nat
    BY <1>1, <1>2
  <2>2. CASE Has(s, "reload")
    BY <1>3, <2>2
  <2>3. CASE ~Has(s, "reload")
    <3>1. n = Len(s)
      BY <1>2, <2>3
    <3> QED BY <1>5, <2>1, <3>1
  <2> QED BY <2>2, <2>3
<1>7. \A c \in Commands : l = <<c>> <=> n = 1 /\ l[1] = c
  BY <1>4
<1>8. Has(s, "reload") <=> Has(l, "reload")
  <2>1. Has(s, "reload") => n \in DOMAIN l /\ l[n] = "reload"
    BY <1>2, <1>3, <1>4
  <2>2. \A i \in DOMAIN l : i \in DOMAIN s /\ l[i] = s[i]
    BY <1>1, <1>2, <1>4
  <2> QED BY <2>1, <2>2 DEF Has
<1>9. l = <<"CONTROLLER">> => s # <<>> /\ s[1] = "CONTROLLER"
  <2> SUFFICES ASSUME l = <<"CONTROLLER">> PROVE s # <<>> /\ s[1] = "CONTROLLER"
    OBVIOUS
  <2>1. n = 1 /\ l[1] = "CONTROLLER"
    BY <1>7 DEF Commands
  <2> QED BY <1>1, <1>2, <1>4, <2>1
<1>10. Has(l, "reload") /\ l # <<"reload">> => s # <<>> /\ s[1] = "CONTROLLER"
  <2> SUFFICES ASSUME Has(l, "reload"), l # <<"reload">> PROVE s # <<>> /\ s[1] = "CONTROLLER"
    OBVIOUS
  <2>1. n >= 1 /\ s[n] = "reload" /\ \A i \in 1..(n - 1) : s[i] # "reload"
    BY <1>3, <1>8
  <2>2. n # 1
    BY <1>4, <1>7, <2>1 DEF Commands
  <2>3. 1 \in 1..(n - 1) /\ 1 \in 1..Len(s) /\ Len(s) # 0
    <3>1. n >= 2 /\ n <= Len(s)
      BY <1>2, <2>1, <2>2
    <3>2. Len(s) \in Nat /\ n \in Nat
      BY <1>1, <1>2
    <3> QED BY <3>1, <3>2
  <2>4. s[1] \in Commands /\ s[1] # "reload"
    BY <1>1, <2>1, <2>3
  <2> QED BY <2>3, <2>4 DEF Commands
<1>11. ASSUME s # <<>>, s[1] = "CONTROLLER", Single(s), l # <<"CONTROLLER">>
       PROVE  Has(l, "reload") /\ l # <<"reload">>
  <2>1. n >= 1 /\ l[1] = "CONTROLLER"
    BY <1>2, <1>4, <1>6, <1>11
  <2>2. n # 1
    BY <1>7, <1>11, <2>1 DEF Commands
  <2>3. Has(l, "reload")
    <3> SUFFICES ASSUME ~Has(s, "reload") PROVE FALSE
      BY <1>8
    <3>1. 1 \in DOMAIN s /\ 2 \in DOMAIN s
      BY <1>1, <1>2, <2>1, <2>2
    <3>2. s[2] = "CONTROLLER"
      BY <1>1, <3>1 DEF Has, Commands
    <3> QED BY <1>11, <3>1, <3>2 DEF Single
  <2> QED BY <2>2, <1>7, <2>3 DEF Commands
<1> QED BY <1>6, <1>8, <1>9, <1>10, <1>11 DEF n, l

\* Two lists one after the other.
LEMMA ConcatFacts ==
  ASSUME NEW T, NEW s \in Seq(T), NEW t \in Seq(T)
  PROVE  /\ s \o t \in Seq(T) /\ Len(s \o t) = Len(s) + Len(t)
         /\ DOMAIN (s \o t) = 1..(Len(s) + Len(t))
         /\ \A i \in 1..(Len(s) + Len(t)) :
              (s \o t)[i] = IF i <= Len(s) THEN s[i] ELSE t[i - Len(s)]
BY ConcatProperties, LenProperties

\* Three lists one after the other.
LEMMA ThreeParts ==
  ASSUME NEW s \in Seq(Commands), NEW t \in Seq(Commands), NEW u \in Seq(Commands)
  PROVE  (s \o t) \o u = s \o (t \o u)
BY ConcatAssociative

\* What is in two lists one after the other.
LEMMA HasConcat ==
  ASSUME NEW s \in Seq(Commands), NEW t \in Seq(Commands), NEW c
  PROVE  Has(s \o t, c) <=> Has(s, c) \/ Has(t, c)
<1>1. \A r : Has(r, c) <=> c \in Range(r)
  BY DEF Has, Range
<1> QED BY <1>1, RangeConcatenation

\* One command more.
LEMMA AppendFacts ==
  ASSUME NEW s \in Seq(Commands), NEW t \in Seq(Commands), NEW c \in Commands
  PROVE  /\ Append(t, c) \in Seq(Commands)
         /\ \A d : Has(Append(t, c), d) <=> Has(t, d) \/ c = d
         /\ s \o Append(t, c) = Append(s \o t, c)
<1>1. /\ Append(t, c) \in Seq(Commands) /\ Len(Append(t, c)) = Len(t) + 1
      /\ \A i \in 1..Len(t) : Append(t, c)[i] = t[i]
      /\ Append(t, c)[Len(t) + 1] = c
  BY AppendProperties
<1> DEFINE u == Append(t, c)
<1> HIDE DEF u
<1>2. u \in Seq(Commands) /\ Len(u) = Len(t) + 1 /\ u[Len(t) + 1] = c
      /\ \A i \in 1..Len(t) : u[i] = t[i]
  BY <1>1 DEF u
<1>3. Len(t) \in Nat /\ DOMAIN t = 1..Len(t) /\ DOMAIN u = 1..(Len(t) + 1)
  BY <1>2, SeqDomain
<1>4. \A d : Has(u, d) <=> Has(t, d) \/ c = d
  <2>1. Len(t) + 1 \in DOMAIN u /\ u[Len(t) + 1] = c
    BY <1>2, <1>3
  <2>2. \A i \in DOMAIN t : i \in DOMAIN u /\ u[i] = t[i]
    BY <1>2, <1>3
  <2>3. \A i \in DOMAIN u : (i \in DOMAIN t /\ u[i] = t[i]) \/ u[i] = c
    BY <1>2, <1>3
  <2> QED BY <2>1, <2>2, <2>3 DEF Has
<1>5. s \o u = Append(s \o t, c)
  <2>1. u = t \o <<c>> /\ <<c>> \in Seq(Commands) /\ s \o t \in Seq(Commands)
    BY AppendIsConcat, ConcatFacts DEF u
  <2>2. Append(s \o t, c) = (s \o t) \o <<c>>
    BY <2>1, AppendIsConcat
  <2>3. (s \o t) \o <<c>> = s \o (t \o <<c>>)
    BY <2>1, ThreeParts
  <2> QED BY <2>1, <2>2, <2>3
<1> QED BY <1>2, <1>4, <1>5 DEF u

\* Commands that arrive leave the stream as it is.
LEMMA ArriveFacts ==
  ASSUME NEW s \in Seq(Commands), NEW t \in Seq(Commands), NEW n \in 1..Len(t)
  PROVE  /\ s \o SubSeq(t, 1, n) \in Seq(Commands) /\ SubSeq(t, n + 1, Len(t)) \in Seq(Commands)
         /\ (s \o SubSeq(t, 1, n)) \o SubSeq(t, n + 1, Len(t)) = s \o t
<1>1. Len(t) \in Nat /\ n \in Nat /\ n <= Len(t)
  BY SeqDomain
<1> DEFINE h == SubSeq(t, 1, n)
           r == SubSeq(t, n + 1, Len(t))
<1>2. h \in Seq(Commands) /\ r \in Seq(Commands)
  BY <1>1
<1>3. h \o r = t
  <2>1. 1 \in 1..(Len(t) + 1) /\ n \in (1 - 1)..Len(t) /\ Len(t) \in n..Len(t)
    BY <1>1
  <2> QED BY <2>1, ConcatAdjacentSubSeq, SubSeqFull
<1> HIDE DEF h, r
<1>4. s \o h \in Seq(Commands) /\ (s \o h) \o r = s \o t
  <2>1. (s \o h) \o r = s \o (h \o r)
    BY <1>2, ThreeParts
  <2> QED BY <1>2, <1>3, <2>1, ConcatProperties
<1> QED BY <1>2, <1>4 DEF h, r

\* A read takes commands from the front of the stream.
LEMMA ReadFacts ==
  ASSUME NEW s \in Seq(Commands), NEW t \in Seq(Commands)
  PROVE  /\ LineLength(s) \in Nat
         /\ \A i \in DOMAIN (Rest(s) \o t) :
              /\ i >= 1 /\ i + LineLength(s) \in DOMAIN (s \o t)
              /\ (Rest(s) \o t)[i] = (s \o t)[i + LineLength(s)]
<1> DEFINE n == LineLength(s)
           r == Rest(s)
<1>1. Len(s) \in Nat /\ Len(t) \in Nat /\ n \in Nat /\ n <= Len(s)
  BY SeqDomain, LineLengthFacts
<1>2. r \in Seq(Commands) /\ Len(r) = Len(s) - n /\ \A i \in 1..(Len(s) - n) : r[i] = s[i + n]
  BY LineFacts
<1> HIDE DEF n, r
<1>3. /\ DOMAIN (r \o t) = 1..((Len(s) - n) + Len(t))
      /\ \A i \in 1..((Len(s) - n) + Len(t)) :
           (r \o t)[i] = IF i <= Len(s) - n THEN r[i] ELSE t[i - (Len(s) - n)]
  <2>1. /\ DOMAIN (r \o t) = 1..(Len(r) + Len(t))
        /\ \A i \in 1..(Len(r) + Len(t)) :
             (r \o t)[i] = IF i <= Len(r) THEN r[i] ELSE t[i - Len(r)]
    BY <1>2, ConcatFacts
  <2>2. Len(r) = Len(s) - n
    BY <1>2
  <2> QED BY <2>1, <2>2
<1>4. /\ DOMAIN (s \o t) = 1..(Len(s) + Len(t))
      /\ \A i \in 1..(Len(s) + Len(t)) :
           (s \o t)[i] = IF i <= Len(s) THEN s[i] ELSE t[i - Len(s)]
  BY ConcatFacts
<1>5. ASSUME NEW i \in 1..((Len(s) - n) + Len(t))
      PROVE  i >= 1 /\ i + n \in 1..(Len(s) + Len(t)) /\ (r \o t)[i] = (s \o t)[i + n]
  <2>1. i >= 1 /\ i + n \in 1..(Len(s) + Len(t))
    BY <1>1
  <2>2. CASE i <= Len(s) - n
    <3>1. i + n <= Len(s) /\ i \in 1..(Len(s) - n)
      BY <1>1, <2>2
    <3> QED BY <1>2, <1>3, <1>4, <2>1, <2>2, <3>1
  <2>3. CASE ~(i <= Len(s) - n)
    <3>1. ~(i + n <= Len(s)) /\ (i + n) - Len(s) = i - (Len(s) - n)
      BY <1>1, <2>3
    <3> QED BY <1>3, <1>4, <2>1, <2>3, <3>1
  <2> QED BY <2>1, <2>2, <2>3
<1>6. n \in Nat /\ \A i \in DOMAIN (r \o t) :
        i >= 1 /\ i + n \in DOMAIN (s \o t) /\ (r \o t)[i] = (s \o t)[i + n]
  BY <1>1, <1>3, <1>4, <1>5
<1> QED BY <1>6 DEF n, r
-----------------------------------------------------------------------------
(* What is left of the stream after a read, a greeting and a request.      *)

LEMMA StreamAfterRead ==
  ASSUME NEW s \in Seq(Commands), NEW t \in Seq(Commands), Single(s \o t)
  PROVE  /\ Single(Rest(s) \o t) /\ Single(s)
         /\ \A c : Has(Rest(s) \o t, c) => Has(s \o t, c)
         /\ s # <<>> /\ s[1] = "CONTROLLER" => ~Has(Rest(s) \o t, "CONTROLLER")
         /\ s # <<>> /\ GreetsFirst(s \o t) => ~Has(Rest(s) \o t, "CONTROLLER")
         /\ GreetsFirst(s \o t) => GreetsFirst(Rest(s) \o t)
         /\ GreetsFirst(s \o t) /\ Has(s \o t, "CONTROLLER") /\ s # <<>> => s[1] = "CONTROLLER"
<1> DEFINE n == LineLength(s)
           u == s \o t
           v == Rest(s) \o t
<1>1. /\ n \in Nat /\ \A i \in DOMAIN v : i >= 1 /\ i \in Nat /\ i + n \in DOMAIN u /\ v[i] = u[i + n]
  <2>1. DOMAIN v \subseteq Nat
    <3>1. v \in Seq(Commands)
      BY LineFacts, ConcatProperties
    <3> QED BY <3>1, SeqDomain
  <2> QED BY <2>1, ReadFacts
<1>2. /\ DOMAIN s \subseteq DOMAIN u /\ \A i \in DOMAIN s : u[i] = s[i]
      /\ s # <<>> => 1 \in DOMAIN s /\ 1 \in DOMAIN u /\ n >= 1
  <2>1. Len(s) \in Nat /\ Len(t) \in Nat /\ DOMAIN s = 1..Len(s)
    BY SeqDomain
  <2>2. /\ DOMAIN u = 1..(Len(s) + Len(t))
        /\ \A i \in 1..(Len(s) + Len(t)) : u[i] = IF i <= Len(s) THEN s[i] ELSE t[i - Len(s)]
    BY ConcatFacts
  <2>3. s # <<>> => Len(s) >= 1
    BY <2>1, EmptySeq
  <2>4. s # <<>> => n >= 1
    BY LineCommands
  <2> HIDE DEF u, n
  <2> QED BY <2>1, <2>2, <2>3, <2>4
<1>3. Single(u)
  OBVIOUS
<1> HIDE DEF n, u, v
<1>4. Single(v)
  <2> SUFFICES ASSUME NEW i \in DOMAIN v, NEW j \in DOMAIN v, v[i] = "CONTROLLER", v[j] = "CONTROLLER"
               PROVE  i = j
    BY DEF Single
  <2>1. i + n = j + n
    BY <1>1, <1>3 DEF Single
  <2> QED BY <1>1, <2>1
<1>5. Single(s)
  BY <1>2, <1>3 DEF Single
<1>6. \A c : Has(v, c) => Has(u, c)
  BY <1>1 DEF Has
<1>7. ASSUME s # <<>>, s[1] = "CONTROLLER" PROVE ~Has(v, "CONTROLLER")
  <2> SUFFICES ASSUME NEW i \in DOMAIN v, v[i] = "CONTROLLER" PROVE FALSE
    BY DEF Has
  <2>1. i + n = 1
    BY <1>1, <1>2, <1>3, <1>7 DEF Single
  <2> QED BY <1>1, <1>2, <1>7, <2>1
<1>8. ASSUME s # <<>>, GreetsFirst(u) PROVE ~Has(v, "CONTROLLER")
  <2> SUFFICES ASSUME NEW i \in DOMAIN v, v[i] = "CONTROLLER" PROVE FALSE
    BY DEF Has
  <2>1. i + n = 1
    BY <1>1, <1>8 DEF GreetsFirst
  <2> QED BY <1>1, <1>2, <1>8, <2>1
<1>9. ASSUME GreetsFirst(u) PROVE GreetsFirst(v)
  <2> SUFFICES ASSUME NEW i \in DOMAIN v, v[i] = "CONTROLLER" PROVE i = 1
    BY DEF GreetsFirst
  <2>1. i + n = 1
    BY <1>1, <1>9 DEF GreetsFirst
  <2> QED BY <1>1, <2>1
<1>10. ASSUME GreetsFirst(u), Has(u, "CONTROLLER"), s # <<>> PROVE s[1] = "CONTROLLER"
  BY <1>2, <1>10 DEF GreetsFirst, Has
<1> QED BY <1>4, <1>5, <1>6, <1>7, <1>8, <1>9, <1>10 DEF u, v

\* A command put at the end.
LEMMA StreamAfterAppend ==
  ASSUME NEW s \in Seq(Commands), NEW c \in Commands
  PROVE  /\ Single(s) /\ (c = "reload" \/ ~Has(s, "CONTROLLER")) => Single(Append(s, c))
         /\ GreetsFirst(s) /\ (c = "reload" \/ s = <<>>) => GreetsFirst(Append(s, c))
         /\ \A d : Has(Append(s, c), d) <=> Has(s, d) \/ c = d
<1> DEFINE u == Append(s, c)
<1>1. u \in Seq(Commands) /\ Len(u) = Len(s) + 1 /\ u[Len(s) + 1] = c
      /\ \A i \in 1..Len(s) : u[i] = s[i]
  BY AppendProperties
<1>2. \A d : Has(u, d) <=> Has(s, d) \/ c = d
  BY AppendFacts
<1> HIDE DEF u
<1>3. Len(s) \in Nat /\ DOMAIN s = 1..Len(s) /\ DOMAIN u = 1..(Len(s) + 1)
  BY <1>1, SeqDomain
<1>4. \A i \in DOMAIN u : (i \in DOMAIN s /\ u[i] = s[i]) \/ (i = Len(s) + 1 /\ u[i] = c)
  <2>1. \A i \in DOMAIN u : i \in 1..Len(s) \/ i = Len(s) + 1
    BY <1>3
  <2> QED BY <1>1, <1>3, <2>1
<1>5. ASSUME Single(s), c = "reload" \/ ~Has(s, "CONTROLLER") PROVE Single(u)
  BY <1>4, <1>5 DEF Single, Has
<1>6. ASSUME GreetsFirst(s), c = "reload" \/ s = <<>> PROVE GreetsFirst(u)
  <2>1. s = <<>> => Len(s) + 1 = 1
    BY EmptySeq
  <2> QED BY <1>3, <1>4, <1>6, <2>1 DEF GreetsFirst
<1> QED BY <1>2, <1>5, <1>6 DEF u

-----------------------------------------------------------------------------
(* The types.                                                              *)

LEMMA ReadTypes ==
  ASSUME TypeInv, NEW a \in Apps, OnReadyRead(a)
  PROVE  /\ inbox' \in [Apps -> Seq(Commands)] /\ inbox' = [inbox EXCEPT ![a] = Rest(inbox[a])]
         /\ reloadDue' \in BOOLEAN /\ missed' \in BOOLEAN /\ controller' \in Apps \cup {None}
         /\ swallowed' \in [Apps -> Nat] /\ early' = early
         /\ superseded' \in [Apps -> BOOLEAN]
<1>1. inbox[a] \in Seq(Commands)
  BY DEF TypeInv
<1>2. /\ Rest(inbox[a]) \in Seq(Commands)
      /\ Rest(inbox[a]) = SubSeq(inbox[a], Len(Line(inbox[a])) + 1, Len(inbox[a]))
  BY <1>1, LineFacts DEF Rest
<1>3. inbox' = [inbox EXCEPT ![a] = Rest(inbox[a])]
  BY <1>2 DEF OnReadyRead, Line
<1>4. swallowed' \in [Apps -> Nat]
  BY DEF OnReadyRead, TypeInv
<1>5. superseded' \in [Apps -> BOOLEAN]
  BY DEF OnReadyRead, TypeInv
<1>6. inbox' \in [Apps -> Seq(Commands)]
  BY <1>2, <1>3 DEF TypeInv
<1>7. reloadDue' \in BOOLEAN /\ missed' \in BOOLEAN
  BY DEF OnReadyRead, TypeInv
<1>8. controller' \in Apps \cup {None} /\ early' = early
  BY DEF OnReadyRead, TypeInv
<1> QED BY <1>3, <1>4, <1>5, <1>6, <1>7, <1>8

LEMMA DisconnectTypes ==
  ASSUME TypeInv, NEW a \in Apps, Disconnect(a), UNCHANGED <<running, listening, current>>,
         gui' \in [Apps -> {"off", "idle", "saved"}]
  PROVE  TypeInv'
<1>1. <<>> \in Seq(Commands)
  OBVIOUS
<1> QED BY <1>1 DEF Disconnect, TypeInv

LEMMA StepTypes ==
  ASSUME TypeInv, [Next]_vars
  PROVE  TypeInv'
<1>1. CASE UNCHANGED vars
  BY <1>1 DEF TypeInv, vars, service, conns, history
<1>2. CASE Listen \/ StartService \/ Reload
  BY <1>2 DEF Listen, StartService, Reload, TypeInv, service, conns, history
<1>3. CASE StopService
  <2>1. <<>> \in Seq(Commands)
    OBVIOUS
  <2> QED BY <1>3, <2>1 DEF StopService, TypeInv, service, conns, history
<1>4. ASSUME NEW a \in Apps, Open(a) \/ Save(a)
      PROVE  TypeInv'
  BY <1>4 DEF Open, Save, ClientAtTick, TypeInv, service, conns, history
<1>5. ASSUME NEW a \in Apps, Quit(a)
      PROVE  TypeInv'
  BY <1>5, DisconnectTypes DEF Quit, TypeInv
<1>6. ASSUME NEW a \in Apps, Tick(a)
      PROVE  TypeInv'
  <2>1. CASE ~running /\ client[a] # "none"
    BY <1>6, <2>1, DisconnectTypes DEF Tick, TypeInv
  <2>2. CASE ~(~running /\ client[a] # "none")
    BY <1>6, <2>2 DEF Tick, ClientAtTick, TypeInv, service, conns, history
  <2> QED BY <2>1, <2>2
<1>7. ASSUME NEW a \in Apps, Send(a)
      PROVE  TypeInv'
  <2>1. Append(pipe[a], "reload") \in Seq(Commands)
    BY AppendProperties DEF TypeInv, Commands
  <2>2. CASE client[a] = "created"
    BY <1>7, <2>2 DEF Send, TypeInv, service
  <2>3. CASE client[a] = "connected"
    <3>1. pipe' \in [Apps -> Seq(Commands)] /\ gui' \in [Apps -> {"off", "idle", "saved"}]
      <4>1. /\ pipe' = [pipe EXCEPT ![a] = Append(pipe[a], "reload")]
            /\ gui' = [gui EXCEPT ![a] = "idle"]
        BY <1>7, <2>3 DEF Send
      <4> QED BY <2>1, <4>1 DEF TypeInv
    <3>2. early' \in [Apps -> BOOLEAN]
      <4>1. (early[a] \/ greetDue[a]) \in BOOLEAN
        OBVIOUS
      <4>2. early' = [early EXCEPT ![a] = early[a] \/ greetDue[a]]
        BY <1>7, <2>3, Zenon DEF Send
      <4> QED BY <4>1, <4>2, Zenon DEF TypeInv
    <3> QED BY <1>7, <2>3, <3>1, <3>2 DEF Send, TypeInv, service
  <2>4. CASE client[a] # "created" /\ client[a] # "connected"
    BY <1>7, <2>4 DEF Send, TypeInv, service
  <2> QED BY <2>2, <2>3, <2>4
<1>8. ASSUME NEW a \in Apps, ClientThread(a)
      PROVE  TypeInv'
  <2>1. Append(pipe[a], "CONTROLLER") \in Seq(Commands)
    BY AppendProperties DEF TypeInv, Commands
  <2>2. CASE TryConnect(a)
    BY <2>2 DEF TryConnect, TypeInv, service, conns, history
  <2>3. CASE Greet(a)
    BY <2>1, <2>3 DEF Greet, TypeInv, service, history
  <2> QED BY <1>8, <2>2, <2>3 DEF ClientThread
<1>9. ASSUME NEW a \in Apps, Arrive(a)
      PROVE  TypeInv'
  <2>1. PICK n \in 1..Len(pipe[a]) :
          /\ inbox' = [inbox EXCEPT ![a] = @ \o SubSeq(pipe[a], 1, n)]
          /\ pipe' = [pipe EXCEPT ![a] = SubSeq(@, n + 1, Len(@))]
    BY <1>9 DEF Arrive
  <2>2. inbox[a] \in Seq(Commands) /\ pipe[a] \in Seq(Commands)
    BY DEF TypeInv
  <2>3. /\ inbox[a] \o SubSeq(pipe[a], 1, n) \in Seq(Commands)
        /\ SubSeq(pipe[a], n + 1, Len(pipe[a])) \in Seq(Commands)
    BY <2>2, ArriveFacts
  <2>4. inbox' \in [Apps -> Seq(Commands)] /\ pipe' \in [Apps -> Seq(Commands)]
    BY <2>1, <2>3 DEF TypeInv
  <2> QED BY <1>9, <2>4 DEF Arrive, TypeInv, service, history
<1>10. ASSUME NEW a \in Apps, Accept(a)
       PROVE  TypeInv'
  <2>1. CASE inbox[a] # <<>>
    BY <1>10, <2>1, ReadTypes DEF Accept, TypeInv
  <2>2. CASE inbox[a] = <<>>
    BY <1>10, <2>2 DEF Accept, TypeInv, history
  <2> QED BY <2>1, <2>2
<1>11. ASSUME NEW a \in Apps, ReadLine(a)
       PROVE  TypeInv'
  BY <1>11, ReadTypes DEF ReadLine, TypeInv
<1> QED BY <1>1, <1>2, <1>3, <1>4, <1>5, <1>6, <1>7, <1>8, <1>9, <1>10, <1>11 DEF Next

-----------------------------------------------------------------------------
(* A connection, step by step.                                             *)

\* Another application takes no part in the step.
LEMMA OtherApp ==
  ASSUME NEW b, AppInv(b),
         client'[b] = client[b], greetDue'[b] = greetDue[b], pipe'[b] = pipe[b],
         accepted'[b] = accepted[b], inbox'[b] = inbox[b], notified'[b] = notified[b],
         swallowed'[b] = swallowed[b], early'[b] = early[b],
         controller' = b => controller = b,
         controller = b => controller' = b \/ superseded'[b],
         superseded[b] => superseded'[b]
  PROVE  AppInv(b)'
BY DEF AppInv, Stream

\* An application without a connection.
LEMMA NoConnection ==
  ASSUME NEW a, client'[a] # "connected", pipe'[a] = <<>>, inbox'[a] = <<>>,
         ~greetDue'[a], ~notified'[a], swallowed'[a] = 0, controller' # a
  PROVE  AppInv(a)'
<1>1. <<>> \o <<>> = <<>> /\ DOMAIN <<>> = {}
  OBVIOUS
<1>2. Stream(a)' = <<>>
  BY <1>1 DEF Stream
<1>3. ~Has(<<>>, "CONTROLLER") /\ Single(<<>>) /\ GreetsFirst(<<>>)
  BY <1>1 DEF Has, Single, GreetsFirst
<1> QED BY <1>2, <1>3 DEF AppInv

LEMMA DisconnectApps ==
  ASSUME TypeInv, LinkInv, AppsAssumption, NEW a \in Apps, Disconnect(a)
  PROVE  LinkInv'
<1>1. AppInv(a)'
  <2>1. controller' # a
    BY DEF Disconnect, AppsAssumption
  <2> QED BY <2>1, NoConnection DEF Disconnect, TypeInv
<1>2. ASSUME NEW b \in Apps, b # a PROVE AppInv(b)'
  <2>1. controller' = b <=> controller = b
    BY <1>2 DEF Disconnect, AppsAssumption
  <2> QED BY <1>2, <2>1, OtherApp DEF Disconnect, TypeInv, LinkInv
<1> QED BY <1>1, <1>2 DEF LinkInv

\* The buffer is empty, or the line read is its first commands.
LEMMA ReadApp ==
  ASSUME TypeInv, NEW a \in Apps, AppInv(a), OnReadyRead(a), client[a] = "connected",
         client' = client, greetDue' = greetDue, pipe' = pipe
  PROVE  AppInv(a)'
<1> DEFINE s == inbox[a]
           t == pipe[a]
           u == s \o t
           v == Rest(s) \o t
           greet == Line(s) = <<"CONTROLLER">>
           lost == Has(Line(s), "reload") /\ Line(s) # <<"reload">>
<1>1. s \in Seq(Commands) /\ t \in Seq(Commands) /\ s \o t \in Seq(Commands)
  BY ConcatProperties DEF TypeInv
<1>2. inbox'[a] = Rest(s) /\ pipe'[a] = t /\ Stream(a)' = v /\ Stream(a) = u
  BY ReadTypes DEF Stream, TypeInv
<1>3. /\ controller' = IF greet THEN a ELSE controller
      /\ swallowed'[a] = IF lost THEN swallowed[a] + 1 ELSE swallowed[a]
      /\ ~greet => superseded'[a] = superseded[a]
      /\ early'[a] = early[a]
  BY DEF OnReadyRead, IsGreeting, Line, TypeInv
<1>4. ~(greet /\ lost)
  <2>1. ~Has(<<"CONTROLLER">>, "reload")
    BY DEF Has
  <2> QED BY <2>1
<1>5. greet \/ lost => s # <<>> /\ s[1] = "CONTROLLER"
  BY <1>1, LineCommands
<1>6. Single(u)
  BY <1>2 DEF AppInv
<1>7. /\ Single(v) /\ Single(s)
      /\ Has(v, "CONTROLLER") => Has(u, "CONTROLLER")
      /\ s # <<>> /\ s[1] = "CONTROLLER" => ~Has(v, "CONTROLLER")
      /\ s # <<>> /\ GreetsFirst(u) => ~Has(v, "CONTROLLER")
      /\ GreetsFirst(u) => GreetsFirst(v)
      /\ GreetsFirst(u) /\ Has(u, "CONTROLLER") /\ s # <<>> => s[1] = "CONTROLLER"
  BY <1>1, <1>6, StreamAfterRead
<1>8. s # <<>> /\ s[1] = "CONTROLLER" => greet \/ lost
  BY <1>1, <1>7, LineCommands
<1>9. s # <<>> /\ s[1] = "CONTROLLER" => Has(u, "CONTROLLER")
  <2>1. s # <<>> /\ s[1] = "CONTROLLER" => Has(s, "CONTROLLER")
    <3>1. s # <<>> => 1 \in DOMAIN s
      BY <1>1, EmptySeq, SeqDomain
    <3> QED BY <3>1 DEF Has
  <2> QED BY <1>1, <2>1, HasConcat
<1>10. s = <<>> => Rest(s) = <<>> /\ v = u
  <2>1. s = <<>> => Rest(s) \in Seq(Commands) /\ Len(Rest(s)) = 0
    <3>1. s = <<>> => Len(s) = 0
      OBVIOUS
    <3>2. LineLength(s) \in 0..Len(s) /\ Len(Rest(s)) = Len(s) - LineLength(s) /\ Rest(s) \in Seq(Commands)
      BY <1>1, LineLengthFacts, LineFacts
    <3> QED BY <3>1, <3>2
  <2>2. s = <<>> => Rest(s) = <<>>
    BY <2>1, EmptySeq
  <2> QED BY <2>2
<1>11. Has(Rest(s), "CONTROLLER") => Has(v, "CONTROLLER")
  BY <1>1, LineFacts, HasConcat
<1>12. s = <<>> => ~Has(Rest(s), "CONTROLLER")
  <2>1. DOMAIN <<>> = {}
    OBVIOUS
  <2> QED BY <1>10, <2>1 DEF Has
<1>13. u = <<>> => s = <<>>
  BY <1>1, ConcatEqualIffEmpty
<1>14. swallowed[a] \in Nat
  BY DEF TypeInv
<1> HIDE DEF s, t, u, v, greet, lost
<1>15. client'[a] = "connected" /\ greetDue'[a] = greetDue[a]
  OBVIOUS
<1>16. greetDue'[a] \/ Has(v, "CONTROLLER") => ~greet /\ ~lost /\ (greetDue[a] \/ Has(u, "CONTROLLER"))
  BY <1>2, <1>5, <1>7, <1>9, <1>15 DEF AppInv
<1>17. greetDue'[a] => ~Has(v, "CONTROLLER")
  BY <1>2, <1>7, <1>15 DEF AppInv
<1>18. greetDue'[a] \/ Has(v, "CONTROLLER") => swallowed'[a] = 0 /\ controller' # a
  BY <1>2, <1>3, <1>16 DEF AppInv
<1>19. lost => swallowed'[a] = 1 /\ controller' # a
  <2>1. lost => swallowed[a] = 0 /\ controller # a
    BY <1>2, <1>5, <1>9 DEF AppInv
  <2> QED BY <1>3, <1>4, <2>1
<1>20. swallowed'[a] <= 1 /\ (swallowed'[a] = 1 => controller' # a)
  <2>1. ~lost => swallowed'[a] = swallowed[a] /\ swallowed[a] <= 1
    BY <1>3 DEF AppInv
  <2>2. greet => swallowed[a] = 0
    BY <1>2, <1>5, <1>9 DEF AppInv
  <2>3. swallowed[a] = 1 => controller # a
    BY DEF AppInv
  <2> QED BY <1>3, <1>4, <1>19, <2>1, <2>2, <2>3
<1>21. ASSUME ~early'[a]
       PROVE  /\ greetDue'[a] => v = <<>>
              /\ GreetsFirst(v)
              /\ ~greetDue'[a] => \/ Has(v, "CONTROLLER")
                                  \/ controller' = a \/ superseded'[a] \/ swallowed'[a] = 1
              /\ ~Has(Rest(s), "CONTROLLER")
  <2>1. GreetsFirst(u) /\ (greetDue[a] => u = <<>>)
    BY <1>2, <1>3, <1>21 DEF AppInv
  <2>2. greetDue'[a] => v = <<>>
    BY <1>10, <1>13, <1>15, <2>1
  <2>3. ~Has(Rest(s), "CONTROLLER")
    BY <1>7, <1>11, <1>12, <2>1
  <2>4. ASSUME ~greetDue'[a], ~Has(v, "CONTROLLER")
        PROVE  controller' = a \/ superseded'[a] \/ swallowed'[a] = 1
    <3>1. greet => controller' = a
      BY <1>3
    <3>2. Has(u, "CONTROLLER") => greet \/ lost
      BY <1>7, <1>8, <1>10, <2>1, <2>4
    <3>3. ~Has(u, "CONTROLLER") => controller = a \/ superseded[a] \/ swallowed[a] = 1
      BY <1>2, <1>3, <1>15, <1>21, <2>4 DEF AppInv
    <3> QED BY <1>3, <1>19, <3>1, <3>2, <3>3
  <2> QED BY <1>7, <2>1, <2>2, <2>3, <2>4
<1> QED BY <1>2, <1>7, <1>15, <1>17, <1>18, <1>20, <1>21 DEF AppInv, s

LEMMA StepApps ==
  ASSUME TypeInv, LinkInv, AppsAssumption, [Next]_vars
  PROVE  LinkInv'
<1> USE DEF service, conns, history
<1>1. CASE UNCHANGED vars
  BY <1>1, OtherApp DEF LinkInv, vars
<1>2. CASE Listen \/ StartService \/ Reload
  BY <1>2, OtherApp DEF LinkInv, Listen, StartService, Reload
<1>3. CASE StopService
  <2> SUFFICES ASSUME NEW b \in Apps PROVE AppInv(b)'
    BY DEF LinkInv
  <2>1. controller' # b
    BY <1>3 DEF StopService, AppsAssumption
  <2>2. client'[b] # "connected"
    BY <1>3 DEF StopService
  <2> QED BY <1>3, <2>1, <2>2, NoConnection DEF StopService
<1>4. ASSUME NEW a \in Apps, Open(a) \/ Save(a)
      PROVE  LinkInv'
  <2> SUFFICES ASSUME NEW b \in Apps PROVE AppInv(b)'
    BY DEF LinkInv
  <2>1. /\ client'[b] = client[b] \/ (client[b] # "connected" /\ client'[b] # "connected")
        /\ UNCHANGED <<greetDue, conns, history, controller>>
    BY <1>4 DEF Open, Save, ClientAtTick, TypeInv
  <2>2. CASE client'[b] = client[b]
    BY <2>1, <2>2, OtherApp DEF LinkInv
  <2>3. CASE client[b] # "connected" /\ client'[b] # "connected"
    BY <2>1, <2>3, NoConnection DEF LinkInv, AppInv
  <2> QED BY <2>1, <2>2, <2>3
<1>5. ASSUME NEW a \in Apps, Quit(a)
      PROVE  LinkInv'
  BY <1>5, DisconnectApps DEF Quit
<1>6. ASSUME NEW a \in Apps, Tick(a)
      PROVE  LinkInv'
  <2>1. CASE ~running /\ client[a] # "none"
    BY <1>6, <2>1, DisconnectApps DEF Tick
  <2>2. CASE ~(~running /\ client[a] # "none")
    <3> SUFFICES ASSUME NEW b \in Apps PROVE AppInv(b)'
      BY DEF LinkInv
    <3>1. /\ client'[b] = client[b] \/ (client[b] # "connected" /\ client'[b] # "connected")
          /\ UNCHANGED <<greetDue, conns, history, controller>>
      BY <1>6, <2>2 DEF Tick, ClientAtTick, TypeInv
    <3>2. CASE client'[b] = client[b]
      BY <3>1, <3>2, OtherApp DEF LinkInv
    <3>3. CASE client[b] # "connected" /\ client'[b] # "connected"
      BY <3>1, <3>3, NoConnection DEF LinkInv, AppInv
    <3> QED BY <3>1, <3>2, <3>3
  <2> QED BY <2>1, <2>2
<1>7. ASSUME NEW a \in Apps, Send(a)
      PROVE  LinkInv'
  <2>1. /\ UNCHANGED <<greetDue, accepted, inbox, notified, swallowed, superseded, controller>>
        /\ \A b \in Apps : b # a => client'[b] = client[b] /\ pipe'[b] = pipe[b] /\ early'[b] = early[b]
    BY <1>7 DEF Send, TypeInv
  <2>2. ASSUME NEW b \in Apps, b # a PROVE AppInv(b)'
    BY <2>1, <2>2, OtherApp DEF LinkInv
  <2>3. CASE client[a] = "created"
    <3>1. client'[a] # "connected" /\ pipe' = pipe
      BY <1>7, <2>3 DEF Send, TypeInv
    <3>2. AppInv(a)'
      BY <2>1, <2>3, <3>1, NoConnection DEF LinkInv, AppInv
    <3> QED BY <2>2, <3>2 DEF LinkInv
  <2>4. CASE client[a] = "connected"
    <3>1. /\ client'[a] = "connected" /\ pipe'[a] = Append(pipe[a], "reload")
          /\ early'[a] <=> early[a] \/ greetDue[a]
      BY <1>7, <2>4 DEF Send, TypeInv
    <3>2. /\ inbox[a] \in Seq(Commands) /\ pipe[a] \in Seq(Commands) /\ Stream(a) \in Seq(Commands)
          /\ "reload" \in Commands
      BY ConcatProperties DEF TypeInv, Stream, Commands
    <3>3. Stream(a)' = Append(Stream(a), "reload")
      <4>1. inbox[a] \o Append(pipe[a], "reload") = Append(inbox[a] \o pipe[a], "reload")
        BY <3>2, AppendFacts
      <4>2. inbox'[a] = inbox[a] /\ pipe'[a] = Append(pipe[a], "reload")
        BY <2>1, <3>1
      <4> QED BY <4>1, <4>2 DEF Stream
    <3>4. /\ Single(Stream(a)')
          /\ GreetsFirst(Stream(a)) => GreetsFirst(Stream(a)')
          /\ Has(Stream(a)', "CONTROLLER") <=> Has(Stream(a), "CONTROLLER")
      BY <3>2, <3>3, StreamAfterAppend DEF LinkInv, AppInv
    <3>5. AppInv(a)
      BY DEF LinkInv
    <3>6. Single(Stream(a))' /\ (GreetsFirst(Stream(a)) => GreetsFirst(Stream(a))')
          /\ (Has(Stream(a), "CONTROLLER")' <=> Has(Stream(a), "CONTROLLER"))
      BY <3>4 DEF Single, GreetsFirst, Has
    <3>7. AppInv(a)'
      BY <2>1, <2>4, <3>1, <3>5, <3>6 DEF AppInv
    <3> QED BY <2>2, <3>7 DEF LinkInv
  <2>5. CASE client[a] # "created" /\ client[a] # "connected"
    <3>1. client' = client /\ pipe' = pipe /\ early' = early
      BY <1>7, <2>5 DEF Send
    <3>2. AppInv(a)'
      BY <2>1, <3>1, OtherApp DEF LinkInv
    <3> QED BY <2>2, <3>2 DEF LinkInv
  <2> QED BY <2>3, <2>4, <2>5
<1>8. ASSUME NEW a \in Apps, TryConnect(a)
      PROVE  LinkInv'
  <2>1. ASSUME NEW b \in Apps, b # a PROVE AppInv(b)'
    <3>1. client'[b] = client[b] /\ greetDue'[b] = greetDue[b] /\ UNCHANGED <<controller, conns, history>>
      BY <1>8, <2>1 DEF TryConnect, TypeInv
    <3> QED BY <3>1, OtherApp DEF LinkInv
  <2>2. /\ pipe'[a] = <<>> /\ inbox'[a] = <<>> /\ ~notified'[a]
        /\ swallowed'[a] = 0 /\ controller' # a
    BY <1>8 DEF TryConnect, LinkInv, AppInv, TypeInv
  <2>3. (client'[a] = "connected" /\ greetDue'[a]) \/ (client'[a] # "connected" /\ ~greetDue'[a])
    BY <1>8 DEF TryConnect, TypeInv
  <2>4. Stream(a)' = <<>> /\ DOMAIN <<>> = {} /\ (~Has(<<>>, "CONTROLLER"))
        /\ GreetsFirst(<<>>) /\ Single(<<>>)
    <3>1. <<>> \o <<>> = <<>> /\ DOMAIN <<>> = {}
      OBVIOUS
    <3> QED BY <2>2, <3>1 DEF Stream, Has, GreetsFirst, Single
  <2>5. AppInv(a)'
    BY <2>2, <2>3, <2>4 DEF AppInv
  <2> QED BY <2>1, <2>5 DEF LinkInv
<1>9. ASSUME NEW a \in Apps, Greet(a)
      PROVE  LinkInv'
  <2>1. ASSUME NEW b \in Apps, b # a PROVE AppInv(b)'
    BY <1>9, <2>1, OtherApp DEF Greet, LinkInv, TypeInv
  <2>2. /\ ~greetDue'[a] /\ greetDue[a] /\ pipe'[a] = Append(pipe[a], "CONTROLLER")
        /\ UNCHANGED <<client, accepted, inbox, notified, history, controller>>
    BY <1>9 DEF Greet, TypeInv
  <2>3. /\ inbox[a] \in Seq(Commands) /\ pipe[a] \in Seq(Commands) /\ Stream(a) \in Seq(Commands)
        /\ "CONTROLLER" \in Commands
    BY ConcatProperties DEF TypeInv, Stream, Commands
  <2>4. Stream(a)' = Append(Stream(a), "CONTROLLER")
    <3>1. inbox[a] \o Append(pipe[a], "CONTROLLER") = Append(inbox[a] \o pipe[a], "CONTROLLER")
      BY <2>3, AppendFacts
    <3>2. inbox'[a] = inbox[a] /\ pipe'[a] = Append(pipe[a], "CONTROLLER")
      BY <2>2
    <3> QED BY <3>1, <3>2 DEF Stream
  <2>5. AppInv(a)
    BY DEF LinkInv
  <2>6. ~Has(Stream(a), "CONTROLLER") /\ client[a] = "connected" /\ swallowed[a] = 0 /\ controller # a
        /\ Single(Stream(a))
    BY <2>2, <2>5 DEF AppInv
  <2>7. /\ Single(Stream(a)')
        /\ GreetsFirst(Stream(a)) /\ Stream(a) = <<>> => GreetsFirst(Stream(a)')
        /\ Has(Stream(a)', "CONTROLLER")
    BY <2>3, <2>4, <2>6, StreamAfterAppend
  <2>8. Single(Stream(a))' /\ Has(Stream(a), "CONTROLLER")'
        /\ (GreetsFirst(Stream(a)) /\ Stream(a) = <<>> => GreetsFirst(Stream(a))')
    BY <2>7 DEF Single, GreetsFirst, Has
  <2>9. AppInv(a)'
    BY <2>2, <2>5, <2>6, <2>8 DEF AppInv
  <2> QED BY <2>1, <2>9 DEF LinkInv
<1>10. ASSUME NEW a \in Apps, Arrive(a)
       PROVE  LinkInv'
  <2>1. PICK n \in 1..Len(pipe[a]) :
          /\ inbox' = [inbox EXCEPT ![a] = @ \o SubSeq(pipe[a], 1, n)]
          /\ pipe' = [pipe EXCEPT ![a] = SubSeq(@, n + 1, Len(@))]
    BY <1>10 DEF Arrive
  <2>2. ASSUME NEW b \in Apps, b # a PROVE AppInv(b)'
    BY <1>10, <2>1, <2>2, OtherApp DEF Arrive, LinkInv, TypeInv
  <2>3. inbox[a] \in Seq(Commands) /\ pipe[a] \in Seq(Commands)
    BY DEF TypeInv
  <2>4. Stream(a)' = Stream(a)
    <3>1. /\ inbox'[a] = inbox[a] \o SubSeq(pipe[a], 1, n)
          /\ pipe'[a] = SubSeq(pipe[a], n + 1, Len(pipe[a]))
      BY <2>1 DEF TypeInv
    <3>2. (inbox[a] \o SubSeq(pipe[a], 1, n)) \o SubSeq(pipe[a], n + 1, Len(pipe[a]))
             = inbox[a] \o pipe[a]
      BY <2>3, ArriveFacts
    <3> QED BY <3>1, <3>2 DEF Stream
  <2>5. client[a] = "connected"
    <3>1. pipe[a] # <<>>
      BY <2>1
    <3> QED BY <3>1 DEF LinkInv, AppInv
  <2>6. (Single(Stream(a))' <=> Single(Stream(a))) /\ (GreetsFirst(Stream(a))' <=> GreetsFirst(Stream(a)))
        /\ (Has(Stream(a), "CONTROLLER")' <=> Has(Stream(a), "CONTROLLER"))
    BY <2>4 DEF Single, GreetsFirst, Has
  <2>7. notified'[a] = accepted[a] /\ UNCHANGED <<client, greetDue, accepted, history, controller>>
    BY <1>10 DEF Arrive, TypeInv
  <2>8. AppInv(a)
    BY DEF LinkInv
  <2>9. AppInv(a)'
    BY <2>4, <2>5, <2>6, <2>7, <2>8 DEF AppInv
  <2> QED BY <2>2, <2>9 DEF LinkInv
<1>11. ASSUME NEW a \in Apps, OnReadyRead(a), client[a] = "connected",
              UNCHANGED <<client, greetDue, pipe>>,
              \A b \in Apps : b # a => accepted'[b] = accepted[b] /\ notified'[b] = notified[b]
       PROVE  LinkInv'
  <2>1. AppInv(a)'
    BY <1>11, ReadApp DEF LinkInv
  <2>2. ASSUME NEW b \in Apps, b # a PROVE AppInv(b)'
    <3>1. inbox'[b] = inbox[b] /\ swallowed'[b] = swallowed[b] /\ early'[b] = early[b]
      BY <1>11, <2>2, ReadTypes DEF OnReadyRead, TypeInv
    <3>2. controller' \in {a, controller}
      BY <1>11 DEF OnReadyRead
    <3>3. /\ controller = b => controller' = b \/ superseded'[b]
          /\ superseded[b] => superseded'[b]
      BY <1>11, <2>2 DEF OnReadyRead
    <3> QED BY <1>11, <2>2, <3>1, <3>2, <3>3, OtherApp DEF LinkInv
  <2> QED BY <2>1, <2>2 DEF LinkInv
<1>12. ASSUME NEW a \in Apps, Accept(a)
       PROVE  LinkInv'
  <2>1. CASE inbox[a] # <<>>
    BY <1>11, <1>12, <2>1 DEF Accept, TypeInv
  <2>2. CASE inbox[a] = <<>>
    <3>1. ASSUME NEW b \in Apps, b # a PROVE AppInv(b)'
      BY <1>12, <2>2, <3>1, OtherApp DEF Accept, LinkInv, TypeInv
    <3>2. /\ UNCHANGED <<client, greetDue, pipe, notified, inbox, history, controller>>
          /\ ~Has(inbox[a], "CONTROLLER")
      <4>1. DOMAIN <<>> = {}
        OBVIOUS
      <4> QED BY <1>12, <2>2, <4>1 DEF Accept, Has
    <3>3. (Single(Stream(a))' <=> Single(Stream(a))) /\ (GreetsFirst(Stream(a))' <=> GreetsFirst(Stream(a)))
          /\ (Has(Stream(a), "CONTROLLER")' <=> Has(Stream(a), "CONTROLLER")) /\ Stream(a)' = Stream(a)
          /\ ~Has(inbox[a], "CONTROLLER")'
      BY <3>2 DEF Single, GreetsFirst, Has, Stream
    <3>4. AppInv(a)
      BY DEF LinkInv
    <3>5. AppInv(a)'
      BY <3>2, <3>3, <3>4 DEF AppInv
    <3> QED BY <3>1, <3>5 DEF LinkInv
  <2> QED BY <2>1, <2>2
<1>13. ASSUME NEW a \in Apps, ReadLine(a)
       PROVE  LinkInv'
  <2>1. client[a] = "connected"
    BY <1>13 DEF ReadLine, LinkInv, AppInv
  <2> QED BY <1>11, <1>13, <2>1 DEF ReadLine, TypeInv
<1> QED
  BY <1>1, <1>2, <1>3, <1>4, <1>5, <1>6, <1>7, <1>8, <1>9, <1>10, <1>12, <1>13
  DEF Next, ClientThread

-----------------------------------------------------------------------------
(* A save on its way.                                                      *)

\* What keeps the promise for a save: its application, or what it wrote.
Carried(a) ==
  \/ gui[a] = "saved"
  \/ Has(pipe[a], "reload")
  \/ Has(inbox[a], "reload") /\ (notified[a] \/ ~accepted[a])

\* A read takes the first request there is, and the daemon is told or the
\* request is counted as missed.
LEMMA ReadRequest ==
  ASSUME TypeInv, NEW a \in Apps, OnReadyRead(a), Has(inbox[a], "reload"), ~current
  PROVE  reloadDue' \/ missed'
<1>1. inbox[a] \in Seq(Commands)
  BY DEF TypeInv
<1>2. Has(Line(inbox[a]), "reload")
  BY <1>1, LineCommands
<1> QED BY <1>2 DEF OnReadyRead, Line

LEMMA DisconnectRequest ==
  ASSUME TypeInv, RequestOnTheWay, NEW a \in Apps, Disconnect(a), gui[a] # "saved",
         UNCHANGED <<running, current>>, \A b \in Apps : b # a => gui'[b] = gui[b]
  PROVE  RequestOnTheWay'
<1> SUFFICES ASSUME running, ~current, ~missed', ~reloadDue'
             PROVE  \E b \in Apps : Carried(b)'
  BY DEF RequestOnTheWay, Carried
<1>1. ~missed /\ ~reloadDue /\ ~Has(pipe[a] \o inbox[a], "reload")
  BY DEF Disconnect
<1>2. PICK b \in Apps : Carried(b)
  BY <1>1 DEF RequestOnTheWay, Carried
<1>3. ~Has(pipe[a], "reload") /\ ~Has(inbox[a], "reload")
  <2>1. inbox[a] \in Seq(Commands) /\ pipe[a] \in Seq(Commands)
    BY DEF TypeInv
  <2> QED BY <1>1, <2>1, HasConcat
<1>4. b # a
  BY <1>2, <1>3 DEF Carried
<1>5. /\ gui'[b] = gui[b] /\ pipe'[b] = pipe[b] /\ inbox'[b] = inbox[b]
      /\ notified'[b] = notified[b] /\ accepted'[b] = accepted[b]
  BY <1>4 DEF Disconnect, TypeInv
<1>6. Carried(b)'
  BY <1>2, <1>5 DEF Carried, Has
<1> QED BY <1>6

LEMMA StepRequest ==
  ASSUME TypeInv, LinkInv, RequestOnTheWay, [Next]_vars
  PROVE  RequestOnTheWay'
<1> USE DEF service, conns, history
<1>1. CASE UNCHANGED vars
  BY <1>1 DEF RequestOnTheWay, Has, vars
<1>2. CASE Listen
  BY <1>2 DEF RequestOnTheWay, Has, Listen
<1>3. CASE StartService \/ Reload \/ StopService
  BY <1>3 DEF RequestOnTheWay, StartService, Reload, StopService
<1>4. ASSUME NEW a \in Apps, Open(a)
      PROVE  RequestOnTheWay'
  <2>1. \A b \in Apps : gui[b] = "saved" => gui'[b] = "saved"
    BY <1>4 DEF Open, TypeInv
  <2> QED BY <1>4, <2>1 DEF RequestOnTheWay, Has, Open
<1>5. ASSUME NEW a \in Apps, Save(a)
      PROVE  RequestOnTheWay'
  <2>1. gui'[a] = "saved"
    BY <1>5 DEF Save, TypeInv
  <2> QED BY <2>1 DEF RequestOnTheWay
<1>6. ASSUME NEW a \in Apps, Quit(a)
      PROVE  RequestOnTheWay'
  BY <1>6, DisconnectRequest DEF Quit, TypeInv
<1>7. ASSUME NEW a \in Apps, Tick(a)
      PROVE  RequestOnTheWay'
  <2>1. CASE ~running /\ client[a] # "none"
    BY <1>7, <2>1 DEF Tick, RequestOnTheWay
  <2>2. CASE ~(~running /\ client[a] # "none")
    BY <1>7, <2>2 DEF Tick, RequestOnTheWay, Has
  <2> QED BY <2>1, <2>2
<1>8. ASSUME NEW a \in Apps, Send(a)
      PROVE  RequestOnTheWay'
  <2> SUFFICES ASSUME running, ~current, ~missed', ~reloadDue'
               PROVE  \E b \in Apps : Carried(b)'
    BY <1>8 DEF RequestOnTheWay, Carried, Send
  <2>1. client[a] = "connected"
    BY <1>8 DEF Send
  <2>2. pipe'[a] = Append(pipe[a], "reload")
    BY <1>8, <2>1 DEF Send, TypeInv
  <2>3. Has(pipe'[a], "reload")
    <3>1. pipe[a] \in Seq(Commands) /\ "reload" \in Commands
      BY DEF TypeInv, Commands
    <3> QED BY <2>2, <3>1, StreamAfterAppend
  <2>4. Has(pipe[a], "reload")'
    BY <2>3 DEF Has
  <2>5. Carried(a)'
    BY <2>4 DEF Carried
  <2> QED BY <2>5
<1>9. ASSUME NEW a \in Apps, TryConnect(a)
      PROVE  RequestOnTheWay'
  BY <1>9 DEF TryConnect, RequestOnTheWay, Has
<1>10. ASSUME NEW a \in Apps, Greet(a)
       PROVE  RequestOnTheWay'
  <2>1. \A b \in Apps : Has(pipe[b], "reload") => Has(pipe'[b], "reload")
    <3>1. pipe[a] \in Seq(Commands) /\ "CONTROLLER" \in Commands
      BY DEF TypeInv, Commands
    <3>2. pipe'[a] = Append(pipe[a], "CONTROLLER") /\ \A b \in Apps : b # a => pipe'[b] = pipe[b]
      BY <1>10 DEF Greet, TypeInv
    <3>3. Has(pipe[a], "reload") => Has(Append(pipe[a], "CONTROLLER"), "reload")
      BY <3>1, StreamAfterAppend
    <3> QED BY <3>2, <3>3
  <2>2. \A b \in Apps : Has(pipe[b], "reload") => Has(pipe[b], "reload")'
    BY <2>1 DEF Has
  <2> QED BY <1>10, <2>2 DEF Greet, RequestOnTheWay, Has
<1>11. ASSUME NEW a \in Apps, Arrive(a)
       PROVE  RequestOnTheWay'
  <2> SUFFICES ASSUME running, ~current, ~missed, ~reloadDue
               PROVE  \E b \in Apps : Carried(b)'
    BY <1>11 DEF RequestOnTheWay, Carried, Arrive
  <2>1. PICK b \in Apps : Carried(b)
    BY DEF RequestOnTheWay, Carried
  <2>2. PICK n \in 1..Len(pipe[a]) :
          /\ inbox' = [inbox EXCEPT ![a] = @ \o SubSeq(pipe[a], 1, n)]
          /\ pipe' = [pipe EXCEPT ![a] = SubSeq(@, n + 1, Len(@))]
    BY <1>11 DEF Arrive
  <2>3. notified'[a] = accepted[a] /\ gui' = gui /\ accepted' = accepted
        /\ \A x \in Apps : x # a => notified'[x] = notified[x]
    BY <1>11 DEF Arrive, TypeInv
  <2>4. accepted[a] \in BOOLEAN
    BY DEF TypeInv
  <2>5. CASE b # a
    <3>1. pipe'[b] = pipe[b] /\ inbox'[b] = inbox[b]
      BY <2>2, <2>5 DEF TypeInv
    <3>2. Carried(b)'
      BY <2>1, <2>3, <2>5, <3>1 DEF Carried, Has
    <3> QED BY <3>2
  <2>6. CASE b = a
    <3> DEFINE h == SubSeq(pipe[a], 1, n)
               r == SubSeq(pipe[a], n + 1, Len(pipe[a]))
    <3>1. inbox'[a] = inbox[a] \o h /\ pipe'[a] = r
      BY <2>2 DEF TypeInv
    <3>2. inbox[a] \in Seq(Commands) /\ pipe[a] \in Seq(Commands)
      BY DEF TypeInv
    <3>3. h \in Seq(Commands) /\ r \in Seq(Commands) /\ h \o r = pipe[a]
      <4>1. n \in 0..Len(pipe[a]) /\ Len(pipe[a]) \in n..Len(pipe[a]) /\ 1 \in 1..(Len(pipe[a]) + 1)
        BY <3>2
      <4>2. h \o r = SubSeq(pipe[a], 1, Len(pipe[a]))
        BY <3>2, <4>1, ConcatAdjacentSubSeq
      <4> QED BY <3>2, <4>2, SubSeqFull
    <3> HIDE DEF h, r
    <3>4. Has(pipe[a], "reload") => Has(h, "reload") \/ Has(r, "reload")
      <4>1. Has(h \o r, "reload") <=> Has(h, "reload") \/ Has(r, "reload")
        BY <3>3, HasConcat
      <4> QED BY <3>3, <4>1
    <3>5. Has(inbox[a] \o h, "reload") <=> Has(inbox[a], "reload") \/ Has(h, "reload")
      BY <3>2, <3>3, HasConcat
    <3>6. gui[a] = "saved" \/ Has(pipe'[a], "reload") \/ Has(inbox'[a], "reload")
      BY <2>1, <2>6, <3>1, <3>4, <3>5 DEF Carried
    <3>7. gui'[a] = "saved" \/ Has(pipe[a], "reload")' \/ Has(inbox[a], "reload")'
      BY <2>3, <3>6 DEF Has
    <3>8. Carried(a)'
      BY <2>3, <2>4, <3>7 DEF Carried
    <3> QED BY <3>8
  <2> QED BY <2>5, <2>6
<1>12. ASSUME NEW a \in Apps, OnReadyRead(a),
              UNCHANGED <<running, current, gui, pipe>>,
              notified[a] \/ ~accepted[a],
              \A x \in Apps : x # a => accepted'[x] = accepted[x] /\ notified'[x] = notified[x]
       PROVE  RequestOnTheWay'
  <2> SUFFICES ASSUME running, ~current, ~missed', ~reloadDue'
               PROVE  \E b \in Apps : Carried(b)'
    BY <1>12 DEF RequestOnTheWay, Carried
  <2>1. ~missed /\ ~reloadDue /\ ~Has(inbox[a], "reload")
    <3>1. ~missed /\ ~reloadDue
      BY <1>12 DEF OnReadyRead
    <3> QED BY <1>12, <3>1, ReadRequest
  <2>2. PICK b \in Apps : Carried(b)
    BY <2>1 DEF RequestOnTheWay, Carried
  <2>3. CASE b # a
    <3>1. inbox'[b] = inbox[b]
      BY <1>12, <2>3 DEF OnReadyRead, TypeInv
    <3>2. Carried(b)'
      BY <1>12, <2>2, <2>3, <3>1 DEF Carried, Has
    <3> QED BY <3>2
  <2>4. CASE b = a
    <3>1. gui[a] = "saved" \/ Has(pipe[a], "reload")
      BY <2>1, <2>2, <2>4 DEF Carried
    <3>2. Carried(a)'
      BY <1>12, <3>1 DEF Carried, Has
    <3> QED BY <3>2
  <2> QED BY <2>3, <2>4
<1>13. ASSUME NEW a \in Apps, Accept(a)
       PROVE  RequestOnTheWay'
  <2>1. CASE inbox[a] # <<>>
    BY <1>12, <1>13, <2>1 DEF Accept, TypeInv
  <2>2. CASE inbox[a] = <<>>
    <3>1. ~Has(inbox[a], "reload")
      <4>1. DOMAIN <<>> = {}
        OBVIOUS
      <4> QED BY <2>2, <4>1 DEF Has
    <3>2. UNCHANGED <<running, current, gui, pipe, inbox, reloadDue, missed, notified>>
          /\ \A x \in Apps : x # a => accepted'[x] = accepted[x]
      BY <1>13, <2>2 DEF Accept, TypeInv
    <3> QED BY <3>1, <3>2 DEF RequestOnTheWay, Has
  <2> QED BY <2>1, <2>2
<1>14. ASSUME NEW a \in Apps, ReadLine(a)
       PROVE  RequestOnTheWay'
  BY <1>12, <1>14 DEF ReadLine, TypeInv
<1> QED
  BY <1>1, <1>2, <1>3, <1>4, <1>5, <1>6, <1>7, <1>8, <1>9, <1>10, <1>11, <1>13, <1>14
  DEF Next, ClientThread

-----------------------------------------------------------------------------
(* The theorems.                                                           *)

\* The whole invariant, of which the others are consequences.
THEOREM Invariance == Spec => []IInv
<1>1. Init => IInv
  <2> SUFFICES ASSUME Init PROVE IInv
    OBVIOUS
  <2>1. <<>> \in Seq(Commands) /\ <<>> \o <<>> = <<>> /\ DOMAIN <<>> = {}
    OBVIOUS
  <2>2. TypeInv
    BY <2>1 DEF Init, TypeInv
  <2>3. ASSUME NEW a \in Apps PROVE AppInv(a)
    <3>1. Stream(a) = <<>> /\ ~Has(<<>>, "CONTROLLER") /\ Single(<<>>) /\ GreetsFirst(<<>>)
      BY <2>1 DEF Init, Stream, Has, Single, GreetsFirst
    <3>2. controller # a
      BY AppsAssumption DEF Init, AppsAssumption
    <3> QED BY <3>1, <3>2 DEF Init, AppInv
  <2> QED BY <2>2, <2>3 DEF Init, IInv, LinkInv, RequestOnTheWay
<1>2. IInv /\ [Next]_vars => IInv'
  BY StepTypes, StepApps, StepRequest, AppsAssumption DEF IInv
<1> QED BY <1>1, <1>2, PTL DEF Spec

\* Every variable of the link stays in its type: the streams hold nothing but
\* greetings and requests.
THEOREM TypeCorrect == Spec => []TypeInv
<1>1. IInv => TypeInv
  BY DEF IInv
<1> QED BY <1>1, Invariance, PTL

\* A connection loses one request at most, to its greeting, and is then never
\* the one that is sent the statuses (onReadyRead).
THEOREM OneRequestLost == Spec => []OneRequestSwallowed
<1>1. IInv => OneRequestSwallowed
  BY DEF IInv, LinkInv, AppInv, OneRequestSwallowed
<1> QED BY <1>1, Invariance, PTL

\* An application that has been read to the end and gets no status was greeted
\* over, or spoke before or with its greeting (onReadyRead, sendReload).
THEOREM SilenceIsExplained == Spec => []SilenceHasCause
<1>1. IInv => SilenceHasCause
  <2> SUFFICES ASSUME IInv, NEW a \in Apps, client[a] = "connected", accepted[a], ~greetDue[a],
                      pipe[a] = <<>>, ~notified[a], ~early[a]
               PROVE  controller = a \/ superseded[a] \/ swallowed[a] = 1
    BY DEF SilenceHasCause
  <2>1. AppInv(a) /\ inbox[a] \in Seq(Commands)
    BY DEF IInv, LinkInv, TypeInv
  <2>2. Stream(a) = inbox[a]
    BY <2>1, ConcatEmptySeq DEF Stream
  <2> QED BY <2>1, <2>2 DEF AppInv
<1> QED BY <1>1, Invariance, PTL

\* A save that the daemon has not loaded is on its way, or was missed for one
\* of the reasons that the module names (onModelModified, sendReload, onReadyRead).
THEOREM RequestStaysOnItsWay == Spec => []RequestOnTheWay
<1>1. IInv => RequestOnTheWay
  BY DEF IInv
<1> QED BY <1>1, Invariance, PTL

=============================================================================
