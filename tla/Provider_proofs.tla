---------------------------- MODULE Provider_proofs ----------------------------
(***************************************************************************)
(* Proofs about Provider, for any model of the data, any instances          *)
(* registered in any order, any clients and calls: a request made after its *)
(* object was registered and routed is answered by the object, a            *)
(* transaction changes both values or neither, a request is in one place, a *)
(* call that fails has told of an error, and a read that met no failure has *)
(* shown what it covers.                                                    *)
(***************************************************************************)
EXTENDS Provider, SequenceTheorems, FiniteSetTheorems, NaturalsInduction,
        WellFoundedInduction, TLAPS

-----------------------------------------------------------------------------
(* Sequences and maxima.                                                   *)

IsSeq(s) == s \in Seq(Range(s))

LEMMA SeqIs ==
  ASSUME NEW S, NEW s \in Seq(S)
  PROVE  IsSeq(s) /\ Range(s) \subseteq S
BY DEF IsSeq, Range

LEMMA SeqRange ==
  ASSUME NEW s, IsSeq(s)
  PROVE  /\ Len(s) \in Nat /\ DOMAIN s = 1 .. Len(s)
         /\ \A i \in 1 .. Len(s) : s[i] \in Range(s)
         /\ \A x \in Range(s) : \E i \in 1 .. Len(s) : x = s[i]
         /\ s # <<>> <=> Len(s) >= 1
<1>1. Len(s) \in Nat /\ DOMAIN s = 1 .. Len(s)
  BY DEF IsSeq
<1>2. s # <<>> <=> Len(s) >= 1
  BY <1>1, EmptySeq DEF IsSeq
<1> QED
  BY <1>1, <1>2 DEF Range

LEMMA Appended ==
  ASSUME NEW s, NEW e, IsSeq(s)
  PROVE  /\ IsSeq(Append(s, e)) /\ Range(Append(s, e)) = Range(s) \cup {e}
         /\ IsInjective(s) /\ e \notin Range(s) => IsInjective(Append(s, e))
<1> DEFINE t == Append(s, e)
           S == Range(s) \cup {e}
<1>1. s \in Seq(S)
  BY SeqRange DEF IsSeq
<1>2. /\ t \in Seq(S) /\ Len(t) = Len(s) + 1 /\ Len(s) \in Nat
      /\ \A i \in 1 .. Len(s) : t[i] = s[i]
      /\ t[Len(s) + 1] = e
  BY <1>1
<1>3. DOMAIN t = 1 .. Len(s) + 1 /\ DOMAIN s = 1 .. Len(s)
  BY <1>1, <1>2
<1>4. IsSeq(t)
  BY <1>2, SeqIs
<1> HIDE DEF t, S
<1>5. Range(t) = Range(s) \cup {e}
  BY <1>2, <1>3 DEF Range
<1>6. IsInjective(s) /\ e \notin Range(s) => IsInjective(t)
  BY <1>2, <1>3 DEF Range, IsInjective
<1> QED
  BY <1>4, <1>5, <1>6 DEF t

LEMMA Cut ==
  ASSUME NEW s, IsSeq(s), s # <<>>
  PROVE  /\ IsSeq(Tail(s)) /\ Len(Tail(s)) = Len(s) - 1
         /\ Head(s) = s[1] /\ Head(s) \in Range(s)
         /\ Range(s) = {Head(s)} \cup Range(Tail(s))
         /\ IsInjective(s) => IsInjective(Tail(s)) /\ Head(s) \notin Range(Tail(s))
<1> DEFINE t == Tail(s)
<1>1. /\ Len(s) \in Nat /\ DOMAIN s = 1 .. Len(s) /\ Len(s) >= 1
      /\ \A i \in 1 .. Len(s) : s[i] \in Range(s)
  BY SeqRange
<1>2. t \in Seq(Range(s)) /\ Len(t) = Len(s) - 1
  BY <1>1 DEF IsSeq
<1>3. DOMAIN t = 1 .. Len(s) - 1 /\ \A i \in 1 .. Len(s) - 1 : t[i] = s[i + 1]
  BY <1>1, <1>2 DEF IsSeq
<1>4. Head(s) = s[1] /\ 1 \in 1 .. Len(s)
  BY <1>1 DEF IsSeq
<1>5. IsSeq(t)
  BY <1>2, SeqIs
<1> HIDE DEF t
<1>6. Range(s) = {Head(s)} \cup Range(t)
  <2>1. ASSUME NEW i \in 1 .. Len(s), i # 1 PROVE s[i] \in Range(t)
    <3>1. i - 1 \in 1 .. Len(s) - 1 /\ (i - 1) + 1 = i
      BY <1>1, <2>1
    <3> QED
      BY <1>3, <3>1 DEF Range
  <2>2. ASSUME NEW i \in 1 .. Len(s) - 1 PROVE t[i] \in Range(s)
    BY <1>1, <1>3
  <2> QED
    BY <1>1, <1>3, <1>4, <2>1, <2>2 DEF Range
<1>7. ASSUME IsInjective(s) PROVE IsInjective(t) /\ Head(s) \notin Range(t)
  <2>1. \A i, j \in 1 .. Len(s) : s[i] = s[j] => i = j
    BY <1>1, <1>7 DEF IsInjective
  <2>2. ASSUME NEW i \in 1 .. Len(s) - 1, NEW j \in 1 .. Len(s) - 1, t[i] = t[j] PROVE i = j
    <3>1. i + 1 \in 1 .. Len(s) /\ j + 1 \in 1 .. Len(s)
      BY <1>1
    <3> QED
      BY <1>3, <2>1, <2>2, <3>1
  <2>3. ASSUME NEW i \in 1 .. Len(s) - 1 PROVE t[i] # s[1]
    <3>1. i + 1 \in 1 .. Len(s) /\ i + 1 # 1
      BY <1>1
    <3> QED
      BY <1>3, <1>4, <2>1, <3>1
  <2> QED
    BY <1>3, <1>4, <2>2, <2>3 DEF IsInjective, Range
<1> QED
  BY <1>1, <1>2, <1>4, <1>5, <1>6, <1>7 DEF t

\* A sequence with another first element.
LEMMA HeadReplaced ==
  ASSUME NEW s, NEW f, IsSeq(s), s # <<>>
  PROVE  /\ IsSeq(<<f>> \o Tail(s)) /\ <<f>> \o Tail(s) # <<>>
         /\ Range(<<f>> \o Tail(s)) = {f} \cup Range(Tail(s))
         /\ Len(<<f>> \o Tail(s)) = Len(s)
<1> DEFINE u == Tail(s)
           t == <<f>> \o u
           S == Range(u) \cup {f}
<1>1. IsSeq(u) /\ Len(u) = Len(s) - 1 /\ Len(u) \in Nat
  BY Cut, SeqRange
<1> HIDE DEF u
<1>2. u \in Seq(S) /\ <<f>> \in Seq(S) /\ Len(<<f>>) = 1 /\ <<f>>[1] = f
  BY <1>1, SeqRange DEF IsSeq
<1>3. /\ t \in Seq(S) /\ Len(t) = Len(u) + 1
      /\ \A i \in 1 .. Len(u) + 1 : t[i] = IF i = 1 THEN f ELSE u[i - 1]
  BY <1>1, <1>2
<1> HIDE DEF t
<1>4. IsSeq(t) /\ DOMAIN t = 1 .. Len(u) + 1 /\ Range(t) \subseteq S
  <2>1. IsSeq(t) /\ Range(t) \subseteq S
    BY <1>3, SeqIs
  <2> QED
    BY <1>3, <2>1, SeqRange
<1>5. f \in Range(t)
  <2>1. 1 \in 1 .. Len(u) + 1
    BY <1>1
  <2> QED
    BY <1>3, <1>4, <2>1 DEF Range
<1>6. ASSUME NEW i \in 1 .. Len(u) PROVE u[i] \in Range(t)
  <2>1. i + 1 \in 1 .. Len(u) + 1 /\ i + 1 # 1 /\ (i + 1) - 1 = i
    BY <1>1
  <2>2. t[i + 1] = u[i]
    BY <1>3, <2>1
  <2> QED
    BY <1>4, <2>1, <2>2 DEF Range
<1>7. Range(u) \subseteq Range(t)
  BY <1>1, <1>6, SeqRange
<1>8. Len(s) \in Nat /\ Len(t) = Len(s) /\ t # <<>>
  BY <1>1, <1>3, <1>4, SeqRange
<1> QED
  BY <1>4, <1>5, <1>7, <1>8 DEF t, u

\* A set of numbers with a bound has a greatest one.
LEMMA MaxIn ==
  ASSUME NEW n \in Nat, NEW S, S \subseteq 1 .. n, S # {}
  PROVE  Max(S) \in S
<1> DEFINE T == {n - i : i \in S}
<1>1. T \subseteq Nat /\ T # {}
  <2>1. \A i \in S : n - i \in Nat /\ i \in Nat
    OBVIOUS
  <2> QED
    BY <2>1
<1>2. IsWellFoundedOn({ss \in Nat \X Nat : ss[1] < ss[2]}, Nat)
  BY NatLessThanWellFounded DEF OpToRel
<1>3. PICK x \in T : \A y \in T : ~(<<y, x>> \in {ss \in Nat \X Nat : ss[1] < ss[2]})
  BY <1>1, <1>2, WFMin
<1>4. PICK m \in S : x = n - m
  OBVIOUS
<1> HIDE DEF T
<1>5. \A y \in T : x <= y
  <2> TAKE y \in T
  <2>1. x \in Nat /\ y \in Nat /\ <<y, x>> \in Nat \X Nat
    BY <1>1, <1>3
  <2>2. <<y, x>> \notin {ss \in Nat \X Nat : ss[1] < ss[2]}
    BY <1>3
  <2> QED
    BY <2>1, <2>2
<1> USE DEF T
<1>6. \A i \in S : m >= i
  <2> TAKE i \in S
  <2>1. n - m <= n - i
    BY <1>4, <1>5
  <2> QED
    BY <2>1
<1> QED
  BY <1>6 DEF Max

-----------------------------------------------------------------------------
(* The inductive invariant.                                                *)

\* What the router has heard of is what the registering thread is done with, and such
\* an instance is in the map, or is the one the thread is about to put there.
RegistrationInv ==
  /\ reg \in [done : 0 .. Len(Registrations), at : {"listen", "insert", "inserting"},
              refused : Nat]
  /\ reg.at # "listen" => reg.done < Len(Registrations)
  /\ IsSeq(subs)
  /\ Range(subs) \cup routes \cup providers \subseteq Range(Registrations)
  /\ \A i \in 1 .. Len(Registrations) :
       Registrations[i] \in routes \cup Range(subs) =>
         \/ i <= reg.done /\ Registrations[i] \in providers
         \/ i = reg.done + 1 /\ reg.at # "listen"

\* The parameters of a request.
Decoded(r) == IF r.op = "get" THEN GetParams(r) ELSE SetParams(r)

\* The requests that have no answer yet.
Carried == wire \cup Range(inbox) \cup (IF job = NoJob THEN {} ELSE {job.request})

\* A request is in one place; one that nobody waits for is older than the last timeout,
\* so that it is not made again.
RequestInv ==
  /\ timeouts \in Nat
  /\ \A r \in Carried :
       /\ r.client \in Clients /\ r.op # "none" /\ IsSeq(r.pairs)
       /\ r.no \in Nat /\ r.no <= timeouts
       /\ r.no = timeouts => asked[r.client] = r
       /\ r.ready => r.name \in routes \cap providers
  /\ IsSeq(inbox) /\ IsInjective(inbox)
  /\ wire \cap Range(inbox) = {}
  /\ job # NoJob => /\ job.request \notin wire \cup Range(inbox)
                    /\ job.params = Decoded(job.request)

ReplyInv ==
  /\ \A p \in replies : p.to \notin Carried /\ p.to.client \in Clients /\ p.to.op # "none"
                        /\ asked[p.to.client] = p.to
  /\ \A p \in replies, q \in replies : p.to = q.to => p = q

IsFrame(f) ==
  /\ f = [x \in {"name", "property", "list", "step", "num", "ids", "i", "j", "ok"} |-> f[x]]
  /\ f.ok \in BOOLEAN

ClientInv ==
  /\ DOMAIN call = Clients /\ asked = [c \in Clients |-> asked[c]]
  /\ at \in [Clients -> {"idle", "running", "waiting", "returned", "crashed"}]
  /\ errors \in [Clients -> {0, 1}]
  /\ \A c \in Clients :
       /\ at[c] = "waiting" <=> asked[c] # NoRequest
       /\ at[c] \in {"running", "waiting"} => call[c] \in Calls

\* A call of runGet that is to fail has told of it.
FrameInv ==
  /\ DOMAIN stack = Clients /\ ok \in [Clients -> BOOLEAN]
  /\ \A c \in Clients :
       /\ IsSeq(stack[c])
       /\ at[c] \in {"running", "waiting"} => stack[c] # <<>>
       /\ at[c] \in {"idle", "returned"} => stack[c] = <<>>
       /\ \A f \in Range(stack[c]) : IsFrame(f) /\ (~f.ok => errors[c] > 0)
  /\ FailureIsTold

ProviderIInv ==
  RegistrationInv /\ RequestInv /\ ReplyInv /\ ClientInv /\ FrameInv /\ RegisteredAnswers

LEMMA ProviderInit == Init => ProviderIInv
<1> SUFFICES ASSUME Init PROVE ProviderIInv
  OBVIOUS
<1>0. /\ IsSeq(<<>>) /\ Range(<<>>) = {} /\ IsInjective(<<>>)
  BY SeqRange DEF IsSeq, Range, IsInjective
<1>1. RegistrationInv
  <2>1. Len(Registrations) \in Nat
    BY ProviderAssumption
  <2> QED
    BY <1>0, <2>1 DEF Init, RegistrationInv
<1>2. Carried = {}
  BY <1>0 DEF Init, Carried
<1>3. RequestInv /\ ReplyInv /\ RegisteredAnswers
  BY <1>0, <1>2 DEF Init, RequestInv, ReplyInv, RegisteredAnswers
<1>4. ClientInv
  BY DEF Init, ClientInv
<1>5. FrameInv
  BY <1>0 DEF Init, FrameInv, FailureIsTold
<1> QED
  BY <1>1, <1>3, <1>4, <1>5 DEF ProviderIInv

-----------------------------------------------------------------------------
(* Registration.                                                           *)

LEMMA RegistrationsAre ==
  /\ Len(Registrations) \in Nat /\ IsSeq(Registrations)
  /\ \A i, j \in 1 .. Len(Registrations) : Registrations[i] = Registrations[j] => i = j
BY ProviderAssumption DEF IsInjective, IsSeq

LEMMA RegistrationKept ==
  ASSUME RegistrationInv, UNCHANGED hostVars
  PROVE  RegistrationInv'
BY DEF RegistrationInv, hostVars

\* The instance the thread is at.
LEMMA InstanceIs ==
  ASSUME RegistrationInv, reg.done < Len(Registrations)
  PROVE  /\ reg.done \in Nat /\ reg.done + 1 \in 1 .. Len(Registrations)
         /\ Instance = Registrations[reg.done + 1] /\ Instance \in Range(Registrations)
<1>1. reg.done \in Nat /\ reg.done + 1 \in 1 .. Len(Registrations)
  BY RegistrationsAre DEF RegistrationInv
<1> QED
  BY <1>1, RegistrationsAre, SeqRange DEF Instance

LEMMA RegistrationStep ==
  ASSUME RegistrationInv,
         AddListener \/ NotRegistered \/ InsertStarts \/ InsertEnds \/ Subscribed
  PROVE  RegistrationInv' /\ routes \cap providers \subseteq (routes \cap providers)'
<1> USE DEF RegistrationInv
<1>0. Len(Registrations) \in Nat /\ reg.done \in 0 .. Len(Registrations) /\ reg.refused \in Nat
  BY RegistrationsAre
<1>1. CASE AddListener
  <2>1. /\ reg.done < Len(Registrations) /\ reg.at = "listen"
        /\ subs' = Append(subs, Instance) /\ reg' = [reg EXCEPT !.at = "insert"]
        /\ routes' = routes /\ providers' = providers
    BY <1>1 DEF AddListener, Registering
  <2>2. IsSeq(subs') /\ Range(subs') = Range(subs) \cup {Instance}
    BY <2>1, Appended
  <2>3. /\ reg.done + 1 \in 1 .. Len(Registrations) /\ Instance = Registrations[reg.done + 1]
        /\ Instance \in Range(Registrations)
    BY <2>1, InstanceIs
  <2>4. reg' \in [done : 0 .. Len(Registrations), at : {"listen", "insert", "inserting"},
                  refused : Nat] /\ reg'.done = reg.done /\ reg'.at = "insert"
    BY <2>1
  <2>5. ASSUME NEW i \in 1 .. Len(Registrations), Registrations[i] \in (routes \cup Range(subs))'
        PROVE  (i <= reg.done /\ Registrations[i] \in providers) \/ i = reg.done + 1
    <3>1. CASE Registrations[i] = Instance
      BY <2>3, <3>1, RegistrationsAre
    <3>2. CASE Registrations[i] # Instance
      BY <2>1, <2>2, <2>5, <3>2
    <3> QED
      BY <3>1, <3>2
  <2> QED
    BY <2>1, <2>2, <2>3, <2>4, <2>5
<1>2. CASE NotRegistered
  <2>1. /\ reg.done < Len(Registrations) /\ reg.at = "listen"
        /\ subs' = subs /\ routes' = routes /\ providers' = providers
        /\ \/ reg' = [reg EXCEPT !.done = @ + 1]
           \/ reg' = [reg EXCEPT !.done = @ + 1, !.refused = @ + 1]
    BY <1>2 DEF NotRegistered, Registering
  <2>2. reg' \in [done : 0 .. Len(Registrations), at : {"listen", "insert", "inserting"},
                  refused : Nat] /\ reg'.done = reg.done + 1 /\ reg'.at = "listen"
    <3>1. reg.done + 1 \in 0 .. Len(Registrations) /\ reg.refused + 1 \in Nat
      BY <1>0, <2>1
    <3>2. \E n \in Nat : reg' = [done |-> reg.done + 1, at |-> "listen", refused |-> n]
      BY <1>0, <2>1, <3>1
    <3> QED
      BY <3>1, <3>2
  <2>3. ASSUME NEW i \in 1 .. Len(Registrations), Registrations[i] \in routes \cup Range(subs)
        PROVE  i <= reg.done + 1 /\ Registrations[i] \in providers
    BY <1>0, <2>1, <2>3
  <2> QED
    BY <2>1, <2>2, <2>3
<1>3. CASE InsertStarts
  <2>1. /\ reg.at = "insert" /\ reg' = [reg EXCEPT !.at = "inserting"]
        /\ subs' = subs /\ routes' = routes /\ providers' = providers
    BY <1>3 DEF InsertStarts
  <2>2. reg' \in [done : 0 .. Len(Registrations), at : {"listen", "insert", "inserting"},
                  refused : Nat] /\ reg'.done = reg.done /\ reg'.at = "inserting"
    BY <2>1
  <2> QED
    BY <2>1, <2>2
<1>4. CASE InsertEnds
  <2>1. /\ reg.at = "inserting" /\ providers' = providers \cup {Instance}
        /\ reg' = [reg EXCEPT !.done = @ + 1, !.at = "listen"]
        /\ subs' = subs /\ routes' = routes /\ reg.done < Len(Registrations)
    BY <1>4 DEF InsertEnds, Registered
  <2>2. reg' \in [done : 0 .. Len(Registrations), at : {"listen", "insert", "inserting"},
                  refused : Nat] /\ reg'.done = reg.done + 1 /\ reg'.at = "listen"
    <3>1. reg.done + 1 \in 0 .. Len(Registrations) /\ reg.refused + 1 \in Nat
      BY <1>0, <2>1
    <3>2. \E n \in Nat : reg' = [done |-> reg.done + 1, at |-> "listen", refused |-> n]
      BY <1>0, <2>1, <3>1
    <3> QED
      BY <3>1, <3>2
  <2>3. /\ reg.done + 1 \in 1 .. Len(Registrations) /\ Instance = Registrations[reg.done + 1]
        /\ Instance \in Range(Registrations)
    BY <2>1, InstanceIs
  <2>4. ASSUME NEW i \in 1 .. Len(Registrations), Registrations[i] \in routes \cup Range(subs)
        PROVE  i <= reg.done + 1 /\ Registrations[i] \in providers'
    BY <1>0, <2>1, <2>3, <2>4
  <2> QED
    BY <2>1, <2>2, <2>3, <2>4
<1>5. CASE Subscribed
  <2>1. /\ subs # <<>> /\ subs' = Tail(subs) /\ routes' = routes \cup {Head(subs)}
        /\ reg' = reg /\ providers' = providers
    BY <1>5 DEF Subscribed
  <2>2. IsSeq(subs') /\ Range(subs) = {Head(subs)} \cup Range(subs')
    BY <2>1, Cut
  <2>3. (routes \cup Range(subs))' = routes \cup Range(subs)
    BY <2>1, <2>2
  <2> QED
    BY <2>1, <2>2, <2>3
<1> QED
  BY <1>1, <1>2, <1>3, <1>4, <1>5

\* A name whose registration is done and that is routed has an object in the map.
LEMMA ReadyMeans ==
  ASSUME RegistrationInv, NEW i \in 1 .. reg.done, Registrations[i] \in routes
  PROVE  Registrations[i] \in providers
<1>1. /\ Len(Registrations) \in Nat /\ reg.done \in 0 .. Len(Registrations)
      /\ i \in 1 .. Len(Registrations) /\ i # reg.done + 1
  BY RegistrationsAre DEF RegistrationInv
<1> QED
  BY <1>1 DEF RegistrationInv

-----------------------------------------------------------------------------
(* Requests and responses.                                                 *)

LEMMA RequestKept ==
  ASSUME RequestInv, UNCHANGED <<wire, inbox, job, timeouts, asked>>,
         routes \cap providers \subseteq (routes \cap providers)'
  PROVE  RequestInv'
<1>1. Carried' = Carried
  BY DEF Carried
<1>2. Decoded(job.request)' = Decoded(job.request)
  BY DEF Decoded, GetParams, SetParams, Properties
<1> QED
  BY <1>1, <1>2 DEF RequestInv

LEMMA ReplyKept ==
  ASSUME ReplyInv, UNCHANGED <<wire, inbox, job, replies, asked>>
  PROVE  ReplyInv'
<1>1. Carried' = Carried
  BY DEF Carried
<1> QED
  BY <1>1 DEF ReplyInv

\* What an answer to r has to be.
Fitting(r, entries, raced) ==
  r.ready =>
    \/ entries = <<>> /\ raced
    \/ /\ DOMAIN entries = DOMAIN Decoded(r)
       /\ \A i \in DOMAIN Decoded(r) : entries[i].property = Decoded(r)[i].label

LEMMA AnswersFit ==
  RegisteredAnswers <=> \A p \in replies : Fitting(p.to, p.entries, p.raced)
BY DEF RegisteredAnswers, Fitting, Decoded

LEMMA AnswersFitNext ==
  RegisteredAnswers' <=> \A p \in replies' : Fitting(p.to, p.entries, p.raced)
<1>1. \A r, e, x : Fitting(r, e, x)' <=> Fitting(r, e, x)
  BY DEF Fitting, Decoded, GetParams, SetParams, Properties
<1> QED
  BY <1>1 DEF RegisteredAnswers, Fitting, Decoded, GetParams, SetParams, Properties

\* A request is answered, and is carried no more.
LEMMA Answers ==
  ASSUME ReplyInv, RegisteredAnswers, NEW r \in Carried, r \notin Carried',
         Carried' \subseteq Carried, UNCHANGED asked, r.client \in Clients, r.op # "none",
         NEW e, NEW x, Fitting(r, e, x), Reply(r, e, x)
  PROVE  ReplyInv' /\ RegisteredAnswers'
<1> DEFINE new == [to |-> r, entries |-> e, raced |-> x]
<1>1. new.to = r /\ new.entries = e /\ new.raced = x
  OBVIOUS
<1> HIDE DEF new
<1>2. replies' = replies \/ (asked[r.client] = r /\ replies' = replies \cup {new})
  BY DEF Reply, new
<1>3. RegisteredAnswers'
  BY <1>1, <1>2, AnswersFit, AnswersFitNext
<1>4. \A p \in replies' : p.to \notin Carried' /\ p.to.client \in Clients /\ p.to.op # "none"
                          /\ asked'[p.to.client] = p.to
  BY <1>1, <1>2 DEF ReplyInv
<1>5. \A p \in replies : p.to # r
  BY DEF ReplyInv
<1>6. \A p \in replies', q \in replies' : p.to = q.to => p = q
  BY <1>1, <1>2, <1>5 DEF ReplyInv
<1> QED
  BY <1>3, <1>4, <1>6 DEF ReplyInv

LEMMA TakeStep ==
  ASSUME RequestInv, ReplyInv, Take
  PROVE  RequestInv' /\ ReplyInv' /\ Carried' = Carried
<1> DEFINE r == Head(inbox)
<1>1. /\ job = NoJob /\ inbox # <<>> /\ inbox' = Tail(inbox)
      /\ job' = [request |-> r, params |-> IF r.op = "get" THEN GetParams(r) ELSE SetParams(r)]
      /\ UNCHANGED <<hostVars, wire, replies, asked, timeouts>>
  BY DEF Take, clientVars, bounds
<1>2. /\ IsSeq(inbox') /\ IsInjective(inbox') /\ r \notin Range(inbox')
      /\ Range(inbox) = {r} \cup Range(inbox')
  BY <1>1, Cut DEF RequestInv
<1>3. job'.request = r /\ job'.params = IF r.op = "get" THEN GetParams(r) ELSE SetParams(r)
  BY <1>1
<1> HIDE DEF r
<1>4. r \in Carried /\ r \notin wire
  BY <1>2 DEF Carried, RequestInv
<1>5. job' # NoJob
  BY <1>3, <1>4 DEF RequestInv, NoJob, NoRequest
<1>6. Carried' = Carried
  BY <1>1, <1>2, <1>3, <1>5 DEF Carried
<1>7. job'.params = Decoded(r) /\ (Decoded(job.request))' = Decoded(job'.request)
  BY <1>3 DEF Decoded, GetParams, SetParams, Properties
<1>8. RequestInv'
  <2>1. job'.params = Decoded(job.request)'
    BY <1>3, <1>7
  <2>2. job'.request \notin wire' \cup Range(inbox')
    BY <1>1, <1>2, <1>3, <1>4
  <2>3. (\A q \in Carried : /\ q.client \in Clients /\ q.op # "none" /\ IsSeq(q.pairs)
                            /\ q.no \in Nat /\ q.no <= timeouts
                            /\ q.no = timeouts => asked[q.client] = q
                            /\ q.ready => q.name \in routes \cap providers)'
    <3>1. timeouts' = timeouts /\ asked' = asked /\ routes' = routes /\ providers' = providers
      BY <1>1 DEF hostVars
    <3> QED
      BY <1>6, <3>1 DEF RequestInv
  <2>4. timeouts' \in Nat /\ wire' \cap Range(inbox') = {}
    BY <1>1, <1>2 DEF RequestInv
  <2>5. (job # NoJob => /\ job.request \notin wire \cup Range(inbox)
                         /\ job.params = Decoded(job.request))'
    BY <2>1, <2>2
  <2>6. (IsSeq(inbox) /\ IsInjective(inbox))'
    BY <1>2
  <2> QED
    BY <2>3, <2>4, <2>5, <2>6 DEF RequestInv
<1> QED
  BY <1>1, <1>6, <1>8 DEF ReplyInv

\* The results of a request name the parameters.
LEMMA ResultsFit ==
  ASSUME NEW name, NEW params
  PROVE  /\ DOMAIN Got(name, params) = DOMAIN params
         /\ DOMAIN SetResults(name, params) = DOMAIN params
         /\ \A i \in DOMAIN params : /\ Got(name, params)[i].property = params[i].label
                                     /\ SetResults(name, params)[i].property = params[i].label
<1>1. \A p, v, fine : Entry(p, v, fine).property = p.label
  BY DEF Entry
<1> QED
  BY <1>1 DEF Got, SetResults

LEMMA HandleStep ==
  ASSUME RequestInv, ReplyInv, RegisteredAnswers, Handle
  PROVE  RequestInv' /\ ReplyInv' /\ RegisteredAnswers'
<1> DEFINE r == job.request
<1>1. /\ job # NoJob /\ job' = NoJob
      /\ UNCHANGED <<hostVars, wire, inbox, asked, timeouts>>
      /\ \/ MayFind(r.name) /\ r.op = "get" /\ Reply(r, Got(r.name, job.params), FALSE)
         \/ MayFind(r.name) /\ r.op = "set" /\ Reply(r, SetResults(r.name, job.params), FALSE)
         \/ MayMiss(r.name) /\ Reply(r, <<>>, reg.at = "inserting")
  BY DEF Handle, clientVars, bounds
<1>2. /\ r \in Carried /\ r \notin wire \cup Range(inbox) /\ job.params = Decoded(r)
      /\ Carried = wire \cup Range(inbox) \cup {r} /\ Carried' = wire \cup Range(inbox)
  BY <1>1 DEF RequestInv, Carried
<1>3. Fitting(r, Got(r.name, job.params), FALSE) /\ Fitting(r, SetResults(r.name, job.params), FALSE)
  BY <1>2, ResultsFit DEF Fitting
<1>4. ASSUME MayMiss(r.name) PROVE Fitting(r, <<>>, reg.at = "inserting")
  <2>1. r.ready => r.name \in providers
    BY <1>2 DEF RequestInv
  <2> QED
    BY <1>4, <2>1 DEF MayMiss, Fitting
<1>5. ReplyInv' /\ RegisteredAnswers'
  <2>1. r \notin Carried' /\ Carried' \subseteq Carried /\ r.client \in Clients /\ r.op # "none"
    BY <1>2 DEF RequestInv
  <2> HIDE DEF r
  <2> QED
    BY <1>1, <1>2, <1>3, <1>4, <2>1, Answers
<1>6. RequestInv'
  BY <1>1, <1>2 DEF RequestInv, hostVars
<1> QED
  BY <1>5, <1>6

LEMMA RouteStep ==
  ASSUME RequestInv, ReplyInv, RegisteredAnswers, NEW r \in wire, Route(r)
  PROVE  RequestInv' /\ ReplyInv' /\ RegisteredAnswers'
<1>1. /\ wire' = wire \ {r} /\ UNCHANGED <<hostVars, job, asked, timeouts>>
      /\ \/ inbox' = Append(inbox, r) /\ UNCHANGED replies
         \/ r.name \notin routes /\ Reply(r, <<>>, FALSE) /\ UNCHANGED inbox
  BY DEF Route, clientVars, bounds
<1>2. /\ r \in Carried /\ r \notin Range(inbox) /\ (job # NoJob => r # job.request)
      /\ Decoded(job.request)' = Decoded(job.request)
  BY <1>1 DEF Carried, RequestInv, Decoded, GetParams, SetParams, Properties
<1>3. CASE inbox' = Append(inbox, r) /\ UNCHANGED replies
  <2>1. IsSeq(inbox') /\ Range(inbox') = Range(inbox) \cup {r} /\ IsInjective(inbox')
    BY <1>2, <1>3, Appended DEF RequestInv
  <2>2. Carried' = Carried
    BY <1>1, <2>1 DEF Carried
  <2>3. RequestInv'
    BY <1>1, <1>2, <2>1, <2>2 DEF RequestInv, hostVars
  <2>4. ReplyInv' /\ RegisteredAnswers'
    BY <1>1, <1>3, <2>2, AnswersFit, AnswersFitNext DEF ReplyInv
  <2> QED
    BY <2>3, <2>4
<1>4. CASE r.name \notin routes /\ Reply(r, <<>>, FALSE) /\ UNCHANGED inbox
  <2>1. Carried' = Carried \ {r}
    BY <1>1, <1>2, <1>4 DEF Carried
  <2>2. Fitting(r, <<>>, FALSE) /\ r.client \in Clients /\ r.op # "none"
    BY <1>2, <1>4 DEF Fitting, RequestInv
  <2>3. ReplyInv' /\ RegisteredAnswers'
    BY <1>1, <1>2, <1>4, <2>1, <2>2, Answers
  <2>4. RequestInv'
    BY <1>1, <1>2, <1>4, <2>1 DEF RequestInv, hostVars
  <2> QED
    BY <2>3, <2>4
<1> QED
  BY <1>1, <1>3, <1>4

-----------------------------------------------------------------------------
(* Where a call of a client goes on.                                       *)

\* Frames f with what they owe: one that is to fail has told of it.
Owes(f, n) == IsFrame(f) /\ (~f.ok => n > 0)

\* Client c has gone on, or has returned.
Moved(c) ==
  /\ \E b \in BOOLEAN : ok' = [ok EXCEPT ![c] = b] /\
       \/ /\ at' = [at EXCEPT ![c] = "running"]
          /\ \E s : /\ stack' = [stack EXCEPT ![c] = s] /\ IsSeq(s) /\ s # <<>>
                    /\ \A f \in Range(s) : Owes(f, errors'[c])
       \/ /\ at' = [at EXCEPT ![c] = "returned"] /\ stack' = [stack EXCEPT ![c] = <<>>]
          /\ b \/ errors'[c] > 0

\* The client is in a call, and an error told stays told.
InCall(c) ==
  /\ FrameInv /\ stack[c] # <<>> /\ c \in Clients
  /\ errors[c] \in {0, 1} /\ errors'[c] \in {0, 1} /\ errors'[c] >= errors[c]

LEMMA OwesStill ==
  ASSUME NEW c, InCall(c)
  PROVE  /\ IsSeq(stack[c]) /\ Top(c) \in Range(stack[c])
         /\ \A f \in Range(stack[c]) : Owes(f, errors'[c])
<1>1. \A f \in Range(stack[c]) : IsFrame(f) /\ (~f.ok => errors[c] > 0)
  BY DEF InCall, FrameInv
<1>2. \A f \in Range(stack[c]) : Owes(f, errors'[c])
  BY <1>1 DEF Owes, InCall
<1>3. IsSeq(stack[c]) /\ Top(c) \in Range(stack[c])
  BY Cut DEF InCall, FrameInv, Top
<1> QED
  BY <1>2, <1>3

LEMMA ContinueMoves ==
  ASSUME NEW c, InCall(c), NEW f, Owes(f, errors'[c]), Continue(c, f)
  PROVE  Moved(c)
<1> DEFINE s == <<f>> \o Tail(stack[c])
<1>1. /\ IsSeq(stack[c]) /\ stack[c] # <<>> /\ c \in DOMAIN stack /\ ok \in [Clients -> BOOLEAN]
      /\ \A g \in Range(stack[c]) : Owes(g, errors'[c])
  BY OwesStill DEF InCall, FrameInv
<1>2. /\ at' = [at EXCEPT ![c] = "running"] /\ stack' = [stack EXCEPT ![c] = s]
      /\ ok' = [ok EXCEPT ![c] = ok[c]] /\ ok[c] \in BOOLEAN
  BY <1>1 DEF Continue, InCall
<1>3. IsSeq(s) /\ s # <<>> /\ Range(s) = {f} \cup Range(Tail(stack[c]))
  BY <1>1, HeadReplaced
<1>4. \A g \in Range(s) : Owes(g, errors'[c])
  BY <1>1, <1>3, Cut
<1> HIDE DEF s
<1> QED
  BY <1>2, <1>3, <1>4 DEF Moved

LEMMA ReturnMoves ==
  ASSUME NEW c, InCall(c), NEW b \in BOOLEAN, b \/ errors'[c] > 0, Return(c, b)
  PROVE  Moved(c)
<1> DEFINE u == Tail(stack[c])
           s == [u EXCEPT ![1].ok = b]
<1>1. /\ IsSeq(stack[c]) /\ stack[c] # <<>> /\ c \in DOMAIN stack
      /\ \A g \in Range(stack[c]) : Owes(g, errors'[c])
  BY OwesStill DEF InCall, FrameInv
<1>2. CASE Len(stack[c]) = 1
  BY <1>2 DEF Return, Moved
<1>3. CASE Len(stack[c]) # 1
  <2>1. /\ at' = [at EXCEPT ![c] = "running"] /\ stack' = [stack EXCEPT ![c] = s]
        /\ ok' = [ok EXCEPT ![c] = b]
    BY <1>1, <1>3 DEF Return
  <2>2. /\ IsSeq(u) /\ Len(u) = Len(stack[c]) - 1 /\ Len(stack[c]) \in Nat /\ Len(stack[c]) >= 1
        /\ \A g \in Range(u) : Owes(g, errors'[c])
    BY <1>1, Cut, SeqRange
  <2> HIDE DEF u
  <2>3. /\ Len(u) \in Nat /\ 1 \in 1 .. Len(u) /\ DOMAIN u = 1 .. Len(u)
        /\ \A i \in 1 .. Len(u) : u[i] \in Range(u)
    <3>1. /\ Len(u) \in Nat /\ DOMAIN u = 1 .. Len(u)
          /\ \A i \in 1 .. Len(u) : u[i] \in Range(u)
      BY <2>2, SeqRange
    <3>2. 1 \in 1 .. Len(u)
      <4> DEFINE n == Len(stack[c])
      <4>1. n \in Nat /\ n >= 1 /\ n # 1 /\ Len(u) = n - 1
        BY <1>3, <2>2
      <4> HIDE DEF n
      <4> QED
        BY <4>1
    <3> QED
      BY <3>1, <3>2
  <2> DEFINE g == [u[1] EXCEPT !.ok = b]
  <2>4. s = [i \in 1 .. Len(u) |-> IF i = 1 THEN g ELSE u[i]]
    BY <2>3
  <2>5. Owes(g, errors'[c])
    <3>1. IsFrame(u[1])
      BY <2>2, <2>3 DEF Owes
    <3>2. g = [x \in {"name", "property", "list", "step", "num", "ids", "i", "j", "ok"} |->
                 IF x = "ok" THEN b ELSE u[1][x]]
      BY <3>1 DEF IsFrame
    <3> QED
      BY <3>2 DEF Owes, IsFrame
  <2> HIDE DEF g, s
  <2>6. s \in Seq(Range(u) \cup {g}) /\ DOMAIN s = 1 .. Len(u) /\ Len(s) = Len(u)
    BY <2>3, <2>4
  <2>7. IsSeq(s) /\ Range(s) \subseteq Range(u) \cup {g}
    BY <2>6, SeqIs
  <2>8. s # <<>>
    BY <2>3, <2>6, <2>7, SeqRange
  <2>9. \A h \in Range(s) : Owes(h, errors'[c])
    BY <2>2, <2>5, <2>7
  <2> QED
    BY <2>1, <2>7, <2>8, <2>9 DEF Moved
<1> QED
  BY <1>2, <1>3

\* A frame with other fields.
LEMMA FrameFields ==
  ASSUME NEW f, NEW n, Owes(f, n)
  PROVE  /\ \A x, y, z : Owes([f EXCEPT !.i = x, !.j = y, !.step = z], n)
         /\ \A x, y : Owes([f EXCEPT !.step = x, !.j = y], n)
         /\ \A x, y : Owes([f EXCEPT !.num = x, !.step = y], n)
         /\ \A x, y : Owes([f EXCEPT !.ids = x, !.step = y], n)
         /\ \A x : Owes([f EXCEPT !.j = x], n)
         /\ n > 0 => Owes([f EXCEPT !.ok = FALSE], n)
<1> DEFINE Fields == {"name", "property", "list", "step", "num", "ids", "i", "j", "ok"}
<1>1. f = [x \in Fields |-> f[x]] /\ f.ok \in BOOLEAN /\ (~f.ok => n > 0)
  BY DEF Owes, IsFrame
<1>2. ASSUME NEW g, g = [x \in Fields |-> g[x]], g.ok = f.ok PROVE Owes(g, n)
  BY <1>1, <1>2 DEF Owes, IsFrame
<1>3. ASSUME NEW x, NEW y, NEW z PROVE Owes([f EXCEPT !.i = x, !.j = y, !.step = z], n)
  <2> DEFINE g == [f EXCEPT !.i = x, !.j = y, !.step = z]
  <2>1. g = [k \in Fields |-> IF k = "step" THEN z ELSE IF k = "j" THEN y
                              ELSE IF k = "i" THEN x ELSE f[k]]
    BY <1>1
  <2>2. g = [k \in Fields |-> g[k]] /\ g.ok = f.ok
    BY <2>1
  <2> QED
    BY <1>2, <2>2
<1>4. ASSUME NEW x, NEW y PROVE Owes([f EXCEPT !.step = x, !.j = y], n)
  <2> DEFINE g == [f EXCEPT !.step = x, !.j = y]
  <2>1. g = [k \in Fields |-> IF k = "j" THEN y ELSE IF k = "step" THEN x ELSE f[k]]
    BY <1>1
  <2>2. g = [k \in Fields |-> g[k]] /\ g.ok = f.ok
    BY <2>1
  <2> QED
    BY <1>2, <2>2
<1>5. ASSUME NEW x, NEW y PROVE Owes([f EXCEPT !.num = x, !.step = y], n)
  <2> DEFINE g == [f EXCEPT !.num = x, !.step = y]
  <2>1. g = [k \in Fields |-> IF k = "step" THEN y ELSE IF k = "num" THEN x ELSE f[k]]
    BY <1>1
  <2>2. g = [k \in Fields |-> g[k]] /\ g.ok = f.ok
    BY <2>1
  <2> QED
    BY <1>2, <2>2
<1>6. ASSUME NEW x, NEW y PROVE Owes([f EXCEPT !.ids = x, !.step = y], n)
  <2> DEFINE g == [f EXCEPT !.ids = x, !.step = y]
  <2>1. g = [k \in Fields |-> IF k = "step" THEN y ELSE IF k = "ids" THEN x ELSE f[k]]
    BY <1>1
  <2>2. g = [k \in Fields |-> g[k]] /\ g.ok = f.ok
    BY <2>1
  <2> QED
    BY <1>2, <2>2
<1>7. ASSUME NEW x PROVE Owes([f EXCEPT !.j = x], n)
  <2> DEFINE g == [f EXCEPT !.j = x]
  <2>1. g = [k \in Fields |-> IF k = "j" THEN x ELSE f[k]]
    BY <1>1
  <2>2. g = [k \in Fields |-> g[k]] /\ g.ok = f.ok
    BY <2>1
  <2> QED
    BY <1>2, <2>2
<1>8. ASSUME n > 0 PROVE Owes([f EXCEPT !.ok = FALSE], n)
  <2> DEFINE g == [f EXCEPT !.ok = FALSE]
  <2>1. g = [k \in Fields |-> IF k = "ok" THEN FALSE ELSE f[k]]
    BY <1>1
  <2>2. g = [k \in Fields |-> g[k]] /\ g.ok = FALSE
    BY <2>1
  <2> QED
    BY <1>8, <2>2 DEF Owes, IsFrame
<1> QED
  BY <1>3, <1>4, <1>5, <1>6, <1>7, <1>8

LEMMA FrameOwes ==
  ASSUME NEW name, NEW property, NEW n
  PROVE  Owes(Frame(name, property), n)
BY DEF Owes, IsFrame, Frame

LEMMA NextItemMoves ==
  ASSUME NEW c, InCall(c), NEW f, Owes(f, errors'[c]), NextItem(c, f)
  PROVE  Moved(c)
<1>1. CASE f.list /\ f.i < f.num
  <2> DEFINE g == [f EXCEPT !.i = @ + 1, !.j = 1, !.step = "item"]
  <2>1. Continue(c, g)
    BY <1>1 DEF NextItem
  <2>2. Owes(g, errors'[c])
    BY FrameFields
  <2> HIDE DEF g
  <2> QED
    BY <2>1, <2>2, ContinueMoves
<1>2. CASE ~(f.list /\ f.i < f.num)
  <2>1. Return(c, f.ok)
    BY <1>2 DEF NextItem
  <2>2. f.ok \in BOOLEAN /\ (f.ok \/ errors'[c] > 0)
    BY DEF Owes, IsFrame
  <2> QED
    BY <2>1, <2>2, ReturnMoves
<1> QED
  BY <1>1, <1>2

LEMMA QueriedMoves ==
  ASSUME NEW c, InCall(c), NEW f, Owes(f, errors'[c]), Queried(c, f)
  PROVE  Moved(c)
<1>1. CASE call[c].recursive
  <2> DEFINE g == [f EXCEPT !.step = "children", !.j = 1]
  <2>1. Continue(c, g)
    BY <1>1 DEF Queried
  <2>2. Owes(g, errors'[c])
    BY FrameFields
  <2> HIDE DEF g
  <2> QED
    BY <2>1, <2>2, ContinueMoves
<1>2. CASE ~call[c].recursive
  BY <1>2, NextItemMoves DEF Queried
<1> QED
  BY <1>1, <1>2

\* Errors told of at most to client c.
Counted(c) == errors' = errors \/ errors' = [errors EXCEPT ![c] = 1]

LEMMA CountedIs ==
  ASSUME ClientInv, NEW c \in Clients, Counted(c)
  PROVE  /\ errors' \in [Clients -> {0, 1}] /\ errors[c] \in {0, 1} /\ errors'[c] \in {0, 1}
         /\ errors'[c] >= errors[c] /\ \A d \in Clients : d # c => errors'[d] = errors[d]
BY DEF ClientInv, Counted

\* A client that goes on waits for nothing.
LEMMA MovedOn ==
  ASSUME ClientInv, FrameInv, NEW c \in Clients, Moved(c), Counted(c),
         asked' = [asked EXCEPT ![c] = NoRequest], call' = call, call[c] \in Calls
  PROVE  ClientInv' /\ FrameInv'
<1>1. /\ errors' \in [Clients -> {0, 1}] /\ \A d \in Clients : d # c => errors'[d] = errors[d]
  BY CountedIs
<1>2. PICK b \in BOOLEAN :
        /\ ok' = [ok EXCEPT ![c] = b]
        /\ \/ /\ at' = [at EXCEPT ![c] = "running"]
              /\ \E s : /\ stack' = [stack EXCEPT ![c] = s] /\ IsSeq(s) /\ s # <<>>
                        /\ \A f \in Range(s) : Owes(f, errors'[c])
           \/ /\ at' = [at EXCEPT ![c] = "returned"] /\ stack' = [stack EXCEPT ![c] = <<>>]
              /\ b \/ errors'[c] > 0
  BY DEF Moved
<1>3. PICK s, w : /\ at' = [at EXCEPT ![c] = w] /\ stack' = [stack EXCEPT ![c] = s]
                  /\ \/ w = "running" /\ s # <<>>
                     \/ w = "returned" /\ s = <<>> /\ (b \/ errors'[c] > 0)
                  /\ IsSeq(s) /\ \A f \in Range(s) : Owes(f, errors'[c])
  <2>1. CASE at' = [at EXCEPT ![c] = "running"] /\
             \E s : /\ stack' = [stack EXCEPT ![c] = s] /\ IsSeq(s) /\ s # <<>>
                   /\ \A f \in Range(s) : Owes(f, errors'[c])
    BY <2>1
  <2>2. CASE /\ at' = [at EXCEPT ![c] = "returned"] /\ stack' = [stack EXCEPT ![c] = <<>>]
             /\ b \/ errors'[c] > 0
    <3>1. IsSeq(<<>>) /\ Range(<<>>) = {}
      BY DEF IsSeq, Range
    <3> QED
      BY <2>2, <3>1
  <2> QED
    BY <1>2, <2>1, <2>2
<1>4. ClientInv'
  <2>1. w \in {"running", "returned"}
    BY <1>3
  <2>2. /\ at' \in [Clients -> {"idle", "running", "waiting", "returned", "crashed"}]
        /\ asked' = [d \in Clients |-> asked'[d]]
        /\ at'[c] = w /\ asked'[c] = NoRequest
        /\ \A d \in Clients : d # c => at'[d] = at[d] /\ asked'[d] = asked[d]
    BY <1>3, <2>1 DEF ClientInv
  <2> QED
    BY <1>1, <2>1, <2>2 DEF ClientInv
<1>5. /\ at'[c] = w /\ stack'[c] = s /\ ok'[c] = b
      /\ \A d \in Clients : d # c => at'[d] = at[d] /\ stack'[d] = stack[d] /\ ok'[d] = ok[d]
      /\ DOMAIN stack' = Clients /\ ok' \in [Clients -> BOOLEAN]
  BY <1>2, <1>3 DEF ClientInv, FrameInv
<1>6. ASSUME NEW d \in Clients
      PROVE  /\ IsSeq(stack'[d])
             /\ at'[d] \in {"running", "waiting"} => stack'[d] # <<>>
             /\ at'[d] \in {"idle", "returned"} => stack'[d] = <<>>
             /\ \A f \in Range(stack'[d]) : IsFrame(f) /\ (~f.ok => errors'[d] > 0)
  <2>1. CASE d = c
    BY <1>3, <1>5, <2>1 DEF Owes
  <2>2. CASE d # c
    BY <1>1, <1>5, <2>2 DEF FrameInv
  <2> QED
    BY <2>1, <2>2
<1>7. ASSUME NEW d \in Clients, at'[d] = "returned", ~ok'[d]
      PROVE  errors'[d] > 0 \/ (call[d].property = All /\ ObjectOf(call[d].name) = NoObject)
  <2>1. CASE d = c
    BY <1>3, <1>5, <1>7, <2>1
  <2>2. CASE d # c
    BY <1>1, <1>5, <1>7, <2>2 DEF FrameInv, FailureIsTold
  <2> QED
    BY <2>1, <2>2
<1>8. FailureIsTold'
  BY <1>7 DEF FailureIsTold
<1> QED
  BY <1>4, <1>5, <1>6, <1>8 DEF FrameInv

LEMMA NoQueryMoves ==
  ASSUME ClientInv, FrameInv, NEW c \in Clients, NoQuery(c)
  PROVE  ClientInv' /\ FrameInv'
<1> DEFINE f == Top(c)
<1>1. /\ at[c] = "running" /\ errors' = [errors EXCEPT ![c] = 1]
      /\ call' = call /\ asked' = asked
      /\ Return(c, FALSE) \/ Queried(c, [f EXCEPT !.ok = FALSE])
  BY DEF NoQuery
<1>2. errors'[c] > 0 /\ Counted(c)
  BY <1>1 DEF ClientInv, Counted
<1>3. InCall(c) /\ call[c] \in Calls
  BY <1>1, <1>2, CountedIs DEF InCall, ClientInv, FrameInv
<1>4. Owes(f, errors'[c])
  BY <1>3, OwesStill
<1>5. Owes([f EXCEPT !.ok = FALSE], errors'[c])
  BY <1>2, <1>4, FrameFields
<1>6. Moved(c)
  <2> DEFINE g == [f EXCEPT !.ok = FALSE]
  <2> HIDE DEF g
  <2>1. CASE Return(c, FALSE)
    BY <1>2, <1>3, <2>1, ReturnMoves
  <2>2. CASE Queried(c, g)
    BY <1>3, <1>5, <2>2, QueriedMoves DEF g
  <2> QED
    BY <1>1, <2>1, <2>2 DEF g
<1>7. asked' = [asked EXCEPT ![c] = NoRequest]
  BY <1>1 DEF ClientInv
<1> QED
  BY <1>1, <1>2, <1>3, <1>6, <1>7, MovedOn

LEMMA ResultMoves ==
  ASSUME ClientInv, FrameInv, NEW c \in Clients, at[c] = "waiting", NEW entries,
         Result(c, entries), call' = call
  PROVE  ClientInv' /\ FrameInv' /\ asked' = [asked EXCEPT ![c] = NoRequest]
<1> DEFINE f == Top(c)
<1>1. asked' = [asked EXCEPT ![c] = NoRequest] /\ call[c] \in Calls
  BY DEF Result, ClientInv
<1>2. CASE f.step = "count"
  <2> DEFINE g == [f EXCEPT !.num = ValueOf(entries, Target(f).property, 0, 0), !.step = "ids"]
  <2>1. Continue(c, g) /\ errors' = errors
    BY <1>2 DEF Result
  <2>2. Counted(c) /\ InCall(c)
    BY <2>1, CountedIs DEF Counted, InCall, FrameInv
  <2>3. Owes(g, errors'[c])
    BY <2>2, OwesStill, FrameFields
  <2> HIDE DEF g
  <2> QED
    BY <1>1, <2>1, <2>2, <2>3, ContinueMoves, MovedOn
<1>3. CASE f.step = "ids"
  <2> DEFINE ids == Ids(ValueOf(entries, Target(f).property, <<"0">>, <<>>))
             g == [f EXCEPT !.ids = ids, !.step = "item"]
  <2>1. WithIds(c, f, ids)
    BY <1>3 DEF Result
  <2> HIDE DEF ids
  <2>2. CASE errors' = [errors EXCEPT ![c] = 1] /\ Return(c, FALSE)
    <3>1. Counted(c) /\ InCall(c) /\ errors'[c] > 0
      BY <2>2, CountedIs DEF Counted, InCall, FrameInv, ClientInv
    <3> QED
      BY <1>1, <2>2, <3>1, ReturnMoves, MovedOn
  <2>3. CASE Continue(c, g) /\ errors' = errors
    <3>1. Counted(c) /\ InCall(c)
      BY <2>3, CountedIs DEF Counted, InCall, FrameInv
    <3>2. Owes(g, errors'[c])
      BY <3>1, OwesStill, FrameFields
    <3> HIDE DEF g
    <3> QED
      BY <1>1, <2>3, <3>1, <3>2, ContinueMoves, MovedOn
  <2> QED
    BY <2>1, <2>2, <2>3 DEF WithIds
<1>4. CASE f.step # "count" /\ f.step # "ids"
  <2>1. errors' = errors /\ (Queried(c, f) \/ Return(c, TRUE))
    BY <1>4 DEF Result
  <2>2. Counted(c) /\ InCall(c)
    BY <2>1, CountedIs DEF Counted, InCall, FrameInv
  <2>3. Owes(f, errors'[c])
    BY <2>2, OwesStill
  <2>4. Moved(c)
    <3>1. CASE Queried(c, f)
      BY <2>2, <2>3, <3>1, QueriedMoves
    <3>2. CASE Return(c, TRUE)
      BY <2>2, <3>2, ReturnMoves
    <3> QED
      BY <2>1, <3>1, <3>2
  <2> QED
    BY <1>1, <2>2, <2>4, MovedOn
<1> QED
  BY <1>1, <1>2, <1>3, <1>4

LEMMA ChildMoves ==
  ASSUME ClientInv, FrameInv, NEW c \in Clients, Child(c)
  PROVE  ClientInv' /\ FrameInv'
<1> DEFINE f == Top(c)
           top == Frame(Append(At(f), Last1(Children(ObjectOf(At(f)))[f.j])), All)
           g == [f EXCEPT !.j = @ + 1]
           s == <<top, g>> \o Tail(stack[c])
<1>1. /\ at[c] = "running" /\ errors' = errors /\ call' = call /\ asked' = asked
      /\ \/ NextItem(c, f)
         \/ stack' = [stack EXCEPT ![c] = s] /\ at' = at /\ ok' = ok
  BY DEF Child
<1>2. Counted(c) /\ InCall(c) /\ call[c] \in Calls
  BY <1>1, CountedIs DEF Counted, InCall, FrameInv, ClientInv
<1>3. /\ Owes(f, errors'[c]) /\ IsSeq(stack[c]) /\ stack[c] # <<>>
      /\ \A h \in Range(stack[c]) : Owes(h, errors'[c])
  BY <1>2, OwesStill DEF InCall
<1>4. asked' = [asked EXCEPT ![c] = NoRequest]
  BY <1>1 DEF ClientInv
<1>5. CASE NextItem(c, f)
  BY <1>1, <1>2, <1>3, <1>4, <1>5, NextItemMoves, MovedOn
<1>6. CASE stack' = [stack EXCEPT ![c] = s] /\ at' = at /\ ok' = ok
  <2>1. Owes(top, errors'[c]) /\ Owes(g, errors'[c])
    BY <1>3, FrameOwes, FrameFields
  <2> HIDE DEF top, g
  <2>2. IsSeq(s) /\ s # <<>> /\ Range(s) \subseteq {top, g} \cup Range(Tail(stack[c]))
    <3> DEFINE u == Tail(stack[c])
               S == {top, g} \cup Range(u)
    <3>1. IsSeq(u)
      BY <1>3, Cut
    <3> HIDE DEF u
    <3>2. u \in Seq(S) /\ <<top, g>> \in Seq(S) /\ Len(<<top, g>>) = 2 /\ Len(u) \in Nat
      BY <3>1, SeqRange DEF IsSeq
    <3>3. <<top, g>> \o u \in Seq(S) /\ Len(<<top, g>> \o u) = 2 + Len(u)
      BY <3>2
    <3>4. s \in Seq(S) /\ Len(s) = 2 + Len(u)
      BY <3>3 DEF u
    <3> HIDE DEF s, S
    <3>5. IsSeq(s) /\ Range(s) \subseteq S /\ Len(s) >= 1
      BY <3>2, <3>4, SeqIs
    <3> QED
      BY <3>5, SeqRange DEF S, u
  <2>3. \A h \in Range(s) : Owes(h, errors'[c])
    BY <1>3, <2>1, <2>2, Cut
  <2> HIDE DEF s
  <2>4. Moved(c)
    <3>1. at' = [at EXCEPT ![c] = "running"] /\ ok' = [ok EXCEPT ![c] = ok[c]] /\ ok[c] \in BOOLEAN
      BY <1>1, <1>6 DEF ClientInv, FrameInv
    <3> QED
      BY <1>6, <2>2, <2>3, <3>1 DEF Moved
  <2> QED
    BY <1>1, <1>2, <1>4, <2>4, MovedOn
<1> QED
  BY <1>1, <1>5, <1>6

\* The frames after a step that is about client c only.
LEMMA FramesFrom ==
  ASSUME FrameInv, NEW c \in Clients,
         DOMAIN stack' = Clients, ok' \in [Clients -> BOOLEAN],
         \A d \in Clients : d # c => /\ at'[d] = at[d] /\ stack'[d] = stack[d] /\ ok'[d] = ok[d]
                                     /\ errors'[d] = errors[d] /\ call'[d] = call[d],
         IsSeq(stack'[c]),
         at'[c] \in {"running", "waiting"} => stack'[c] # <<>>,
         at'[c] \in {"idle", "returned"} => stack'[c] = <<>>,
         \A f \in Range(stack'[c]) : Owes(f, errors'[c]),
         at'[c] = "returned" /\ ~ok'[c] =>
           errors'[c] > 0 \/ (call'[c].property = All /\ ObjectOf(call'[c].name) = NoObject)
  PROVE  FrameInv'
<1>1. ASSUME NEW d \in Clients
      PROVE  /\ IsSeq(stack'[d])
             /\ at'[d] \in {"running", "waiting"} => stack'[d] # <<>>
             /\ at'[d] \in {"idle", "returned"} => stack'[d] = <<>>
             /\ \A f \in Range(stack'[d]) : IsFrame(f) /\ (~f.ok => errors'[d] > 0)
  <2>1. CASE d = c
    BY <2>1 DEF Owes
  <2>2. CASE d # c
    BY <2>2 DEF FrameInv
  <2> QED
    BY <2>1, <2>2
<1>2. ASSUME NEW d \in Clients, at'[d] = "returned", ~ok'[d]
      PROVE  errors'[d] > 0 \/ (call'[d].property = All /\ ObjectOf(call'[d].name) = NoObject)
  <2>1. CASE d = c
    BY <1>2, <2>1
  <2>2. CASE d # c
    BY <1>2, <2>2 DEF FrameInv, FailureIsTold
  <2> QED
    BY <2>1, <2>2
<1>3. FailureIsTold'
  BY <1>2 DEF FailureIsTold
<1> QED
  BY <1>1, <1>3 DEF FrameInv

LEMMA CallMoves ==
  ASSUME ClientInv, FrameInv, NEW c \in Clients, NEW k \in Calls, Call(c, k)
  PROVE  ClientInv' /\ FrameInv'
<1>1. /\ at[c] = "idle" /\ call' = [call EXCEPT ![c] = k] /\ asked' = asked
      /\ errors' = [errors EXCEPT ![c] = 0]
      /\ \/ /\ k.property = All /\ ObjectOf(k.name) = NoObject
            /\ at' = [at EXCEPT ![c] = "returned"] /\ ok' = [ok EXCEPT ![c] = FALSE]
            /\ stack' = stack
         \/ /\ at' = [at EXCEPT ![c] = "running"] /\ ok' = ok
            /\ stack' = [stack EXCEPT ![c] = <<Frame(k.name, k.property)>>]
  BY DEF Call
<1>2. PICK w \in {"running", "returned"} : at' = [at EXCEPT ![c] = w]
  BY <1>1
<1>3. ClientInv'
  BY <1>1, <1>2 DEF ClientInv
<1>4. /\ call'[c] = k /\ errors'[c] = 0 /\ at'[c] = w
      /\ \A d \in Clients : d # c => /\ at'[d] = at[d] /\ errors'[d] = errors[d]
                                     /\ call'[d] = call[d]
  BY <1>1, <1>2 DEF ClientInv
<1>5. CASE /\ k.property = All /\ ObjectOf(k.name) = NoObject
           /\ at' = [at EXCEPT ![c] = "returned"] /\ ok' = [ok EXCEPT ![c] = FALSE]
           /\ stack' = stack
  <2>1. at'[c] = "returned" /\ stack'[c] = <<>>
    BY <1>1, <1>5 DEF ClientInv, FrameInv
  <2>2. /\ DOMAIN stack' = Clients /\ ok' \in [Clients -> BOOLEAN]
        /\ \A d \in Clients : d # c => stack'[d] = stack[d] /\ ok'[d] = ok[d]
    BY <1>5 DEF FrameInv
  <2>3. IsSeq(<<>>) /\ Range(<<>>) = {}
    BY DEF IsSeq, Range
  <2>4. IsSeq(stack'[c]) /\ \A g \in Range(stack'[c]) : Owes(g, errors'[c])
    BY <2>1, <2>3
  <2>5. \A d \in Clients : d # c => /\ at'[d] = at[d] /\ stack'[d] = stack[d] /\ ok'[d] = ok[d]
                                     /\ errors'[d] = errors[d] /\ call'[d] = call[d]
    BY <1>4, <2>2
  <2>6. call'[c].property = All /\ ObjectOf(call'[c].name) = NoObject
    BY <1>4, <1>5
  <2>7. FrameInv'
    BY <2>1, <2>2, <2>4, <2>5, <2>6, FramesFrom
  <2> QED
    BY <1>3, <2>7
<1>6. CASE /\ at' = [at EXCEPT ![c] = "running"] /\ ok' = ok
           /\ stack' = [stack EXCEPT ![c] = <<Frame(k.name, k.property)>>]
  <2> DEFINE f == Frame(k.name, k.property)
  <2>1. Owes(f, 0)
    BY FrameOwes
  <2>2. /\ DOMAIN stack' = Clients /\ ok' \in [Clients -> BOOLEAN] /\ stack'[c] = <<f>>
        /\ at'[c] = "running"
        /\ \A d \in Clients : d # c => stack'[d] = stack[d] /\ ok'[d] = ok[d]
    BY <1>4, <1>6 DEF FrameInv, ClientInv
  <2> HIDE DEF f
  <2>3. <<f>> \in Seq({f}) /\ <<f>> # <<>>
    OBVIOUS
  <2>4. IsSeq(<<f>>) /\ Range(<<f>>) \subseteq {f}
    BY <2>3, SeqIs
  <2>5. \A g \in Range(stack'[c]) : Owes(g, errors'[c])
    BY <1>4, <2>1, <2>2, <2>4
  <2> QED
    BY <1>3, <1>4, <2>2, <2>3, <2>4, <2>5, FramesFrom
<1> QED
  BY <1>1, <1>5, <1>6

\* A step of client c that changes where it is, and what it waits for, and no more of it.
LEMMA WaitsOrLeaves ==
  ASSUME ClientInv, FrameInv, NEW c \in Clients,
         NEW w \in {"idle", "running", "waiting", "returned", "crashed"},
         at' = [at EXCEPT ![c] = w], UNCHANGED <<stack, ok, call, errors>>,
         NEW r, asked' = [asked EXCEPT ![c] = r], w = "waiting" <=> r # NoRequest,
         \/ at[c] = "running" /\ w \in {"waiting", "crashed"}
         \/ at[c] = "returned" /\ w = "idle"
  PROVE  ClientInv' /\ FrameInv'
<1>1. /\ at'[c] = w /\ asked'[c] = r
      /\ \A d \in Clients : d # c => at'[d] = at[d] /\ asked'[d] = asked[d]
      /\ at' \in [Clients -> {"idle", "running", "waiting", "returned", "crashed"}]
      /\ asked' = [d \in Clients |-> asked'[d]]
  BY DEF ClientInv
<1>2. ClientInv'
  BY <1>1 DEF ClientInv
<1>3. FrameInv'
  <2>1. /\ DOMAIN stack' = Clients /\ ok' \in [Clients -> BOOLEAN] /\ IsSeq(stack'[c])
        /\ \A f \in Range(stack'[c]) : Owes(f, errors'[c])
    BY DEF FrameInv, Owes
  <2>2. /\ at'[c] \in {"running", "waiting"} => stack'[c] # <<>>
        /\ at'[c] \in {"idle", "returned"} => stack'[c] = <<>>
        /\ at'[c] # "returned"
    BY <1>1 DEF FrameInv
  <2> QED
    BY <1>1, <2>1, <2>2, FramesFrom
<1> QED
  BY <1>2, <1>3

LEMMA AskStep ==
  ASSUME RegistrationInv, RequestInv, ReplyInv, ClientInv, FrameInv, NEW c \in Clients, Ask(c)
  PROVE  RequestInv' /\ ReplyInv' /\ ClientInv' /\ FrameInv'
<1> DEFINE q == Target(Top(c))
           r == [client |-> c, op |-> call[c].op, name |-> q.name, property |-> q.property,
                 pairs |-> call[c].pairs, no |-> timeouts,
                 ready |-> q.name \in routes
                           /\ \E i \in 1 .. reg.done : Registrations[i] = q.name]
<1>1. /\ at[c] = "running" /\ wire' = wire \cup {r} /\ asked' = [asked EXCEPT ![c] = r]
      /\ at' = [at EXCEPT ![c] = "waiting"]
      /\ UNCHANGED <<hostVars, inbox, job, replies, timeouts, stack, call, ok, errors>>
  BY DEF Ask, bounds
<1>2. /\ r.client = c /\ r.op = call[c].op /\ r.pairs = call[c].pairs /\ r.no = timeouts
      /\ r.name = q.name
      /\ r.ready => q.name \in routes /\ \E i \in 1 .. reg.done : Registrations[i] = q.name
  OBVIOUS
<1> HIDE DEF r
<1>3. call[c] \in Calls /\ asked[c] = NoRequest
  BY <1>1 DEF ClientInv
<1>4. call[c].op \in {"get", "set", "bare"} /\ IsSeq(call[c].pairs)
  BY <1>3, ProviderAssumption DEF IsSeq
<1>5. r.ready => r.name \in routes \cap providers
  BY <1>2, ReadyMeans
<1>6. r # NoRequest
  BY <1>2, <1>4 DEF NoRequest
<1>7. r \notin Carried
  <2>1. SUFFICES ASSUME r \in Carried PROVE FALSE
    OBVIOUS
  <2>2. asked[c] = r
    BY <1>2, <2>1 DEF RequestInv
  <2> QED
    BY <1>3, <1>6, <2>2
<1>8. Carried' = Carried \cup {r}
  BY <1>1 DEF Carried
<1>9. asked'[c] = r /\ \A d \in Clients : d # c => asked'[d] = asked[d]
  BY <1>1 DEF ClientInv
<1>10. ReplyInv'
  <2>1. ASSUME NEW p \in replies
        PROVE  /\ p.to \notin Carried' /\ p.to.client \in Clients /\ p.to.op # "none"
               /\ asked'[p.to.client] = p.to
    <3>1. /\ p.to \notin Carried /\ p.to.client \in Clients /\ p.to.op # "none"
          /\ asked[p.to.client] = p.to
      BY DEF ReplyInv
    <3>2. p.to.client # c
      BY <1>3, <3>1 DEF NoRequest
    <3> QED
      BY <1>2, <1>8, <1>9, <3>1, <3>2
  <2> QED
    BY <1>1, <2>1 DEF ReplyInv
<1>11. RequestInv'
  <2>1. (\A x \in Carried : /\ x.client \in Clients /\ x.op # "none" /\ IsSeq(x.pairs)
                            /\ x.no \in Nat /\ x.no <= timeouts
                            /\ x.no = timeouts => asked[x.client] = x
                            /\ x.ready => x.name \in routes \cap providers)'
    <3>1. timeouts' = timeouts /\ routes' = routes /\ providers' = providers /\ timeouts \in Nat
      BY <1>1 DEF hostVars, RequestInv
    <3>2. ASSUME NEW x \in Carried
          PROVE  /\ x.client \in Clients /\ x.op # "none" /\ IsSeq(x.pairs)
                 /\ x.no \in Nat /\ x.no <= timeouts
                 /\ x.no = timeouts => asked'[x.client] = x
                 /\ x.ready => x.name \in routes \cap providers
      <4>1. x.no = timeouts => x.client # c
        <5>1. SUFFICES ASSUME x.no = timeouts, x.client = c PROVE FALSE
          OBVIOUS
        <5>2. x = NoRequest
          BY <1>3, <5>1 DEF RequestInv
        <5> QED
          BY <5>2 DEF RequestInv, NoRequest
      <4> QED
        BY <1>9, <4>1 DEF RequestInv
    <3>3. /\ r.client \in Clients /\ r.op # "none" /\ IsSeq(r.pairs)
          /\ r.no \in Nat /\ r.no <= timeouts
          /\ r.no = timeouts => asked'[r.client] = r
          /\ r.ready => r.name \in routes \cap providers
      BY <1>2, <1>4, <1>5, <1>9, <3>1
    <3> QED
      BY <1>8, <3>1, <3>2, <3>3
  <2>2. (IsSeq(inbox) /\ IsInjective(inbox) /\ timeouts \in Nat)'
    BY <1>1 DEF RequestInv
  <2>3. (wire \cap Range(inbox) = {})'
    BY <1>1, <1>7 DEF RequestInv, Carried
  <2>4. (job # NoJob => /\ job.request \notin wire \cup Range(inbox)
                         /\ job.params = Decoded(job.request))'
    <3>1. Decoded(job.request)' = Decoded(job.request)
      BY <1>1 DEF Decoded, GetParams, SetParams, Properties
    <3>2. job # NoJob => r # job.request
      BY <1>7 DEF Carried
    <3> QED
      BY <1>1, <3>1, <3>2 DEF RequestInv
  <2> QED
    BY <2>1, <2>2, <2>3, <2>4 DEF RequestInv
<1>12. ClientInv' /\ FrameInv'
  BY <1>1, <1>6, WaitsOrLeaves
<1> QED
  BY <1>10, <1>11, <1>12

\* A client takes an answer, or gives up; without the responses to it.
LEMMA TakenStep ==
  ASSUME RequestInv, ReplyInv, RegisteredAnswers, ClientInv, NEW c \in Clients,
         at[c] = "waiting", asked' = [asked EXCEPT ![c] = NoRequest],
         UNCHANGED <<hostVars, wire, inbox, job>>,
         \/ timeouts' = timeouts /\ asked[c] \notin Carried
         \/ timeouts' = timeouts + 1,
         replies' \subseteq replies, \A p \in replies' : p.to # asked[c]
  PROVE  RequestInv' /\ ReplyInv' /\ RegisteredAnswers'
<1>1. Carried' = Carried /\ routes' = routes /\ providers' = providers
  BY DEF Carried, hostVars
<1>2. \A d \in Clients : d # c => asked'[d] = asked[d]
  BY DEF ClientInv
<1>3. RegisteredAnswers'
  BY AnswersFit, AnswersFitNext
<1>4. ReplyInv'
  <2>1. ASSUME NEW p \in replies'
        PROVE  /\ p.to \notin Carried' /\ p.to.client \in Clients /\ p.to.op # "none"
               /\ asked'[p.to.client] = p.to
    <3>1. /\ p.to \notin Carried /\ p.to.client \in Clients /\ p.to.op # "none"
          /\ asked[p.to.client] = p.to
      BY DEF ReplyInv
    <3>2. p.to.client # c
      BY <3>1
    <3> QED
      BY <1>1, <1>2, <3>1, <3>2
  <2> QED
    BY <2>1 DEF ReplyInv
<1>5. RequestInv'
  <2>1. ASSUME NEW x \in Carried
        PROVE  /\ x.client \in Clients /\ x.op # "none" /\ IsSeq(x.pairs)
               /\ x.no \in Nat /\ x.no <= timeouts'
               /\ x.no = timeouts' => asked'[x.client] = x
               /\ x.ready => x.name \in routes \cap providers
    <3>1. /\ x.client \in Clients /\ x.op # "none" /\ IsSeq(x.pairs)
          /\ x.no \in Nat /\ x.no <= timeouts /\ timeouts \in Nat
          /\ x.no = timeouts => asked[x.client] = x
          /\ x.ready => x.name \in routes \cap providers
      BY DEF RequestInv
    <3>2. CASE timeouts' = timeouts + 1
      BY <3>1, <3>2
    <3>3. CASE timeouts' = timeouts /\ asked[c] \notin Carried
      BY <1>2, <3>1, <3>3
    <3> QED
      BY <3>2, <3>3
  <2>2. (\A x \in Carried : /\ x.client \in Clients /\ x.op # "none" /\ IsSeq(x.pairs)
                            /\ x.no \in Nat /\ x.no <= timeouts
                            /\ x.no = timeouts => asked[x.client] = x
                            /\ x.ready => x.name \in routes \cap providers)'
    BY <1>1, <2>1
  <2>3. (IsSeq(inbox) /\ IsInjective(inbox) /\ timeouts \in Nat)'
    BY DEF RequestInv
  <2>4. (wire \cap Range(inbox) = {})'
    BY DEF RequestInv
  <2>5. (job # NoJob => /\ job.request \notin wire \cup Range(inbox)
                         /\ job.params = Decoded(job.request))'
    <3>1. Decoded(job.request)' = Decoded(job.request)
      BY DEF Decoded, GetParams, SetParams, Properties
    <3> QED
      BY <3>1 DEF RequestInv
  <2> QED
    BY <2>2, <2>3, <2>4, <2>5 DEF RequestInv
<1> QED
  BY <1>3, <1>4, <1>5

LEMMA AnsweredStep ==
  ASSUME RequestInv, ReplyInv, RegisteredAnswers, ClientInv, FrameInv, NEW c \in Clients,
         Answered(c)
  PROVE  /\ RequestInv' /\ ReplyInv' /\ RegisteredAnswers' /\ ClientInv' /\ FrameInv'
         /\ UNCHANGED <<hostVars, values>>
<1>1. PICK p \in replies : /\ p.to = asked[c] /\ replies' = replies \ {p}
                           /\ Result(c, p.entries)
  BY DEF Answered
<1>2. UNCHANGED <<hostVars, values, wire, inbox, job, call, timeouts>>
  BY DEF Answered, bounds
<1>3. p.to \notin Carried /\ \A q \in replies : q.to = p.to => q = p
  BY DEF ReplyInv
<1>4. at[c] = "waiting"
  <2>1. p.to # NoRequest
    BY DEF ReplyInv, NoRequest
  <2> QED
    BY <1>1, <2>1 DEF ClientInv
<1>5. ClientInv' /\ FrameInv' /\ asked' = [asked EXCEPT ![c] = NoRequest]
  BY <1>1, <1>2, <1>4, ResultMoves
<1>6. RequestInv' /\ ReplyInv' /\ RegisteredAnswers'
  BY <1>1, <1>2, <1>3, <1>4, <1>5, TakenStep
<1> QED
  BY <1>2, <1>5, <1>6

LEMMA TimesOutStep ==
  ASSUME RequestInv, ReplyInv, RegisteredAnswers, ClientInv, FrameInv, NEW c \in Clients,
         TimesOut(c)
  PROVE  /\ RequestInv' /\ ReplyInv' /\ RegisteredAnswers' /\ ClientInv' /\ FrameInv'
         /\ UNCHANGED <<hostVars, values>>
<1>1. /\ at[c] = "waiting" /\ timeouts' = timeouts + 1 /\ Result(c, <<>>)
      /\ replies' = {p \in replies : p.to # asked[c]}
      /\ UNCHANGED <<hostVars, values, wire, inbox, job, call>>
  BY DEF TimesOut
<1>2. ClientInv' /\ FrameInv' /\ asked' = [asked EXCEPT ![c] = NoRequest]
  BY <1>1, ResultMoves
<1>3. RequestInv' /\ ReplyInv' /\ RegisteredAnswers'
  BY <1>1, <1>2, TakenStep
<1> QED
  BY <1>1, <1>2, <1>3

-----------------------------------------------------------------------------
(* The invariant, and what follows from it.                                *)

LEMMA HostStep ==
  ASSUME ProviderIInv, Host
  PROVE  ProviderIInv'
<1> USE DEF ProviderIInv
<1>1. UNCHANGED clientVars /\ timeouts' = timeouts
  BY DEF Host, AddListener, NotRegistered, InsertStarts, InsertEnds, Subscribed, Take, Handle,
         bounds
<1>2. ClientInv' /\ FrameInv' /\ asked' = asked
  <2>1. FailureIsTold'
    BY <1>1 DEF FrameInv, FailureIsTold, clientVars
  <2> QED
    BY <1>1, <2>1 DEF ClientInv, FrameInv, clientVars
<1>3. CASE AddListener \/ NotRegistered \/ InsertStarts \/ InsertEnds \/ Subscribed
  <2>1. UNCHANGED <<wire, inbox, job, replies>>
    BY <1>3 DEF AddListener, NotRegistered, InsertStarts, InsertEnds, Subscribed
  <2>2. RegistrationInv' /\ routes \cap providers \subseteq (routes \cap providers)'
    BY <1>3, RegistrationStep
  <2>3. RequestInv' /\ ReplyInv'
    BY <1>1, <1>2, <2>1, <2>2, RequestKept, ReplyKept
  <2>4. RegisteredAnswers'
    BY <2>1, AnswersFit, AnswersFitNext
  <2> QED
    BY <1>2, <2>2, <2>3, <2>4
<1>4. CASE Take
  <2>1. RegistrationInv'
    BY <1>4, RegistrationKept DEF Take
  <2>2. RegisteredAnswers'
    BY <1>4, AnswersFit, AnswersFitNext DEF Take
  <2> QED
    BY <1>2, <1>4, <2>1, <2>2, TakeStep
<1>5. CASE Handle
  <2>1. RegistrationInv'
    BY <1>5, RegistrationKept DEF Handle
  <2> QED
    BY <1>2, <1>5, <2>1, HandleStep
<1> QED
  BY <1>3, <1>4, <1>5 DEF Host

LEMMA ClientStep ==
  ASSUME ProviderIInv, NEW c \in Clients, Step(c) \/ \E k \in Calls : Call(c, k)
  PROVE  ProviderIInv'
<1> USE DEF ProviderIInv
<1>1. RegistrationInv' /\ UNCHANGED hostVars
  <2>1. UNCHANGED hostVars
    BY DEF Step, Call, Ask, NoQuery, Answered, TimesOut, Child, Crash, Leave
  <2> QED
    BY <2>1, RegistrationKept
<1>2. ASSUME UNCHANGED <<wire, inbox, job, replies, asked, timeouts>>
      PROVE  RequestInv' /\ ReplyInv' /\ RegisteredAnswers'
  <2>1. routes \cap providers \subseteq (routes \cap providers)'
    BY <1>1 DEF hostVars
  <2>2. RegisteredAnswers'
    BY <1>2, AnswersFit, AnswersFitNext
  <2> QED
    BY <1>2, <2>1, <2>2, RequestKept, ReplyKept
<1>3. ASSUME NEW k \in Calls, Call(c, k) PROVE ProviderIInv'
  <2>1. UNCHANGED <<wire, inbox, job, replies, asked, timeouts>>
    BY <1>3 DEF Call
  <2> QED
    BY <1>1, <1>2, <1>3, <2>1, CallMoves
<1>4. CASE Ask(c)
  <2>1. RegisteredAnswers'
    BY <1>4, AnswersFit, AnswersFitNext DEF Ask
  <2> QED
    BY <1>1, <1>4, <2>1, AskStep
<1>5. CASE NoQuery(c)
  <2>1. UNCHANGED <<wire, inbox, job, replies, asked, timeouts>>
    BY <1>5 DEF NoQuery, bounds
  <2> QED
    BY <1>1, <1>2, <1>5, <2>1, NoQueryMoves
<1>6. CASE Answered(c)
  BY <1>1, <1>6, AnsweredStep
<1>7. CASE TimesOut(c)
  BY <1>1, <1>7, TimesOutStep
<1>8. CASE Child(c)
  <2>1. UNCHANGED <<wire, inbox, job, replies, asked, timeouts>>
    BY <1>8 DEF Child, bounds
  <2> QED
    BY <1>1, <1>2, <1>8, <2>1, ChildMoves
<1>9. CASE Crash(c) \/ Leave(c)
  <2>1. PICK w \in {"idle", "crashed"} :
          /\ at' = [at EXCEPT ![c] = w]
          /\ (at[c] = "running" /\ w = "crashed") \/ (at[c] = "returned" /\ w = "idle")
    BY <1>9 DEF Crash, Leave
  <2>2. UNCHANGED <<wire, inbox, job, replies, asked, timeouts, stack, ok, call, errors>>
    BY <1>9 DEF Crash, Leave, bounds
  <2>3. asked' = [asked EXCEPT ![c] = NoRequest]
    BY <2>1, <2>2 DEF ClientInv
  <2>4. ClientInv' /\ FrameInv'
    BY <2>1, <2>2, <2>3, WaitsOrLeaves
  <2> QED
    BY <1>1, <1>2, <2>2, <2>4
<1> QED
  BY <1>3, <1>4, <1>5, <1>6, <1>7, <1>8, <1>9 DEF Step

LEMMA RouteKeeps ==
  ASSUME ProviderIInv, NEW r \in wire, Route(r)
  PROVE  ProviderIInv'
<1> USE DEF ProviderIInv
<1>1. UNCHANGED <<hostVars, clientVars>>
  BY DEF Route
<1>2. FailureIsTold'
  BY <1>1 DEF FrameInv, FailureIsTold, clientVars
<1>3. ClientInv' /\ FrameInv'
  BY <1>1, <1>2 DEF ClientInv, FrameInv, clientVars
<1> QED
  BY <1>1, <1>3, RegistrationKept, RouteStep

LEMMA ProviderStep == ProviderIInv /\ [Next]_vars => ProviderIInv'
<1> SUFFICES ASSUME ProviderIInv, [Next]_vars PROVE ProviderIInv'
  OBVIOUS
<1>1. CASE Next
  <2>1. CASE Host
    BY <2>1, HostStep
  <2>2. CASE \E r \in wire : Route(r)
    BY <2>2, RouteKeeps
  <2>3. CASE \E c \in Clients : (\E k \in Calls : Call(c, k)) \/ Step(c)
    BY <2>3, ClientStep
  <2> QED
    BY <1>1, <2>1, <2>2, <2>3 DEF Next
<1>2. CASE UNCHANGED vars
  <2>1. /\ UNCHANGED <<hostVars, wire, inbox, job, replies, at, stack, call, asked, ok, errors,
                       timeouts>>
        /\ routes \cap providers \subseteq (routes \cap providers)'
    BY <1>2 DEF vars, hostVars, clientVars, bounds
  <2>2. ClientInv' /\ FrameInv'
    <3>1. FailureIsTold'
      BY <2>1 DEF ProviderIInv, FrameInv, FailureIsTold
    <3> QED
      BY <2>1, <3>1 DEF ProviderIInv, ClientInv, FrameInv
  <2>3. RegisteredAnswers'
    BY <2>1, AnswersFit, AnswersFitNext DEF ProviderIInv
  <2> QED
    BY <2>1, <2>2, <2>3, RegistrationKept, RequestKept, ReplyKept DEF ProviderIInv
<1> QED
  BY <1>1, <1>2

LEMMA ProviderInvariant == Spec => []ProviderIInv
BY ProviderInit, ProviderStep, PTL DEF Spec

\* Whatever is asked of an object after it was registered and its topic routed, the
\* object answers, property by property; the exceptions are those of the data race on
\* m_providers: registerProvider, requestHandler, doGet and doSet.
THEOREM ObjectsAnswer == Spec => []RegisteredAnswers
<1>1. ProviderIInv => RegisteredAnswers
  BY DEF ProviderIInv
<1> QED
  BY <1>1, ProviderInvariant, PTL

\* A client waits exactly for the one request it has under way, no response is to a
\* request that nobody waits for, and a call of runQuery that fails has told its
\* notifier of an error: rtConnection_SendRequest, dmClientImpl.
THEOREM FailuresAreTold == Spec => [](TypeOK /\ FailureIsTold)
<1>1. ProviderIInv => TypeOK /\ FailureIsTold
  BY SeqRange DEF ProviderIInv, RegistrationInv, ReplyInv, ClientInv, FrameInv, TypeOK
<1> QED
  BY <1>1, ProviderInvariant, PTL

\* A set of several properties changes both values of an end point that a transaction
\* sets aside, to what it asked for, or neither: beginTransaction, doSet and
\* endTransaction, for any order of the parameters, repeated, unknown or read-only.
THEOREM TransactionsAreWhole == Spec => BothOrNeither
<1> DEFINE Whole(n) ==
      LET asks(p) == \E i \in DOMAIN job.params :
                       job.params[i].name = p /\ job.params[i].value = values'[n][p]
          changes(p) == values'[n][p] # values[n][p]
      IN  (/\ InTransaction(job.params) /\ Staged \subseteq DOMAIN values[n]
           /\ \E p \in Staged : changes(p))
            => \A p \in Staged : asks(p)
<1>1. ASSUME ProviderIInv, [Next]_vars, NEW n \in DOMAIN values PROVE Whole(n)
  <2>1. CASE values' = values
    BY <2>1
  <2>2. CASE values' # values
    <3> DEFINE r == job.request
               params == job.params
    <3>1. /\ Handle /\ job # NoJob /\ r.op = "set"
          /\ values' = [values EXCEPT ![r.name] = Kept(r.name, params)]
      BY <1>1, <2>2 DEF Next, Host, Step, Call, Ask, NoQuery, Answered, TimesOut, Child, Crash,
           Leave, Route, AddListener, NotRegistered, InsertStarts, InsertEnds, Subscribed, Take,
           Handle, vars
    <3>2. r \in Carried /\ IsSeq(r.pairs) /\ params = SetParams(r)
      BY <1>1, <3>1 DEF ProviderIInv, RequestInv, Carried, Decoded
    <3>3. Len(r.pairs) \in Nat /\ DOMAIN params \subseteq 1 .. Len(r.pairs)
      <4>1. Len(r.pairs) \in Nat /\ DOMAIN r.pairs = 1 .. Len(r.pairs)
        BY <3>2, SeqRange
      <4>2. DOMAIN <<>> = {}
        OBVIOUS
      <4> QED
        BY <3>2, <4>1, <4>2 DEF SetParams, WellFormed
    <3> HIDE DEF r, params
    <3>4. ASSUME NEW p, Sets(r.name, params, p) # {}
          PROVE  \E i \in DOMAIN params : /\ params[i].name = p
                                          /\ params[i].value = LastSet(r.name, params, p)
      <4>1. Sets(r.name, params, p) \subseteq 1 .. Len(r.pairs)
        BY <3>3 DEF Sets
      <4>2. Max(Sets(r.name, params, p)) \in Sets(r.name, params, p)
        BY <3>3, <3>4, <4>1, MaxIn
      <4> QED
        BY <4>2 DEF Sets, LastSet
    <3>5. ASSUME InTransaction(params), Staged \subseteq DOMAIN values[n],
                 NEW p \in Staged, values'[n][p] # values[n][p], NEW q \in Staged
          PROVE  \E i \in DOMAIN params : params[i].name = q /\ params[i].value = values'[n][q]
      <4>1. n = r.name /\ values'[n] = Kept(n, params)
        BY <3>1, <3>5
      <4>2. \A x \in Staged : values'[n][x] =
              IF Sets(n, params, x) = {} \/ ~Commits(n, params)
              THEN values[n][x] ELSE LastSet(n, params, x)
        BY <3>5, <4>1 DEF Kept
      <4>3. Commits(n, params)
        BY <3>5, <4>2
      <4>4. Sets(n, params, q) # {}
        BY <4>3 DEF Commits, SetsAside
      <4> QED
        BY <3>4, <4>1, <4>2, <4>3, <4>4
    <3> QED
      BY <3>5 DEF params
  <2> QED
    BY <2>1, <2>2
<1>2. ProviderIInv /\ [Next]_vars => [\A n \in DOMAIN values : Whole(n)]_vars
  BY <1>1
<1> QED
  BY <1>2, ProviderInvariant, PTL DEF Spec, BothOrNeither

-----------------------------------------------------------------------------
(* Prefixes.                                                               *)

\* A prefix, element by element.
LEMMA PrefixIs ==
  ASSUME NEW s, NEW t, IsSeq(s), IsSeq(t)
  PROVE  IsPrefix(s, t) <=> Len(s) <= Len(t) /\ \A i \in 1 .. Len(s) : s[i] = t[i]
<1>1. Len(s) \in Nat /\ Len(t) \in Nat
  BY SeqRange
<1>2. ASSUME Len(s) <= Len(t)
      PROVE  SubSeq(s, 1, Len(s)) = SubSeq(t, 1, Len(s)) <=> \A i \in 1 .. Len(s) : s[i] = t[i]
  <2> DEFINE a == SubSeq(s, 1, Len(s))
             b == SubSeq(t, 1, Len(s))
  <2>1. /\ a = [i \in 1 .. Len(s) |-> s[i]]
        /\ b = [i \in 1 .. Len(s) |-> t[i]]
    <3>1. \A i \in 1 .. Len(s) : i + 1 - 1 = i /\ 1 + i - 1 = i
      BY <1>1
    <3>2. (1 .. Len(s) + 1 - 1) = 1 .. Len(s)
      BY <1>1
    <3> QED
      BY <1>1, <1>2, <3>1, <3>2 DEF IsSeq
  <2> HIDE DEF a, b
  <2> QED
    BY <2>1 DEF a, b
<1> QED
  BY <1>2 DEF IsPrefix

\* Below a sequence: one element more.
LEMMA PrefixGrows ==
  ASSUME NEW s, NEW t, NEW x, IsSeq(s), IsSeq(t)
  PROVE  /\ IsPrefix(s, t) /\ s # t =>
              Len(s) + 1 \in 1 .. Len(t) /\ IsPrefix(Append(s, t[Len(s) + 1]), t)
         /\ IsPrefix(Append(s, x), t) => IsPrefix(s, t) /\ s # t /\ t[Len(s) + 1] = x
         /\ IsPrefix(s, s)
<1> DEFINE a(y) == Append(s, y)
<1>1. Len(s) \in Nat /\ Len(t) \in Nat /\ DOMAIN s = 1 .. Len(s) /\ DOMAIN t = 1 .. Len(t)
  BY SeqRange
<1>2. ASSUME NEW y
      PROVE  /\ IsSeq(a(y)) /\ Len(a(y)) = Len(s) + 1
             /\ \A i \in 1 .. Len(s) : a(y)[i] = s[i]
             /\ a(y)[Len(s) + 1] = y
  <2>1. s \in Seq(Range(s) \cup {y})
    BY SeqRange DEF IsSeq
  <2> QED
    BY <2>1, Appended
<1> HIDE DEF a
<1>3. \A i \in 1 .. Len(s) + 1 : i = Len(s) + 1 \/ i \in 1 .. Len(s)
  BY <1>1
<1>4. ASSUME IsPrefix(s, t), s # t
      PROVE  Len(s) + 1 \in 1 .. Len(t) /\ IsPrefix(a(t[Len(s) + 1]), t)
  <2>1. Len(s) <= Len(t) /\ \A i \in 1 .. Len(s) : s[i] = t[i]
    BY <1>4, PrefixIs
  <2>2. Len(s) # Len(t)
    <3>1. s = [i \in 1 .. Len(s) |-> s[i]] /\ t = [i \in 1 .. Len(t) |-> t[i]]
      BY <1>1 DEF IsSeq
    <3> QED
      BY <1>4, <2>1, <3>1
  <2>3. Len(s) + 1 \in 1 .. Len(t)
    <3>1. \A m, n \in Nat : m <= n /\ m # n => m + 1 \in 1 .. n
      OBVIOUS
    <3> QED
      BY <1>1, <2>1, <2>2, <3>1
  <2>4. Len(s) + 1 <= Len(t)
    BY <1>1, <2>3
  <2> QED
    BY <1>2, <1>3, <2>1, <2>3, <2>4, PrefixIs
<1>5. ASSUME IsPrefix(a(x), t) PROVE IsPrefix(s, t) /\ s # t /\ t[Len(s) + 1] = x
  <2>1. Len(s) + 1 <= Len(t) /\ \A i \in 1 .. Len(s) + 1 : a(x)[i] = t[i]
    BY <1>2, <1>5, PrefixIs
  <2>2. Len(s) + 1 \in 1 .. Len(s) + 1 /\ Len(s) <= Len(t) /\ Len(s) # Len(t)
        /\ \A i \in 1 .. Len(s) : i \in 1 .. Len(s) + 1
    <3>1. \A m, n \in Nat : m + 1 <= n => /\ m + 1 \in 1 .. m + 1 /\ m <= n /\ m # n
                                         /\ \A i \in 1 .. m : i \in 1 .. m + 1
      OBVIOUS
    <3> QED
      BY <1>1, <2>1, <3>1
  <2> QED
    BY <1>2, <2>1, <2>2, PrefixIs
<1>6. IsPrefix(s, s)
  BY <1>1, PrefixIs
<1> QED
  BY <1>4, <1>5, <1>6 DEF a

-----------------------------------------------------------------------------
(* The walk over a name.                                                   *)

WalkStart == [full |-> <<>>, object |-> NoObject, inList |-> FALSE, item |-> FALSE,
              failed |-> FALSE]

\* The recursion of Walk, for the first m parts of a name.
Reads(f, name, m) ==
  f = [i \in 0 .. m |-> IF i = 0 THEN WalkStart ELSE Token(f[i - 1], name[i])]

\* Induction up to n, over a set.
LEMMA UpTo ==
  ASSUME NEW n \in Nat, NEW P, 0 \in P, \A i \in 1 .. n : i - 1 \in P => i \in P
  PROVE  \A i \in 0 .. n : i \in P
<1> DEFINE missing == (0 .. n) \ P
           less == {ss \in Nat \X Nat : ss[1] < ss[2]}
<1> SUFFICES ASSUME missing # {} PROVE FALSE
  OBVIOUS
<1>1. IsWellFoundedOn(less, Nat)
  BY NatLessThanWellFounded DEF OpToRel
<1>2. missing \subseteq Nat
  OBVIOUS
<1> HIDE DEF missing
<1>3. PICK i \in missing : \A y \in missing : ~(<<y, i>> \in less)
  BY <1>1, <1>2, WFMin
<1> USE DEF missing
<1>4. i \in 1 .. n /\ i - 1 \in 0 .. n /\ <<i - 1, i>> \in less
  BY <1>3
<1> QED
  BY <1>3, <1>4

\* The recursion of Walk has a solution for every name.
LEMMA ReadsExist ==
  ASSUME NEW name, NEW n \in Nat
  PROVE  \E f : Reads(f, name, n)
<1> DEFINE P == {m \in 0 .. n : \E f : Reads(f, name, m)}
<1>1. 0 \in P
  <2> DEFINE f == [i \in 0 .. 0 |-> WalkStart]
  <2>1. f = [i \in 0 .. 0 |-> IF i = 0 THEN WalkStart ELSE Token(f[i - 1], name[i])]
    <3>1. \A i \in 0 .. 0 : i = 0
      OBVIOUS
    <3> QED
      BY <3>1
  <2> HIDE DEF f
  <2> QED
    BY <2>1 DEF Reads
<1>2. ASSUME NEW m \in 1 .. n, m - 1 \in P PROVE m \in P
  <2>1. PICK f : Reads(f, name, m - 1)
    BY <1>2
  <2> DEFINE g == [i \in 0 .. m |-> IF i = m THEN Token(f[m - 1], name[m]) ELSE f[i]]
  <2>2. ASSUME NEW i \in 0 .. m
        PROVE  g[i] = IF i = 0 THEN WalkStart ELSE Token(g[i - 1], name[i])
    <3>1. i # 0 => i - 1 \in 0 .. m /\ i - 1 # m
      OBVIOUS
    <3>2. CASE i = m
      BY <3>1, <3>2
    <3>3. CASE i # m
      <4>1. i \in 0 .. m - 1 /\ g[i] = f[i] /\ (i # 0 => g[i - 1] = f[i - 1])
        BY <3>1, <3>3
      <4> QED
        BY <2>1, <4>1 DEF Reads
    <3> QED
      BY <3>2, <3>3
  <2>3. DOMAIN g = 0 .. m /\ g = [i \in 0 .. m |-> g[i]]
    OBVIOUS
  <2> HIDE DEF g
  <2>4. Reads(g, name, m)
    BY <2>2, <2>3 DEF Reads
  <2> QED
    BY <2>4
<1>3. \A m \in 0 .. n : m \in P
  <2> HIDE DEF P
  <2> QED
    BY <1>1, <1>2, UpTo
<1> QED
  BY <1>3

\* A step of the walk, and where it ends.
LEMMA WalkIs ==
  ASSUME NEW name, IsSeq(name)
  PROVE  \E f : Reads(f, name, Len(name)) /\ Walk(name) = f[Len(name)]
<1> DEFINE read[i \in 0 .. Len(name)] ==
             IF i = 0 THEN WalkStart ELSE Token(read[i - 1], name[i])
<1>1. \E f : Reads(f, name, Len(name))
  BY ReadsExist, SeqRange
<1>2. Reads(read, name, Len(name))
  BY <1>1 DEF Reads
<1>3. Walk(name) = read[Len(name)]
  BY DEF Walk, WalkStart
<1> HIDE DEF read
<1> QED
  BY <1>2, <1>3

\* What is so of the state of a walk.
WalkOK(s) ==
  /\ s = [full |-> s.full, object |-> s.object, inList |-> s.inList, item |-> s.item,
          failed |-> s.failed]
  /\ {s.inList, s.item, s.failed} \subseteq BOOLEAN
  /\ ~s.failed /\ s.object # NoObject =>
       /\ s.object \in DOMAIN Model /\ s.full = s.object
       /\ s.inList <=> Model[s.object].isList /\ ~s.item

\* A step of the walk keeps it.
LEMMA TokenOK ==
  ASSUME NEW s, WalkOK(s), NEW token
  PROVE  WalkOK(Token(s, token))
<1> DEFINE full == Append(s.full, token)
<1>1. /\ s = [full |-> s.full, object |-> s.object, inList |-> s.inList, item |-> s.item,
              failed |-> s.failed]
      /\ s.inList \in BOOLEAN /\ s.item \in BOOLEAN /\ s.failed \in BOOLEAN
  BY DEF WalkOK
<1>2. CASE s.failed
  <2>1. Token(s, token) = s
    BY <1>2 DEF Token
  <2> QED
    BY <2>1
<1>3. CASE ~s.failed /\ s.inList
  <2>1. Token(s, token) = [full |-> s.full, object |-> s.object, inList |-> FALSE, item |-> TRUE,
                           failed |-> s.failed]
    BY <1>1, <1>3 DEF Token
  <2> QED
    BY <1>1, <1>3, <2>1 DEF WalkOK
<1>4. CASE ~s.failed /\ ~s.inList /\ full \in DOMAIN Model
  <2>1. Token(s, token) = [full |-> full, object |-> full, inList |-> Model[full].isList,
                           item |-> FALSE, failed |-> s.failed]
    BY <1>1, <1>4 DEF Token
  <2>2. Model[full].isList \in BOOLEAN
    BY <1>4, DataModelAssumption
  <2> QED
    BY <1>1, <1>4, <2>1, <2>2 DEF WalkOK
<1>5. CASE ~s.failed /\ ~s.inList /\ full \notin DOMAIN Model
  <2>1. Token(s, token) = [full |-> full, object |-> s.object, inList |-> s.inList,
                           item |-> FALSE, failed |-> s.object # NoObject]
    BY <1>1, <1>5 DEF Token
  <2>2. PICK b \in BOOLEAN : b = (s.object # NoObject)
    OBVIOUS
  <2> DEFINE u == [full |-> full, object |-> s.object, inList |-> s.inList,
                   item |-> FALSE, failed |-> b]
  <2>3. /\ u.full = full /\ u.object = s.object /\ u.inList = s.inList /\ u.item = FALSE
        /\ u.failed = b /\ Token(s, token) = u
        /\ u = [full |-> u.full, object |-> u.object, inList |-> u.inList, item |-> u.item,
                failed |-> u.failed]
    BY <2>1, <2>2
  <2> HIDE DEF u
  <2>4. WalkOK(u)
    BY <1>1, <2>2, <2>3 DEF WalkOK
  <2> QED
    BY <2>3, <2>4
<1> QED
  BY <1>1, <1>2, <1>3, <1>4, <1>5

\* So every walk over the parts of a name is in such a state.
LEMMA ReadsOK ==
  ASSUME NEW name, NEW n \in Nat, NEW f, Reads(f, name, n)
  PROVE  \A i \in 0 .. n : WalkOK(f[i])
<1> DEFINE P == {i \in 0 .. n : WalkOK(f[i])}
<1>0. f[0] = WalkStart /\ \A i \in 1 .. n : f[i] = Token(f[i - 1], name[i])
  <2>1. \A i \in 0 .. n : f[i] = IF i = 0 THEN WalkStart ELSE Token(f[i - 1], name[i])
    BY DEF Reads
  <2>2. 0 \in 0 .. n /\ \A i \in 1 .. n : i \in 0 .. n /\ i # 0
    OBVIOUS
  <2> QED
    BY <2>1, <2>2
<1>1. 0 \in P
  <2>1. WalkOK(WalkStart)
    BY DEF WalkOK, WalkStart
  <2> QED
    BY <1>0, <2>1
<1>2. ASSUME NEW i \in 1 .. n, i - 1 \in P PROVE i \in P
  BY <1>0, <1>2, TokenOK
<1> HIDE DEF P
<1>3. \A i \in 0 .. n : i \in P
  BY <1>1, <1>2, UpTo
<1> QED
  BY <1>3 DEF P

\* The walks over a name and over one it is a prefix of.
LEMMA WalkOfPrefix ==
  ASSUME NEW s, NEW t, IsSeq(s), IsSeq(t), IsPrefix(s, t)
  PROVE  \E f : /\ Walk(s) = f[Len(s)] /\ Walk(t) = f[Len(t)]
                /\ \A i \in 1 .. Len(t) : f[i] = Token(f[i - 1], t[i])
                /\ \A i \in 0 .. Len(t) : WalkOK(f[i])
<1>1. PICK m \in Nat, n \in Nat : m = Len(s) /\ n = Len(t)
  BY SeqRange
<1>2. PICK f : Reads(f, s, m) /\ Walk(s) = f[m]
  BY <1>1, WalkIs
<1>3. PICK g : Reads(g, t, n) /\ Walk(t) = g[n]
  BY <1>1, WalkIs
<1>4. m <= n /\ \A i \in 1 .. m : s[i] = t[i]
  BY <1>1, PrefixIs
<1>5. /\ f[0] = WalkStart /\ \A i \in 1 .. m : f[i] = Token(f[i - 1], s[i])
      /\ g[0] = WalkStart /\ \A i \in 1 .. n : g[i] = Token(g[i - 1], t[i])
  <2>1. \A k \in Nat : \A h, name : Reads(h, name, k) =>
          \A i \in 0 .. k : h[i] = IF i = 0 THEN WalkStart ELSE Token(h[i - 1], name[i])
    BY DEF Reads
  <2>2. \A k \in Nat : 0 \in 0 .. k /\ \A i \in 1 .. k : i \in 0 .. k /\ i # 0
    OBVIOUS
  <2> QED
    BY <1>2, <1>3, <2>1, <2>2
<1> DEFINE P == {i \in 0 .. m : f[i] = g[i]}
<1>6. 0 \in P
  BY <1>5
<1>7. ASSUME NEW i \in 1 .. m, i - 1 \in P PROVE i \in P
  <2>1. i \in 1 .. n /\ i \in 0 .. m
    BY <1>4
  <2> QED
    BY <1>4, <1>5, <1>7, <2>1
<1> HIDE DEF P
<1>8. m \in P
  <2>1. \A i \in 0 .. m : i \in P
    BY <1>6, <1>7, UpTo
  <2> QED
    BY <2>1
<1>9. f[m] = g[m]
  BY <1>8 DEF P
<1>10. \A i \in 0 .. n : WalkOK(g[i])
  BY <1>3, ReadsOK
<1> QED
  BY <1>1, <1>2, <1>3, <1>5, <1>9, <1>10

-----------------------------------------------------------------------------
(* The object of a name.                                                   *)

\* Names, instances and objects are sequences.
LEMMA NamesAre ==
  /\ \A n \in Names : IsSeq(n)
  /\ \A o \in DOMAIN Model : IsSeq(o) /\ o # NoObject
  /\ DOMAIN FirstValues \subseteq Names
BY DataModelAssumption, ProviderAssumption DEF IsSeq

\* What a name says of an object, by the walk over it.
Stands(s, n) ==
  /\ ObjectOf(n) = IF s.failed THEN NoObject ELSE s.object
  /\ IsWholeList(n) <=> ObjectOf(n) # NoObject /\ Model[ObjectOf(n)].isList /\ ~s.item

\* That is what ObjectOf and IsWholeList say of it.
LEMMA StandsAtEnd ==
  ASSUME NEW n \in Names
  PROVE  Stands(Walk(n), n)
BY DEF Stands, ObjectOf, IsWholeList, Found

\* One token more, below a name that has an object.
LEMMA TokenBelow ==
  ASSUME NEW n \in Names, ObjectOf(n) # NoObject, NEW s, WalkOK(s), Stands(s, n), NEW token
  PROVE  /\ ObjectOf(n) \in DOMAIN Model /\ ~s.failed
         /\ IsWholeList(n) => /\ Token(s, token).object = ObjectOf(n)
                              /\ Token(s, token).item /\ ~Token(s, token).failed
         /\ ~IsWholeList(n) =>
              IF Append(ObjectOf(n), token) \in DOMAIN Model
              THEN /\ Token(s, token).object = Append(ObjectOf(n), token)
                   /\ ~Token(s, token).failed
              ELSE Token(s, token).failed
<1> DEFINE full == Append(s.full, token)
<1>1. /\ ~s.failed /\ s.object = ObjectOf(n) /\ s.object \in DOMAIN Model /\ s.full = s.object
      /\ s.inList <=> IsWholeList(n)
      /\ s.object # NoObject
  BY DEF Stands, WalkOK
<1>2. /\ s = [full |-> s.full, object |-> s.object, inList |-> s.inList, item |-> s.item,
              failed |-> s.failed]
  BY DEF WalkOK
<1>3. CASE s.inList
  <2>1. Token(s, token) = [full |-> s.full, object |-> s.object, inList |-> FALSE, item |-> TRUE,
                           failed |-> s.failed]
    BY <1>1, <1>2, <1>3 DEF Token
  <2> QED
    BY <1>1, <1>3, <2>1
<1>4. CASE ~s.inList /\ full \in DOMAIN Model
  <2>1. Token(s, token) = [full |-> full, object |-> full, inList |-> Model[full].isList,
                           item |-> FALSE, failed |-> s.failed]
    BY <1>1, <1>2, <1>4 DEF Token
  <2> QED
    BY <1>1, <1>4, <2>1
<1>5. CASE ~s.inList /\ full \notin DOMAIN Model
  <2>1. Token(s, token) = [full |-> full, object |-> s.object, inList |-> s.inList,
                           item |-> FALSE, failed |-> s.object # NoObject]
    BY <1>1, <1>2, <1>5 DEF Token
  <2>2. Token(s, token).failed = (s.object # NoObject)
    BY <2>1
  <2> QED
    BY <1>1, <1>5, <2>2
<1> QED
  BY <1>3, <1>4, <1>5

\* The item of a list is an instance of its object; what follows another name is that of
\* a child of its object.
LEMMA ObjectBelow ==
  ASSUME NEW n \in Names, ObjectOf(n) # NoObject, NEW t, Append(n, t) \in Names
  PROVE  /\ IsWholeList(n) =>
              ObjectOf(Append(n, t)) = ObjectOf(n) /\ ~IsWholeList(Append(n, t))
         /\ ~IsWholeList(n) /\ Append(ObjectOf(n), t) \in DOMAIN Model =>
              ObjectOf(Append(n, t)) = Append(ObjectOf(n), t)
<1> DEFINE x == Append(n, t)
<1>1. IsSeq(n) /\ IsSeq(x) /\ Len(n) \in Nat
  BY NamesAre, SeqRange
<1>2. Len(x) = Len(n) + 1 /\ x[Len(n) + 1] = t /\ IsPrefix(n, x)
  <2>1. Len(x) = Len(n) + 1 /\ x[Len(n) + 1] = t
    BY <1>1 DEF IsSeq
  <2>2. IsPrefix(x, x)
    BY <1>1, PrefixGrows
  <2> QED
    BY <1>1, <2>1, <2>2, PrefixGrows
<1> HIDE DEF x
<1>3. PICK f : /\ Walk(n) = f[Len(n)] /\ Walk(x) = f[Len(x)]
               /\ \A i \in 1 .. Len(x) : f[i] = Token(f[i - 1], x[i])
               /\ \A i \in 0 .. Len(x) : WalkOK(f[i])
  BY <1>1, <1>2, WalkOfPrefix
<1>4. Len(n) + 1 \in 1 .. Len(x) /\ (Len(n) + 1) - 1 = Len(n) /\ Len(n) \in 0 .. Len(x)
  BY <1>1, <1>2
<1>5. Walk(x) = Token(Walk(n), t) /\ WalkOK(Walk(n))
  BY <1>2, <1>3, <1>4
<1>6. Stands(Walk(n), n) /\ Stands(Walk(x), x)
  BY StandsAtEnd DEF x
<1>7. /\ IsWholeList(n) => ObjectOf(x) = ObjectOf(n) /\ ~IsWholeList(x)
      /\ ~IsWholeList(n) /\ Append(ObjectOf(n), t) \in DOMAIN Model =>
           ObjectOf(x) = Append(ObjectOf(n), t)
  BY <1>5, <1>6, TokenBelow DEF Stands
<1> QED
  BY <1>7 DEF x

\* What is below a name that is no list's is below a child of its object.
LEMMA ChildOnTheWay ==
  ASSUME NEW n \in Names, ObjectOf(n) # NoObject, ~IsWholeList(n),
         NEW m \in Names, ObjectOf(m) # NoObject, IsPrefix(n, m), n # m
  PROVE  Append(ObjectOf(n), m[Len(n) + 1]) \in DOMAIN Model
<1>1. IsSeq(n) /\ IsSeq(m)
  BY NamesAre
<1>2. PICK k \in Nat, l \in Nat : k = Len(n) /\ l = Len(m)
  BY <1>1, SeqRange
<1>3. PICK f : /\ Walk(n) = f[k] /\ Walk(m) = f[l]
               /\ \A i \in 1 .. l : f[i] = Token(f[i - 1], m[i])
               /\ \A i \in 0 .. l : WalkOK(f[i])
  BY <1>1, <1>2, WalkOfPrefix
<1>4. k + 1 \in 1 .. l /\ k \in 0 .. l
  BY <1>1, <1>2, PrefixGrows
<1>5. Stands(f[k], n) /\ Stands(f[l], m) /\ f[k + 1] = Token(f[k], m[k + 1])
  BY <1>3, <1>4, StandsAtEnd
<1>6. SUFFICES ASSUME f[k + 1].failed PROVE FALSE
  BY <1>2, <1>3, <1>4, <1>5, TokenBelow
<1> DEFINE P == {i \in 0 .. l - k - 1 : f[k + 1 + i].failed}
<1>7. 0 \in P
  BY <1>4, <1>6
<1>8. ASSUME NEW i \in 1 .. l - k - 1, i - 1 \in P PROVE i \in P
  <2>1. k + 1 + i \in 1 .. l /\ (k + 1 + i) - 1 = k + 1 + (i - 1)
    BY <1>4
  <2>2. f[k + 1 + i] = Token(f[k + 1 + (i - 1)], m[k + 1 + i])
    BY <1>3, <2>1
  <2>3. f[k + 1 + i] = f[k + 1 + (i - 1)]
    BY <1>8, <2>2 DEF Token
  <2> QED
    BY <1>8, <2>3
<1>9. l - k - 1 \in Nat /\ k + 1 + (l - k - 1) = l
  BY <1>4
<1> HIDE DEF P
<1>10. l - k - 1 \in P
  <2>1. \A i \in 0 .. l - k - 1 : i \in P
    BY <1>7, <1>8, <1>9, UpTo
  <2> QED
    BY <1>9, <2>1
<1>11. f[l].failed
  BY <1>9, <1>10 DEF P
<1> QED
  BY <1>5, <1>11 DEF Stands

\* The children of an object are enumerated.
LEMMA ChildrenAre ==
  ASSUME NEW o \in DOMAIN Model
  PROVE  /\ IsSeq(Children(o))
         /\ Range(Children(o)) =
              {p \in DOMAIN Model : Len(p) = Len(o) + 1 /\ IsPrefix(o, p)}
<1> DEFINE S == {p \in DOMAIN Model : Len(p) = Len(o) + 1 /\ IsPrefix(o, p)}
           n == Cardinality(S)
<1>1. IsFiniteSet(S)
  BY DataModelAssumption, FS_Subset
<1>2. n \in Nat /\ ExistsBijection(1 .. n, S)
  BY <1>1, FS_CardinalityType
<1>3. \E f \in [1 .. n -> S] : IsInjective(f)
  BY <1>2 DEF ExistsBijection, Bijection, Injection
<1>4. Children(o) \in [1 .. n -> S] /\ IsInjective(Children(o))
  BY <1>3 DEF Children, SetToSeq
<1>5. Cardinality(1 .. n) = n /\ IsFiniteSet(1 .. n)
  BY <1>2, FS_Interval
<1>6. Children(o) \in Injection(1 .. n, S)
  BY <1>4 DEF Injection
<1>7. Children(o) \in Surjection(1 .. n, S)
  BY <1>1, <1>5, <1>6, FS_Injection
<1> HIDE DEF S, n
<1>8. Range(Children(o)) = S
  BY <1>4, <1>7 DEF Surjection, Range
<1>9. Children(o) \in Seq(S)
  BY <1>2, <1>4
<1> QED
  BY <1>8, <1>9, SeqIs DEF S

-----------------------------------------------------------------------------
(* What a call of runGet has still to show.                                *)

Instances == DOMAIN FirstValues

\* The instances below a name, that of the name among them or not.
From(n) == {m \in Instances : IsPrefix(n, m)}
Below(n) == {m \in Instances : IsPrefix(n, m) /\ m # n}

\* Those that a query for a name is to show, with what it recurses into.
Under(k, n) == {m \in Instances : m = n \/ (k.recursive /\ m \in Below(n))}

\* The same for a list, and for its items from the first-th on.
UnderList(k, n) == {m \in Below(n) : k.recursive \/ Len(m) = Len(n) + 1}
UnderItems(k, f, first) == UNION {Under(k, Append(f.name, f.ids[x])) : x \in first .. f.num}

\* The name of a child, and what is below those that a frame has not read.
ChildName(n, x) == Append(n, Last1(Children(ObjectOf(n))[x]))
UnderChildren(f) ==
  UNION {From(ChildName(At(f), x)) : x \in f.j .. Len(Children(ObjectOf(At(f))))}

\* What is left when a frame is done with an item and its children.
Beyond(k, f) == IF f.list THEN UnderItems(k, f, f.i + 1) ELSE {}

LeftBelow(k, f) ==
  CASE f.step \in {"count", "ids"} -> UnderList(k, f.name)
    [] f.step = "item" /\ f.list -> UnderItems(k, f, f.i)
    [] f.step = "item" /\ ~f.list /\ f.property = All -> Under(k, f.name)
    [] f.step = "item" /\ ~f.list /\ f.property # All ->
         IF k.recursive THEN Below(f.name) ELSE {}
    [] OTHER -> UnderChildren(f) \cup Beyond(k, f)

LeftHere(f) ==
  IF f.step = "item" /\ f.property # All
  THEN {[name |-> f.name, property |-> f.property]} ELSE {}

Left(k, f) == LeftHere(f) \cup Shows(LeftBelow(k, f))

\* What the parent of a list says of it.
NumIn(n) == FirstValues[Front(n)][CountOf[Last1(n)]]
IdsIn(n) == FirstValues[Front(n)][IdsOf[Last1(n)]]

\* A frame of a read whose lists were described.
FrameOK(k, f) ==
  /\ IsFrame(f) /\ f.ok = TRUE
  /\ f.name \in Names /\ ObjectOf(f.name) # NoObject
  /\ f.list <=> f.property = All /\ IsWholeList(f.name)
  /\ f.i \in Nat /\ f.i >= 1 /\ f.j \in Nat /\ f.j >= 1
  /\ f.step \in {"item", "children"} \cup (IF f.list THEN {"count", "ids"} ELSE {})
  /\ f.list /\ f.step # "count" => Front(f.name) \in Instances /\ f.num = NumIn(f.name)
  /\ f.list /\ f.step \in {"item", "children"} => f.ids = IdsIn(f.name) /\ f.i <= f.num
  /\ f.step \in {"count", "ids"} => f.i = 1
  /\ f.property # All /\ k.recursive => ~IsWholeList(f.name)
  /\ f.step = "children" => k.recursive

\* What a union of instances shows.
LEMMA ShowsBoth ==
  ASSUME NEW S, NEW T
  PROVE  Shows(S \cup T) = Shows(S) \cup Shows(T) /\ Shows({}) = {}
BY DEF Shows

\* A list and its items.
LEMMA ListIs ==
  ASSUME DataAgrees, NEW n \in Names, IsWholeList(n)
  PROVE  /\ ObjectOf(n) # NoObject /\ ObjectOf(Front(n)) # NoObject
         /\ CountOf[Last1(n)] # All /\ IdsOf[Last1(n)] # All
         /\ Front(n) \in Instances =>
              /\ {CountOf[Last1(n)], IdsOf[Last1(n)]} \subseteq
                   (DOMAIN FirstValues[Front(n)] \ Settable[ObjectOf(Front(n))])
                   \cap {p.name : p \in Range(Properties(Front(n)))}
              /\ IsSeq(IdsIn(n)) /\ NumIn(n) = Len(IdsIn(n)) /\ NumIn(n) \in Nat /\ NumIn(n) >= 1
              /\ IdsIn(n) # <<>>
              /\ \A x \in 1 .. NumIn(n) :
                   LET item == Append(n, IdsIn(n)[x])
                   IN  item \in Names /\ ObjectOf(item) # NoObject /\ ~IsWholeList(item)
              /\ \A m \in Instances :
                   IsPrefix(n, m) => \E x \in 1 .. NumIn(n) : IsPrefix(Append(n, IdsIn(n)[x]), m)
<1>1. ObjectOf(n) # NoObject /\ ListAgrees(n)
  BY DEF DataAgrees, IsWholeList
<1>2. ObjectOf(Front(n)) # NoObject /\ CountOf[Last1(n)] # All /\ IdsOf[Last1(n)] # All
  BY <1>1 DEF ListAgrees
<1>3. SUFFICES ASSUME Front(n) \in Instances
               PROVE  /\ {CountOf[Last1(n)], IdsOf[Last1(n)]} \subseteq
                           (DOMAIN FirstValues[Front(n)] \ Settable[ObjectOf(Front(n))])
                           \cap {p.name : p \in Range(Properties(Front(n)))}
                      /\ IsSeq(IdsIn(n)) /\ NumIn(n) = Len(IdsIn(n)) /\ NumIn(n) \in Nat
                      /\ NumIn(n) >= 1 /\ IdsIn(n) # <<>>
                      /\ \A x \in 1 .. NumIn(n) :
                           LET item == Append(n, IdsIn(n)[x])
                           IN  item \in Names /\ ObjectOf(item) # NoObject /\ ~IsWholeList(item)
                      /\ \A m \in Instances :
                           IsPrefix(n, m) =>
                             \E x \in 1 .. NumIn(n) : IsPrefix(Append(n, IdsIn(n)[x]), m)
  BY <1>1, <1>2
<1>4. /\ {CountOf[Last1(n)], IdsOf[Last1(n)]} \subseteq
           (DOMAIN FirstValues[Front(n)] \ Settable[ObjectOf(Front(n))])
           \cap {p.name : p \in Range(Properties(Front(n)))}
      /\ IsSeq(IdsIn(n)) /\ NumIn(n) = Len(IdsIn(n)) /\ IdsIn(n) # <<>>
      /\ \A id \in Range(IdsIn(n)) : Append(n, id) \in Names
      /\ \A m \in Instances :
           IsPrefix(n, m) => \E id \in Range(IdsIn(n)) : IsPrefix(Append(n, id), m)
  BY <1>1, <1>3 DEF ListAgrees, Instances, NumIn, IdsIn, IsSeq
<1>5. /\ NumIn(n) \in Nat /\ NumIn(n) >= 1
      /\ \A x \in 1 .. NumIn(n) : IdsIn(n)[x] \in Range(IdsIn(n))
      /\ \A id \in Range(IdsIn(n)) : \E x \in 1 .. NumIn(n) : id = IdsIn(n)[x]
  BY <1>4, SeqRange
<1>6. ASSUME NEW x \in 1 .. NumIn(n)
      PROVE  LET item == Append(n, IdsIn(n)[x])
             IN  item \in Names /\ ObjectOf(item) # NoObject /\ ~IsWholeList(item)
  <2>1. Append(n, IdsIn(n)[x]) \in Names
    BY <1>4, <1>5
  <2> QED
    BY <1>1, <2>1, ObjectBelow
<1>7. ASSUME NEW m \in Instances, IsPrefix(n, m)
      PROVE  \E x \in 1 .. NumIn(n) : IsPrefix(Append(n, IdsIn(n)[x]), m)
  BY <1>4, <1>5, <1>7
<1> QED
  BY <1>4, <1>5, <1>6, <1>7

\* The items of a list are what is below it.
LEMMA ItemsAre ==
  ASSUME DataAgrees, NEW n \in Names, IsWholeList(n), Front(n) \in Instances, NEW k
  PROVE  UnderList(k, n) = UNION {Under(k, Append(n, IdsIn(n)[x])) : x \in 1 .. NumIn(n)}
<1> DEFINE item(x) == Append(n, IdsIn(n)[x])
<1>1. /\ IsSeq(n) /\ Len(n) \in Nat /\ \A m \in Instances : IsSeq(m) /\ Len(m) \in Nat
  BY NamesAre, SeqRange DEF Instances
<1>2. \A x \in 1 .. NumIn(n) : IsSeq(item(x)) /\ Len(item(x)) = Len(n) + 1
  <2> TAKE x \in 1 .. NumIn(n)
  <2>1. item(x) \in Names
    BY ListIs
  <2>2. IsSeq(item(x))
    BY <2>1, NamesAre
  <2>3. Len(item(x)) = Len(n) + 1
    BY <1>1 DEF IsSeq
  <2> QED
    BY <2>2, <2>3
<1>3. ASSUME NEW m \in UnderList(k, n)
      PROVE  \E x \in 1 .. NumIn(n) : m \in Under(k, item(x))
  <2>1. m \in Instances /\ IsPrefix(n, m) /\ (k.recursive \/ Len(m) = Len(n) + 1)
    BY <1>3 DEF UnderList, Below
  <2>2. PICK x \in 1 .. NumIn(n) : IsPrefix(item(x), m)
    BY <2>1, ListIs
  <2>3. CASE m = item(x)
    BY <2>1, <2>3 DEF Under
  <2>4. CASE m # item(x)
    <3>1. Len(item(x)) + 1 \in 1 .. Len(m)
      BY <1>1, <1>2, <2>1, <2>2, <2>4, PrefixGrows
    <3>2. Len(m) # Len(n) + 1
      BY <1>1, <1>2, <2>1, <3>1
    <3> QED
      BY <2>1, <2>2, <2>4, <3>2 DEF Under, Below
  <2> QED
    BY <2>3, <2>4
<1>4. ASSUME NEW x \in 1 .. NumIn(n), NEW m \in Under(k, item(x))
      PROVE  m \in UnderList(k, n)
  <2>1. m \in Instances /\ (m = item(x) \/ (k.recursive /\ IsPrefix(item(x), m)))
    BY <1>4 DEF Under, Below
  <2>2. IsPrefix(item(x), m)
    BY <1>2, <2>1, PrefixGrows
  <2>3. IsPrefix(n, m) /\ n # m
    BY <1>1, <2>1, <2>2, PrefixGrows
  <2> QED
    BY <1>2, <2>1, <2>3 DEF UnderList, Below
<1> QED
  BY <1>3, <1>4

\* The children of an instance are on the way to all that is below it.
LEMMA ChildNames ==
  ASSUME DataAgrees, NEW n \in Names, ObjectOf(n) # NoObject, ~IsWholeList(n)
  PROVE  /\ Len(Children(ObjectOf(n))) \in Nat
         /\ \A x \in 1 .. Len(Children(ObjectOf(n))) :
              ChildName(n, x) \in Names /\ ObjectOf(ChildName(n, x)) # NoObject
         /\ Below(n) = UNION {From(ChildName(n, x)) : x \in 1 .. Len(Children(ObjectOf(n)))}
<1> DEFINE o == ObjectOf(n)
           below == Children(o)
<1>1. o \in DOMAIN Model
  <2>1. WalkOK(Walk(n)) /\ Stands(Walk(n), n)
    <3>1. IsSeq(n) /\ IsPrefix(n, n)
      BY NamesAre, PrefixGrows
    <3>2. PICK k \in Nat : k = Len(n)
      BY <3>1, SeqRange
    <3>3. k \in 0 .. k
      OBVIOUS
    <3> QED
      BY <3>1, <3>2, <3>3, WalkOfPrefix, StandsAtEnd
  <2> QED
    BY <2>1, TokenBelow
<1>2. IsSeq(below) /\ Range(below) = {p \in DOMAIN Model : Len(p) = Len(o) + 1 /\ IsPrefix(o, p)}
  BY <1>1, ChildrenAre
<1>3. /\ Len(below) \in Nat /\ \A x \in 1 .. Len(below) : below[x] \in Range(below)
      /\ \A p \in Range(below) : \E x \in 1 .. Len(below) : p = below[x]
  BY <1>2, SeqRange
<1>4. IsSeq(o) /\ Len(o) \in Nat /\ IsSeq(n) /\ Len(n) \in Nat
  BY <1>1, NamesAre, SeqRange
<1>5. ASSUME NEW p \in Range(below) PROVE p \in DOMAIN Model /\ p = Append(o, Last1(p))
  <2>1. p \in DOMAIN Model /\ Len(p) = Len(o) + 1 /\ IsPrefix(o, p) /\ IsSeq(p)
    BY <1>2, NamesAre
  <2>2. o # p
    BY <1>4, <2>1
  <2>3. IsPrefix(Append(o, Last1(p)), p)
    BY <1>4, <2>1, <2>2, PrefixGrows DEF Last1
  <2>4. IsSeq(Append(o, Last1(p))) /\ Len(Append(o, Last1(p))) = Len(o) + 1
    BY <1>4, Appended DEF IsSeq
  <2> DEFINE q == Append(o, Last1(p))
  <2> HIDE DEF q
  <2>5. q = p
    <3>1. SUFFICES ASSUME q # p PROVE FALSE
      OBVIOUS
    <3>2. Len(q) + 1 \in 1 .. Len(p)
      BY <2>1, <2>3, <2>4, <3>1, PrefixGrows DEF q
    <3> QED
      BY <1>4, <2>1, <2>4, <3>2 DEF q
  <2> QED
    BY <2>1, <2>5 DEF q
<1>6. ASSUME NEW x \in 1 .. Len(below)
      PROVE  ChildName(n, x) \in Names /\ ObjectOf(ChildName(n, x)) # NoObject
  <2>1. below[x] \in Range(below) /\ below[x] \in DOMAIN Model
        /\ below[x] = Append(o, Last1(below[x]))
    BY <1>3, <1>5
  <2>2. Append(n, Last1(below[x])) \in Names
    BY <2>1 DEF DataAgrees
  <2>3. ObjectOf(Append(n, Last1(below[x]))) = below[x]
    BY <2>1, <2>2, ObjectBelow
  <2> QED
    BY <2>1, <2>2, <2>3, NamesAre DEF ChildName
<1>7. ASSUME NEW m \in Below(n)
      PROVE  \E x \in 1 .. Len(below) : m \in From(ChildName(n, x))
  <2>1. m \in Instances /\ m \in Names /\ IsPrefix(n, m) /\ n # m /\ IsSeq(m)
    BY <1>7, NamesAre DEF Below, Instances
  <2>2. ObjectOf(m) # NoObject
    BY <2>1 DEF DataAgrees, Instances
  <2> DEFINE t == m[Len(n) + 1]
             p == Append(o, t)
  <2>3. p \in DOMAIN Model
    BY <2>1, <2>2, ChildOnTheWay
  <2>4. Len(p) = Len(o) + 1 /\ Last1(p) = t /\ IsPrefix(o, p)
    <3>1. Len(p) = Len(o) + 1 /\ p[Len(o) + 1] = t
      BY <1>4 DEF IsSeq
    <3>2. IsSeq(p) /\ IsPrefix(p, p)
      BY <2>3, NamesAre, PrefixGrows
    <3> QED
      BY <1>4, <3>1, <3>2, PrefixGrows DEF Last1
  <2> HIDE DEF p
  <2>5. PICK x \in 1 .. Len(below) : p = below[x]
    BY <1>2, <1>3, <2>3, <2>4
  <2>6. ChildName(n, x) = Append(n, t)
    BY <2>4, <2>5 DEF ChildName
  <2>7. IsPrefix(Append(n, t), m)
    BY <1>4, <2>1, PrefixGrows
  <2> QED
    BY <2>1, <2>6, <2>7 DEF From
<1>8. ASSUME NEW x \in 1 .. Len(below), NEW m \in From(ChildName(n, x))
      PROVE  m \in Below(n)
  <2>1. m \in Instances /\ IsSeq(m) /\ IsPrefix(Append(n, Last1(below[x])), m)
    BY <1>8, NamesAre DEF From, ChildName, Instances
  <2> QED
    BY <1>4, <2>1, PrefixGrows DEF Below
<1> HIDE DEF o, below
<1>9. Below(n) = UNION {From(ChildName(n, x)) : x \in 1 .. Len(below)}
  BY <1>7, <1>8
<1> QED
  BY <1>3, <1>6, <1>9 DEF o, below

-----------------------------------------------------------------------------
(* The steps of a frame.                                                   *)

\* The first frame of a call, and that of a child.
LEMMA FrameStarts ==
  ASSUME NEW k, NEW n \in Names, ObjectOf(n) # NoObject, NEW property,
         property # All /\ k.recursive => ~IsWholeList(n)
  PROVE  FrameOK(k, Frame(n, property))
<1> DEFINE list == property = All /\ IsWholeList(n)
<1>1. PICK b \in BOOLEAN : b <=> list
  OBVIOUS
<1> DEFINE f == Frame(n, property)
<1>2. /\ IsFrame(f) /\ f.ok = TRUE /\ f.name = n /\ f.property = property /\ (f.list <=> list)
      /\ f.i = 1 /\ f.j = 1 /\ f.step = IF list THEN "count" ELSE "item"
  BY DEF Frame, IsFrame
<1> HIDE DEF f
<1>3. f.step \in {"item", "children"} \cup (IF f.list THEN {"count", "ids"} ELSE {})
  BY <1>2
<1>4. /\ f.list /\ f.step # "count" => FALSE
      /\ f.list /\ f.step \in {"item", "children"} => FALSE
      /\ f.step = "children" => FALSE
  BY <1>2
<1>5. FrameOK(k, f)
  BY <1>2, <1>3, <1>4 DEF FrameOK
<1> QED
  BY <1>5 DEF f

\* What a call covers is what its first frame has to show.
LEMMA CoveredAtFirst ==
  ASSUME NEW k
  PROVE  Left(k, Frame(k.name, k.property)) = Covered(k)
<1> DEFINE f == Frame(k.name, k.property)
           n == k.name
           list == k.property = All /\ IsWholeList(n)
           below == {m \in DOMAIN FirstValues : IsPrefix(n, m) /\ m # n}
           items == {m \in below : Len(m) = Len(n) + 1}
           own == IF k.property # All THEN {[name |-> n, property |-> k.property]}
                  ELSE IF IsWholeList(n) THEN Shows(items)
                  ELSE Shows({n} \cap DOMAIN FirstValues)
           rest == IF k.recursive THEN Shows(below) ELSE {}
<1>1. Covered(k) = own \cup rest
  BY DEF Covered
<1>2. /\ f.name = n /\ f.property = k.property /\ (f.list <=> list)
      /\ f.step = IF list THEN "count" ELSE "item"
  BY DEF Frame
<1> SUFFICES Left(k, f) = Covered(k)
  OBVIOUS
<1> HIDE DEF f
<1>3. below = Below(n)
  BY DEF Below, Instances
<1>4. CASE list
  <2>1. LeftHere(f) = {} /\ LeftBelow(k, f) = UnderList(k, n)
    BY <1>2, <1>4 DEF LeftHere, LeftBelow
  <2>2. UnderList(k, n) = items \cup (IF k.recursive THEN below ELSE {})
    BY <1>3 DEF UnderList
  <2>3. Shows(UnderList(k, n)) = Shows(items) \cup rest
    BY <2>2, ShowsBoth
  <2> QED
    BY <1>1, <1>4, <2>1, <2>3 DEF Left
<1>5. CASE k.property = All /\ ~IsWholeList(n)
  <2>1. LeftHere(f) = {} /\ LeftBelow(k, f) = Under(k, n)
    BY <1>2, <1>5 DEF LeftHere, LeftBelow
  <2>2. Under(k, n) = ({n} \cap DOMAIN FirstValues) \cup (IF k.recursive THEN below ELSE {})
    BY <1>3 DEF Under, Below, Instances
  <2>3. Shows(Under(k, n)) = Shows({n} \cap DOMAIN FirstValues) \cup rest
    BY <2>2, ShowsBoth
  <2> QED
    BY <1>1, <1>5, <2>1, <2>3 DEF Left
<1>6. CASE k.property # All
  <2>1. /\ LeftHere(f) = {[name |-> n, property |-> k.property]}
        /\ LeftBelow(k, f) = IF k.recursive THEN Below(n) ELSE {}
    BY <1>2, <1>6 DEF LeftHere, LeftBelow
  <2>2. Shows(LeftBelow(k, f)) = rest
    BY <1>3, <2>1, ShowsBoth
  <2> QED
    BY <1>1, <1>6, <2>1, <2>2 DEF Left
<1> QED
  BY <1>4, <1>5, <1>6

\* The fields of a frame that goes on.
LEMMA FrameWith ==
  ASSUME NEW f, IsFrame(f)
  PROVE  /\ LET g == [f EXCEPT !.i = @ + 1, !.j = 1, !.step = "item"]
            IN  /\ IsFrame(g) /\ g.name = f.name /\ g.property = f.property /\ g.list = f.list
                /\ g.step = "item" /\ g.num = f.num /\ g.ids = f.ids /\ g.i = f.i + 1 /\ g.j = 1
                /\ g.ok = f.ok
         /\ LET g == [f EXCEPT !.step = "children", !.j = 1]
            IN  /\ IsFrame(g) /\ g.name = f.name /\ g.property = f.property /\ g.list = f.list
                /\ g.step = "children" /\ g.num = f.num /\ g.ids = f.ids /\ g.i = f.i /\ g.j = 1
                /\ g.ok = f.ok
         /\ LET g == [f EXCEPT !.j = @ + 1]
            IN  /\ IsFrame(g) /\ g.name = f.name /\ g.property = f.property /\ g.list = f.list
                /\ g.step = f.step /\ g.num = f.num /\ g.ids = f.ids /\ g.i = f.i
                /\ g.j = f.j + 1 /\ g.ok = f.ok
<1> DEFINE Fields == {"name", "property", "list", "step", "num", "ids", "i", "j", "ok"}
<1>1. f = [z \in Fields |-> f[z]] /\ f.ok \in BOOLEAN
  BY DEF IsFrame
<1>2. LET g == [f EXCEPT !.i = @ + 1, !.j = 1, !.step = "item"]
      IN  /\ IsFrame(g) /\ g.name = f.name /\ g.property = f.property /\ g.list = f.list
          /\ g.step = "item" /\ g.num = f.num /\ g.ids = f.ids /\ g.i = f.i + 1 /\ g.j = 1
          /\ g.ok = f.ok
  <2> DEFINE g == [f EXCEPT !.i = @ + 1, !.j = 1, !.step = "item"]
  <2>1. g = [z \in Fields |-> IF z = "step" THEN "item" ELSE IF z = "j" THEN 1
                              ELSE IF z = "i" THEN f.i + 1 ELSE f[z]]
    BY <1>1
  <2> QED
    BY <1>1, <2>1 DEF IsFrame
<1>3. LET g == [f EXCEPT !.step = "children", !.j = 1]
      IN  /\ IsFrame(g) /\ g.name = f.name /\ g.property = f.property /\ g.list = f.list
          /\ g.step = "children" /\ g.num = f.num /\ g.ids = f.ids /\ g.i = f.i /\ g.j = 1
          /\ g.ok = f.ok
  <2> DEFINE g == [f EXCEPT !.step = "children", !.j = 1]
  <2>1. g = [z \in Fields |-> IF z = "step" THEN "children" ELSE IF z = "j" THEN 1 ELSE f[z]]
    BY <1>1
  <2> QED
    BY <1>1, <2>1 DEF IsFrame
<1>4. LET g == [f EXCEPT !.j = @ + 1]
      IN  /\ IsFrame(g) /\ g.name = f.name /\ g.property = f.property /\ g.list = f.list
          /\ g.step = f.step /\ g.num = f.num /\ g.ids = f.ids /\ g.i = f.i
          /\ g.j = f.j + 1 /\ g.ok = f.ok
  <2> DEFINE g == [f EXCEPT !.j = @ + 1]
  <2>1. g = [z \in Fields |-> IF z = "j" THEN f.j + 1 ELSE f[z]]
    BY <1>1
  <2> QED
    BY <1>1, <2>1 DEF IsFrame
<1> QED
  BY <1>2, <1>3, <1>4

\* What a frame is at, and asks for.
LEMMA FrameAt ==
  ASSUME DataAgrees, NEW k, NEW f, FrameOK(k, f)
  PROVE  /\ f.step \in {"count", "ids"} =>
              /\ f.list /\ Target(f).name = Front(f.name) /\ ObjectOf(Front(f.name)) # NoObject
              /\ Target(f).property = IF f.step = "count" THEN CountOf[Last1(f.name)]
                                                          ELSE IdsOf[Last1(f.name)]
         /\ f.step \in {"item", "children"} =>
              /\ At(f) \in Names /\ ObjectOf(At(f)) # NoObject
              /\ f.list \/ k.recursive => ~IsWholeList(At(f))
         /\ f.step = "item" => /\ Target(f).name = At(f)
                               /\ Target(f).property = f.property
         /\ f.step = "children" => ~IsWholeList(At(f)) /\ k.recursive
<1>1. f.list => f.property = All /\ IsWholeList(f.name) /\ f.name \in Names
  BY DEF FrameOK
<1>2. CASE f.step \in {"count", "ids"}
  <2>1. f.list
    BY <1>2 DEF FrameOK
  <2> QED
    BY <1>1, <1>2, <2>1, ListIs DEF Target
<1>3. CASE f.step \in {"item", "children"} /\ f.list
  <2>1. Front(f.name) \in Instances /\ f.num = NumIn(f.name) /\ f.ids = IdsIn(f.name)
        /\ f.i \in 1 .. NumIn(f.name)
    <3>1. Front(f.name) \in Instances /\ f.num = NumIn(f.name) /\ f.ids = IdsIn(f.name)
          /\ f.i \in Nat /\ f.i >= 1 /\ f.i <= f.num
      BY <1>3 DEF FrameOK
    <3> QED
      BY <1>1, <1>3, <3>1, ListIs
  <2>2. At(f) = Append(f.name, IdsIn(f.name)[f.i])
    BY <1>3, <2>1 DEF At
  <2>3. At(f) \in Names /\ ObjectOf(At(f)) # NoObject /\ ~IsWholeList(At(f))
    BY <1>1, <1>3, <2>1, <2>2, ListIs
  <2>4. f.step = "item" => Target(f).name = At(f) /\ Target(f).property = f.property
    BY <1>1, <1>3 DEF Target, At
  <2>5. f.step = "children" => k.recursive
    BY DEF FrameOK
  <2> QED
    BY <1>3, <2>3, <2>4, <2>5
<1>4. CASE f.step \in {"item", "children"} /\ ~f.list
  <2>1. At(f) = f.name /\ f.name \in Names /\ ObjectOf(f.name) # NoObject
    BY <1>4 DEF At, FrameOK
  <2>2. f.step = "children" => k.recursive
    BY <1>4 DEF FrameOK
  <2>3. k.recursive => ~IsWholeList(f.name)
    BY <1>4 DEF FrameOK
  <2>4. f.step = "item" => Target(f).name = f.name /\ Target(f).property = f.property
    BY <1>4 DEF Target
  <2> QED
    BY <1>4, <2>1, <2>2, <2>3, <2>4
<1>5. f.step \in {"count", "ids", "item", "children"}
  BY DEF FrameOK
<1> QED
  BY <1>2, <1>3, <1>4, <1>5

\* The number of items arrives.
LEMMA CountStep ==
  ASSUME DataAgrees, NEW k, NEW f, FrameOK(k, f), f.step = "count", Front(f.name) \in Instances
  PROVE  LET g == [f EXCEPT !.num = NumIn(f.name), !.step = "ids"]
         IN  FrameOK(k, g) /\ Left(k, g) = Left(k, f)
<1> PICK num : num = NumIn(f.name)
  OBVIOUS
<1> DEFINE g == [f EXCEPT !.num = num, !.step = "ids"]
<1>1. f.list /\ IsFrame(f)
  BY FrameAt DEF FrameOK
<1>2. /\ IsFrame(g) /\ g.name = f.name /\ g.property = f.property /\ g.list = f.list
      /\ g.step = "ids" /\ g.num = num /\ g.i = f.i /\ g.j = f.j /\ g.ok = f.ok
  <2>1. g = [z \in {"name", "property", "list", "step", "num", "ids", "i", "j", "ok"} |->
               IF z = "step" THEN "ids" ELSE IF z = "num" THEN num ELSE f[z]]
    BY <1>1 DEF IsFrame
  <2> QED
    BY <1>1, <2>1 DEF IsFrame
<1> HIDE DEF g
<1>3. FrameOK(k, g)
  BY <1>1, <1>2 DEF FrameOK
<1>4. LeftHere(g) = LeftHere(f) /\ LeftBelow(k, g) = LeftBelow(k, f)
  BY <1>2 DEF LeftHere, LeftBelow
<1> QED
  BY <1>3, <1>4 DEF Left, g

\* Their ids arrive.
LEMMA IdsStep ==
  ASSUME DataAgrees, NEW k, NEW f, FrameOK(k, f), f.step = "ids"
  PROVE  /\ Len(IdsIn(f.name)) = f.num
         /\ LET g == [f EXCEPT !.ids = IdsIn(f.name), !.step = "item"]
            IN  FrameOK(k, g) /\ Left(k, g) = Left(k, f)
<1> PICK ids : ids = IdsIn(f.name)
  OBVIOUS
<1> DEFINE g == [f EXCEPT !.ids = ids, !.step = "item"]
<1>1. f.list /\ IsFrame(f) /\ Front(f.name) \in Instances /\ f.num = NumIn(f.name)
      /\ IsWholeList(f.name) /\ f.name \in Names /\ f.i = 1
  BY FrameAt DEF FrameOK
<1>2. /\ IsFrame(g) /\ g.name = f.name /\ g.property = f.property /\ g.list = f.list
      /\ g.step = "item" /\ g.num = f.num /\ g.ids = ids /\ g.i = f.i /\ g.j = f.j
      /\ g.ok = f.ok
  <2>1. g = [z \in {"name", "property", "list", "step", "num", "ids", "i", "j", "ok"} |->
               IF z = "step" THEN "item" ELSE IF z = "ids" THEN ids ELSE f[z]]
    BY <1>1 DEF IsFrame
  <2> QED
    BY <1>1, <2>1 DEF IsFrame
<1>3. f.num = Len(IdsIn(f.name)) /\ f.num >= 1
  BY <1>1, ListIs
<1> HIDE DEF g
<1>4. FrameOK(k, g)
  BY <1>1, <1>2, <1>3 DEF FrameOK
<1>5. f.property = All
  BY <1>1 DEF FrameOK
<1>6. LeftBelow(k, f) = UnderList(k, f.name) /\ LeftHere(f) = {}
  BY <1>1, <1>5 DEF LeftBelow, LeftHere
<1>7. LeftBelow(k, g) = UnderItems(k, g, 1) /\ LeftHere(g) = {}
  BY <1>1, <1>2, <1>5 DEF LeftBelow, LeftHere
<1>8. UnderItems(k, g, 1) = UnderList(k, f.name)
  BY <1>1, <1>2, ItemsAre DEF UnderItems
<1> QED
  BY <1>3, <1>4, <1>6, <1>7, <1>8 DEF Left, g

\* The next item of a list, if there is one.
LEMMA NextFrame ==
  ASSUME DataAgrees, NEW k, NEW f, FrameOK(k, f), f.step \in {"item", "children"}
  PROVE  IF f.list /\ f.i < f.num
         THEN LET g == [f EXCEPT !.i = @ + 1, !.j = 1, !.step = "item"]
              IN  FrameOK(k, g) /\ Left(k, g) = Shows(Beyond(k, f))
         ELSE Beyond(k, f) = {}
<1>0. f.list => f.i \in Nat /\ f.num \in Nat /\ f.property = All
  <2>1. f.list => f.i \in Nat /\ f.property = All /\ f.num = NumIn(f.name)
                  /\ Front(f.name) \in Instances /\ IsWholeList(f.name) /\ f.name \in Names
    BY DEF FrameOK
  <2> QED
    BY <2>1, ListIs
<1>1. CASE f.list /\ f.i < f.num
  <2> DEFINE g == [f EXCEPT !.i = @ + 1, !.j = 1, !.step = "item"]
  <2>1. /\ IsFrame(g) /\ g.name = f.name /\ g.property = f.property /\ g.list = f.list
        /\ g.step = "item" /\ g.num = f.num /\ g.ids = f.ids /\ g.i = f.i + 1 /\ g.j = 1
        /\ g.ok = f.ok
    BY FrameWith DEF FrameOK
  <2> HIDE DEF g
  <2>3. FrameOK(k, g)
    BY <1>1, <2>1, <1>0 DEF FrameOK
  <2>4. LeftHere(g) = {} /\ LeftBelow(k, g) = UnderItems(k, g, f.i + 1)
    BY <1>1, <2>1, <1>0 DEF LeftHere, LeftBelow
  <2>5. LeftBelow(k, g) = Beyond(k, f)
    BY <1>1, <2>1, <2>4 DEF UnderItems, Beyond
  <2> QED
    BY <1>1, <2>3, <2>4, <2>5 DEF Left, g
<1>2. CASE ~(f.list /\ f.i < f.num)
  <2>1. f.list => f.i + 1 .. f.num = {}
    BY <1>0, <1>2
  <2> QED
    BY <1>2, <2>1 DEF Beyond, UnderItems
<1> QED
  BY <1>1, <1>2

\* What the query of a frame is to show.
Shown(f) == Asks(At(f), f.property)

\* An item is asked for.
LEMMA ItemStep ==
  ASSUME DataAgrees, NEW k, NEW f, FrameOK(k, f), f.step = "item"
  PROVE  /\ k.recursive =>
              LET g == [f EXCEPT !.step = "children", !.j = 1]
              IN  FrameOK(k, g) /\ Left(k, f) = Shown(f) \cup Left(k, g)
         /\ ~k.recursive => Left(k, f) = Shown(f) \cup Shows(Beyond(k, f))
<1> DEFINE n == At(f)
           own == {n} \cap Instances
<1>1. n \in Names /\ ObjectOf(n) # NoObject /\ (k.recursive => ~IsWholeList(n))
  BY FrameAt
<1>2. Under(k, n) = own \cup (IF k.recursive THEN Below(n) ELSE {})
  BY DEF Under, Below
<1>0. f.property = All => Shown(f) = Shows(own)
  BY DEF Shown, Asks, Instances
<1>3. Left(k, f) = Shown(f) \cup Shows((IF k.recursive THEN Below(n) ELSE {}) \cup Beyond(k, f))
  <2>1. CASE f.list
    <3>1. f.i \in Nat /\ f.i <= f.num /\ f.property = All /\ n = Append(f.name, f.ids[f.i])
          /\ f.num \in Nat
      BY <2>1, ListIs DEF FrameOK, At
    <3>2. LeftHere(f) = {} /\ LeftBelow(k, f) = UnderItems(k, f, f.i)
      BY <2>1, <3>1 DEF LeftHere, LeftBelow
    <3>3. UnderItems(k, f, f.i) = Under(k, n) \cup Beyond(k, f)
      <4>1. f.i .. f.num = {f.i} \cup (f.i + 1 .. f.num)
        BY <3>1
      <4> QED
        BY <2>1, <3>1, <4>1 DEF UnderItems, Beyond
    <3>4. UnderItems(k, f, f.i) = own \cup ((IF k.recursive THEN Below(n) ELSE {}) \cup Beyond(k, f))
      BY <1>2, <3>3
    <3> QED
      <4>1. Left(k, f) = Shows(UnderItems(k, f, f.i))
        BY <3>2 DEF Left
      <4>2. Shown(f) = Shows(own)
        BY <1>0, <3>1
      <4> HIDE DEF n, own
      <4> QED
        BY <3>4, <4>1, <4>2, ShowsBoth
  <2>2. CASE ~f.list /\ f.property = All
    <3>1. n = f.name /\ Beyond(k, f) = {}
      BY <2>2 DEF At, Beyond
    <3>2. LeftHere(f) = {} /\ LeftBelow(k, f) = Under(k, n)
      BY <2>2, <3>1 DEF LeftHere, LeftBelow
    <3> QED
      BY <1>0, <1>2, <2>2, <3>1, <3>2, ShowsBoth DEF Left
  <2>3. CASE ~f.list /\ f.property # All
    <3>1. n = f.name /\ Beyond(k, f) = {}
      BY <2>3 DEF At, Beyond
    <3>2. LeftHere(f) = Shown(f) /\ LeftBelow(k, f) = IF k.recursive THEN Below(n) ELSE {}
      BY <2>3, <3>1 DEF LeftHere, LeftBelow, Shown, Asks
    <3> QED
      BY <3>1, <3>2 DEF Left
  <2> QED
    BY <2>1, <2>2, <2>3
<1>4. ASSUME k.recursive
      PROVE  LET g == [f EXCEPT !.step = "children", !.j = 1]
             IN  FrameOK(k, g) /\ Left(k, f) = Shown(f) \cup Left(k, g)
  <2> DEFINE g == [f EXCEPT !.step = "children", !.j = 1]
  <2>1. /\ IsFrame(g) /\ g.name = f.name /\ g.property = f.property /\ g.list = f.list
        /\ g.step = "children" /\ g.num = f.num /\ g.ids = f.ids /\ g.i = f.i /\ g.j = 1
        /\ g.ok = f.ok
    BY FrameWith DEF FrameOK
  <2> HIDE DEF g
  <2>3. FrameOK(k, g)
    BY <1>4, <2>1 DEF FrameOK
  <2>4. At(g) = n /\ Beyond(k, g) = Beyond(k, f)
    BY <2>1 DEF At, Beyond, UnderItems
  <2>5. UnderChildren(g) = Below(n)
    BY <1>1, <1>4, <2>1, <2>4, ChildNames DEF UnderChildren
  <2>6. LeftHere(g) = {} /\ LeftBelow(k, g) = Below(n) \cup Beyond(k, f)
    BY <2>1, <2>4, <2>5 DEF LeftHere, LeftBelow
  <2>7. Left(k, f) = Shown(f) \cup Left(k, g)
    BY <1>3, <1>4, <2>6 DEF Left
  <2> QED
    BY <2>3, <2>7 DEF g
<1>5. ASSUME ~k.recursive PROVE Left(k, f) = Shown(f) \cup Shows(Beyond(k, f))
  BY <1>3, <1>5
<1> QED
  BY <1>4, <1>5

\* The call for a child, and what is left when there is none.
LEMMA ChildStep ==
  ASSUME DataAgrees, NEW k, NEW f, FrameOK(k, f), f.step = "children"
  PROVE  LET below == Children(ObjectOf(At(f)))
             h == Frame(Append(At(f), Last1(below[f.j])), All)
             g == [f EXCEPT !.j = @ + 1]
         IN  /\ f.j > Len(below) => Left(k, f) = Shows(Beyond(k, f))
             /\ ~(f.j > Len(below)) => /\ FrameOK(k, h) /\ FrameOK(k, g)
                                       /\ Left(k, f) = Left(k, h) \cup Left(k, g)
<1> DEFINE n == At(f)
           below == Children(ObjectOf(n))
           m == ChildName(n, f.j)
           h == Frame(m, All)
           g == [f EXCEPT !.j = @ + 1]
<1>1. n \in Names /\ ObjectOf(n) # NoObject /\ ~IsWholeList(n) /\ k.recursive
  BY FrameAt
<1>2. f.j \in Nat /\ f.j >= 1 /\ Len(below) \in Nat
  BY <1>1, ChildNames DEF FrameOK
<1>3. Left(k, f) = Shows(UnderChildren(f) \cup Beyond(k, f))
  BY DEF Left, LeftHere, LeftBelow
<1>4. UnderChildren(f) = UNION {From(ChildName(n, x)) : x \in f.j .. Len(below)}
  BY DEF UnderChildren
<1>5. CASE f.j > Len(below)
  <2>1. f.j .. Len(below) = {}
    BY <1>2, <1>5
  <2>2. UnderChildren(f) = {}
    BY <1>4, <2>1
  <2> QED
    BY <1>2, <1>3, <1>5, <2>2
<1>6. CASE ~(f.j > Len(below))
  <2>1. f.j \in 1 .. Len(below) /\ f.j .. Len(below) = {f.j} \cup (f.j + 1 .. Len(below))
    BY <1>2, <1>6
  <2>2. m \in Names /\ ObjectOf(m) # NoObject
    BY <1>1, <2>1, ChildNames
  <2>3. FrameOK(k, h)
    BY <2>2, FrameStarts
  <2>4. /\ IsFrame(g) /\ g.name = f.name /\ g.property = f.property /\ g.list = f.list
        /\ g.step = "children" /\ g.num = f.num /\ g.ids = f.ids /\ g.i = f.i
        /\ g.j = f.j + 1 /\ g.ok = f.ok
    BY FrameWith DEF FrameOK
  <2> HIDE DEF g
  <2>5. FrameOK(k, g)
    BY <1>2, <2>4 DEF FrameOK
  <2>6. At(g) = n /\ Beyond(k, g) = Beyond(k, f)
    BY <2>4 DEF At, Beyond, UnderItems
  <2>7. UnderChildren(g) = UNION {From(ChildName(n, x)) : x \in f.j + 1 .. Len(below)}
    BY <2>4, <2>6 DEF UnderChildren
  <2>8. UnderChildren(f) = From(m) \cup UnderChildren(g)
    BY <1>4, <2>1, <2>7
  <2>9. Left(k, g) = Shows(UnderChildren(g) \cup Beyond(k, f))
    BY <2>4, <2>6 DEF Left, LeftHere, LeftBelow
  <2>10. Left(k, h) = Shows(From(m))
    <3>1. h.property = All /\ h.name = m /\ (h.list <=> IsWholeList(m))
          /\ h.step = IF IsWholeList(m) THEN "count" ELSE "item"
      BY DEF Frame
    <3> HIDE DEF h, m
    <3>2. IsSeq(m) /\ IsPrefix(m, m)
      BY <2>2, NamesAre, PrefixGrows
    <3>3. CASE IsWholeList(m)
      <4>1. m \notin Instances
        BY <3>3 DEF DataAgrees, Instances
      <4>2. LeftHere(h) = {} /\ LeftBelow(k, h) = UnderList(k, m)
        BY <3>1, <3>3 DEF LeftHere, LeftBelow
      <4>3. UnderList(k, m) = From(m)
        BY <1>1, <4>1 DEF UnderList, Below, From
      <4> QED
        BY <4>2, <4>3 DEF Left
    <3>4. CASE ~IsWholeList(m)
      <4>1. LeftHere(h) = {} /\ LeftBelow(k, h) = Under(k, m)
        BY <3>1, <3>4 DEF LeftHere, LeftBelow
      <4>2. Under(k, m) = From(m)
        BY <1>1, <3>2 DEF Under, Below, From
      <4> QED
        BY <4>1, <4>2 DEF Left
    <3> QED
      BY <3>3, <3>4
  <2>11. Left(k, f) = Left(k, h) \cup Left(k, g)
    BY <1>3, <2>8, <2>9, <2>10, ShowsBoth
  <2> QED
    BY <1>6, <2>3, <2>5, <2>11 DEF ChildName, g
<1> QED
  BY <1>5, <1>6

-----------------------------------------------------------------------------
(* What the host answers.                                                  *)

\* What is asked of a property the object has is asked by its name.
LEMMA InfoIs ==
  ASSUME NEW o \in DOMAIN Model, NEW property, NEW writable
  PROVE  /\ Info(o, property, writable).label = property
         /\ property \in {p.name : p \in Range(Model[o].properties)} =>
              Info(o, property, writable).name = property
<1> DEFINE ps == Model[o].properties
           known == {i \in DOMAIN ps : ps[i].name = property}
           less == {ss \in Nat \X Nat : ss[1] < ss[2]}
<1>1. known \subseteq Nat
  <2>1. IsSeq(ps)
    BY DataModelAssumption DEF IsSeq
  <2> QED
    BY <2>1, SeqRange
<1>2. CASE known = {}
  <2>1. property \notin {p.name : p \in Range(ps)}
    BY <1>2 DEF Range
  <2> QED
    BY <1>2, <2>1 DEF Info
<1>3. CASE known # {}
  <2>1. \E i \in known : \A j \in known : i <= j
    <3> HIDE DEF known
    <3>1. IsWellFoundedOn(less, Nat)
      BY NatLessThanWellFounded DEF OpToRel
    <3>2. PICK i \in known : \A y \in known : ~(<<y, i>> \in less)
      BY <1>1, <1>3, <3>1, WFMin
    <3>3. \A j \in known : i <= j
      <4> TAKE j \in known
      <4>1. <<j, i>> \in Nat \X Nat
        BY <1>1
      <4> QED
        BY <3>2, <4>1
    <3> QED
      BY <3>3
  <2>2. PICK i \in known : i = CHOOSE x \in known : \A j \in known : x <= j
    BY <2>1
  <2>3. Info(o, property, writable) =
          [name |-> ps[i].name, label |-> property, writable |-> ps[i].writable]
    BY <1>3, <2>2 DEF Info
  <2> QED
    BY <2>2, <2>3
<1> QED
  BY <1>2, <1>3

\* The properties that nothing sets keep their values.
Keeps(n, v) ==
  /\ DOMAIN v = DOMAIN FirstValues[n]
  /\ \A p \in DOMAIN v \ Settable[ObjectOf(n)] : v[p] = FirstValues[n][p]

ValuesInv == DOMAIN values = Instances /\ \A n \in Instances : Keeps(n, values[n])

\* An answer with entries is that of an instance, for the properties asked for.
Gives(r, entries) ==
  LET params == GetParams(r)
  IN  /\ r.name \in Instances /\ DOMAIN entries = DOMAIN params
      /\ \A i \in DOMAIN params :
           /\ entries[i].property = params[i].label
           /\ params[i].name \in DOMAIN FirstValues[r.name] \ Settable[ObjectOf(r.name)] =>
                entries[i].fine /\ entries[i].value = FirstValues[r.name][params[i].name]

GivesInv == \A p \in replies : p.to.op = "get" /\ p.entries # <<>> => Gives(p.to, p.entries)

\* Nothing changes a property without a setter.
LEMMA ValuesKept ==
  ASSUME ValuesInv, RequestInv, RegistrationInv, [Next]_vars
  PROVE  ValuesInv'
<1>1. CASE values' = values
  BY <1>1 DEF ValuesInv, Keeps
<1>2. CASE values' # values
  <2> DEFINE r == job.request
             params == job.params
  <2>1. values' = [values EXCEPT ![r.name] = Kept(r.name, params)]
    BY <1>2 DEF Next, Host, Step, Call, Ask, NoQuery, Answered, TimesOut, Child, Crash,
         Leave, Route, AddListener, NotRegistered, InsertStarts, InsertEnds, Subscribed, Take,
         Handle, vars
  <2> HIDE DEF r, params
  <2>2. ASSUME NEW n \in Instances PROVE Keeps(n, values'[n])
    <3>1. Keeps(n, values[n]) /\ n \in DOMAIN values
      BY DEF ValuesInv
    <3>2. CASE n # r.name
      BY <2>1, <3>1, <3>2
    <3>3. CASE n = r.name
      <4>1. values'[n] = Kept(n, params)
        BY <2>1, <3>1, <3>3
      <4>2. DOMAIN Kept(n, params) = DOMAIN values[n]
        BY DEF Kept
      <4>3. ASSUME NEW p \in DOMAIN values[n] \ Settable[ObjectOf(n)]
            PROVE  Kept(n, params)[p] = values[n][p]
        BY <4>3 DEF Kept, Sets, Takes
      <4> QED
        BY <3>1, <4>1, <4>2, <4>3 DEF Keeps
    <3> QED
      BY <3>2, <3>3
  <2>3. DOMAIN values' = Instances
    BY <2>1 DEF ValuesInv
  <2> QED
    BY <2>2, <2>3 DEF ValuesInv
<1> QED
  BY <1>1, <1>2

\* What the host answers is what it holds.
LEMMA GivesKept ==
  ASSUME GivesInv, ValuesInv, RequestInv, RegistrationInv, [Next]_vars
  PROVE  GivesInv'
<1>1. ASSUME NEW p \in replies' \ replies, p.to.op = "get", p.entries # <<>>
      PROVE  Gives(p.to, p.entries)
  <2> DEFINE r == job.request
             params == job.params
  <2>1. /\ job # NoJob /\ MayFind(r.name) /\ r.op = "get"
        /\ p.to = r /\ p.entries = Got(r.name, params)
    <3>1. \A q, e, b : Reply(q, e, b) => p.to = q /\ p.entries = e
      BY <1>1 DEF Reply
    <3>2. Handle
      <4>1. CASE \E q \in wire : Route(q)
        BY <1>1, <3>1, <4>1 DEF Route
      <4>2. CASE \E c \in Clients : (\E k \in Calls : Call(c, k)) \/ Step(c)
        <5>1. PICK c \in Clients : (\E k \in Calls : Call(c, k)) \/ Step(c)
          BY <4>2
        <5>2. CASE Answered(c)
          BY <1>1, <5>2 DEF Answered
        <5>3. CASE TimesOut(c)
          BY <1>1, <5>3 DEF TimesOut
        <5>4. CASE ~Answered(c) /\ ~TimesOut(c)
          <6>1. replies' = replies
            BY <5>1, <5>4 DEF Step, Call, Ask, NoQuery, Child, Crash, Leave
          <6> QED
            BY <1>1, <6>1
        <5> QED
          BY <5>2, <5>3, <5>4
      <4>3. CASE Host \/ UNCHANGED vars
        <5>1. replies' # replies
          BY <1>1
        <5> QED
          BY <4>3, <5>1 DEF Host, AddListener, NotRegistered, InsertStarts, InsertEnds,
               Subscribed, Take, vars
      <4> QED
        BY <4>1, <4>2, <4>3 DEF Next
    <3>3. /\ job # NoJob
          /\ \/ MayFind(r.name) /\ r.op = "get" /\ Reply(r, Got(r.name, params), FALSE)
             \/ r.op = "set" /\ Reply(r, SetResults(r.name, params), FALSE)
             \/ Reply(r, <<>>, reg.at = "inserting")
      BY <3>2 DEF Handle
    <3> QED
      BY <1>1, <3>1, <3>3
  <2>2. params = GetParams(r)
    BY <2>1 DEF RequestInv, Decoded
  <2>3. r.name \in Instances
    <3>1. providers \subseteq Range(Registrations)
      BY DEF RegistrationInv
    <3>2. reg.at = "inserting" => Instance \in Range(Registrations)
      BY InstanceIs DEF RegistrationInv
    <3> QED
      BY <2>1, <3>1, <3>2, ProviderAssumption DEF MayFind, Instances
  <2>4. Keeps(r.name, values[r.name])
    BY <2>3 DEF ValuesInv
  <2> HIDE DEF r, params
  <2>5. DOMAIN Got(r.name, params) = DOMAIN params
    BY DEF Got
  <2>6. ASSUME NEW i \in DOMAIN params
        PROVE  /\ Got(r.name, params)[i].property = params[i].label
               /\ params[i].name \in DOMAIN FirstValues[r.name] \ Settable[ObjectOf(r.name)] =>
                    /\ Got(r.name, params)[i].fine
                    /\ Got(r.name, params)[i].value = FirstValues[r.name][params[i].name]
    BY <2>4 DEF Got, Entry, Keeps
  <2> QED
    BY <2>1, <2>2, <2>3, <2>5, <2>6 DEF Gives
<1> QED
  BY <1>1 DEF GivesInv

LEMMA OneOnly == ASSUME NEW x PROVE DOMAIN <<x>> = {1} /\ <<x>>[1] = x
OBVIOUS

\* An instance shows what it is asked for.
LEMMA AnswerShows ==
  ASSUME NEW r, NEW entries, Gives(r, entries), ObjectOf(r.name) # NoObject
  PROVE  {[name |-> r.name, property |-> entries[i].property] : i \in DOMAIN entries} =
           Asks(r.name, r.property)
<1> DEFINE o == ObjectOf(r.name)
           params == GetParams(r)
<1>1. r.name \in Names /\ r.name \in Instances
  BY NamesAre DEF Gives, Instances
<1>2. o \in DOMAIN Model
  <2>1. IsSeq(r.name) /\ IsPrefix(r.name, r.name)
    BY <1>1, NamesAre, PrefixGrows
  <2>2. PICK k \in Nat : k = Len(r.name)
    BY <2>1, SeqRange
  <2>3. k \in 0 .. k
    OBVIOUS
  <2>4. WalkOK(Walk(r.name)) /\ Stands(Walk(r.name), r.name)
    BY <1>1, <2>1, <2>2, <2>3, WalkOfPrefix, StandsAtEnd
  <2> QED
    BY <1>1, <2>4, TokenBelow
<1>3. DOMAIN entries = DOMAIN params /\ \A i \in DOMAIN params : entries[i].property = params[i].label
  BY DEF Gives
<1>4. CASE r.property = All
  <2>1. params = [i \in DOMAIN Properties(r.name) |->
                    Info(o, Properties(r.name)[i].name, FALSE)]
    BY <1>4 DEF GetParams
  <2>2. /\ DOMAIN params = DOMAIN Properties(r.name)
        /\ \A i \in DOMAIN params : params[i].label = Properties(r.name)[i].name
    <3>1. \A property : Info(o, property, FALSE).label = property
      BY <1>2, InfoIs
    <3> HIDE DEF params, o
    <3> QED
      BY <2>1, <3>1
  <2> HIDE DEF params
  <2>3. {[name |-> r.name, property |-> entries[i].property] : i \in DOMAIN entries} =
          {[name |-> r.name, property |-> Properties(r.name)[i].name] :
             i \in DOMAIN Properties(r.name)}
    BY <1>3, <2>2
  <2>4. Shows({r.name}) =
          {[name |-> r.name, property |-> p.name] : p \in Range(Properties(r.name))}
    BY DEF Shows
  <2>5. Asks(r.name, r.property) = Shows({r.name})
    <3>1. {r.name} \cap DOMAIN FirstValues = {r.name}
      BY <1>1 DEF Instances
    <3> QED
      BY <1>4, <3>1 DEF Asks
  <2> QED
    BY <1>4, <2>3, <2>4, <2>5 DEF Range
<1>5. CASE r.property # All
  <2>1. params = <<Info(o, r.property, FALSE)>>
    BY <1>5 DEF GetParams
  <2>2. DOMAIN params = {1} /\ params[1].label = r.property
    <3>1. Info(o, r.property, FALSE).label = r.property
      BY <1>2, InfoIs
    <3> HIDE DEF params, o
    <3> QED
      BY <2>1, <3>1, OneOnly
  <2> HIDE DEF params
  <2>3. Asks(r.name, r.property) = {[name |-> r.name, property |-> r.property]}
    BY <1>5 DEF Asks
  <2> QED
    BY <1>3, <1>5, <2>2, <2>3
<1> QED
  BY <1>4, <1>5

\* The parent of a list gives the number and the ids of its items.
LEMMA ListAnswered ==
  ASSUME DataAgrees, NEW n \in Names, IsWholeList(n), NEW r, NEW entries, Gives(r, entries),
         r.name = Front(n), r.property \in {CountOf[Last1(n)], IdsOf[Last1(n)]}
  PROVE  /\ Front(n) \in Instances
         /\ \A none, empty :
              ValueOf(entries, r.property, none, empty) = FirstValues[Front(n)][r.property]
<1> DEFINE o == ObjectOf(r.name)
           property == r.property
           params == GetParams(r)
<1>1. r.name \in Instances /\ r.name \in Names /\ o # NoObject /\ property # All
  BY NamesAre, ListIs DEF Gives, Instances
<1>2. /\ property \in DOMAIN FirstValues[r.name] \ Settable[o]
      /\ property \in {p.name : p \in Range(Properties(r.name))}
  BY <1>1, ListIs
<1>3. o \in DOMAIN Model
  <2>1. IsSeq(r.name) /\ IsPrefix(r.name, r.name)
    BY <1>1, NamesAre, PrefixGrows
  <2>2. PICK k \in Nat : k = Len(r.name)
    BY <2>1, SeqRange
  <2>3. k \in 0 .. k
    OBVIOUS
  <2>4. WalkOK(Walk(r.name)) /\ Stands(Walk(r.name), r.name)
    BY <1>1, <2>1, <2>2, <2>3, WalkOfPrefix, StandsAtEnd
  <2> QED
    BY <1>1, <2>4, TokenBelow
<1>4. params = <<Info(o, property, FALSE)>>
  BY <1>1 DEF GetParams
<1>5. /\ DOMAIN params = {1} /\ params[1].label = property /\ params[1].name = property
  <2>1. Info(o, property, FALSE).label = property /\ Info(o, property, FALSE).name = property
    BY <1>2, <1>3, InfoIs DEF Properties
  <2> HIDE DEF params, o, property
  <2> QED
    BY <1>4, <2>1, OneOnly
<1>6. /\ DOMAIN entries = {1} /\ entries[1].property = property /\ entries[1].fine
      /\ entries[1].value = FirstValues[r.name][property]
  <2> HIDE DEF params, property, o
  <2>1. DOMAIN entries = DOMAIN params /\ 1 \in DOMAIN params
    BY <1>5 DEF Gives, params
  <2> QED
    BY <1>2, <1>5, <2>1 DEF Gives, params, o
<1>7. {i \in DOMAIN entries : entries[i].property = property} = {1}
  BY <1>6
<1>8. ASSUME NEW none, NEW empty
      PROVE  ValueOf(entries, property, none, empty) = entries[1].value
  <2> HIDE DEF property
  <2>1. Max({1}) = 1
    <3>1. {1} \subseteq 1 .. 1 /\ {1} # {}
      OBVIOUS
    <3>2. Max({1}) \in {1}
      BY <3>1, MaxIn
    <3> QED
      BY <3>2
  <2>2. ValueOf(entries, property, none, empty) =
          CASE {1} = {} -> none
            [] {1} # {} /\ entries[1].fine -> entries[1].value
            [] OTHER -> empty
    BY <1>7, <2>1, Zenon DEF ValueOf
  <2> QED
    BY <1>6, <2>2
<1> QED
  BY <1>1, <1>6, <1>8

-----------------------------------------------------------------------------
(* A client that reads.                                                    *)

\* The call of a client is a read of something in the database, and the lists it has
\* met were described.
Reading(c) == IsRead(call[c]) /\ ~Undescribed(c)

\* What the calls of runGet on a stack have still to show.
LeftBy(k, s) == UNION {Left(k, f) : f \in Range(s)}

\* What was shown or asked for in vain, with what is left, is what the call covers.
Progress(c) ==
  /\ at[c] # "crashed"
  /\ \A f \in Range(stack[c]) : FrameOK(call[c], f)
  /\ shown[c] \cup Missed(c) \cup LeftBy(call[c], stack[c]) = Covered(call[c])
  /\ at[c] = "returned" => ok[c]

\* A client waits for the answer to what its topmost call asks for.
WaitsForTop(c) ==
  at[c] = "waiting" => /\ Top(c).step # "children"
                       /\ asked[c].op = "get" /\ asked[c].name = Target(Top(c)).name
                       /\ asked[c].property = Target(Top(c)).property

\* The number of a list got no value and its ids are asked for, as many as none.
LostNumber(c) ==
  LET f == Top(c)
  IN  /\ at[c] \in {"running", "waiting"}
      /\ f.step = "ids" /\ f.num = 0 /\ f.list /\ f.name \in Names /\ IsWholeList(f.name)
      /\ WaitsForTop(c)

\* A list that was not described was told of, or is about to be; or it has one item.
Told(c) ==
  errors[c] > 0 \/ LostNumber(c) \/ \E u \in unmet[c] : u.describes /\ u.num = 1

ReadInv ==
  /\ DOMAIN shown = Clients /\ DOMAIN unmet = Clients
  /\ \A c \in Clients : Reading(c) /\ at[c] # "idle" => Progress(c) /\ WaitsForTop(c)
  /\ \A c \in Clients :
       IsRead(call[c]) /\ Undescribed(c) /\ at[c] # "idle" => Told(c)

\* The topmost call and those below it.
LEMMA LeftBySplit ==
  ASSUME NEW k, NEW s, IsSeq(s), s # <<>>
  PROVE  LeftBy(k, s) = Left(k, Head(s)) \cup LeftBy(k, Tail(s))
<1>1. Range(s) = {Head(s)} \cup Range(Tail(s))
  BY Cut
<1> QED
  BY <1>1 DEF LeftBy

LEMMA LeftByNone == ASSUME NEW k PROVE LeftBy(k, <<>>) = {} /\ Range(<<>>) = {}
BY DEF LeftBy, Range

\* Two frames on top of a stack.
LEMMA TwoOnTop ==
  ASSUME NEW u, IsSeq(u), NEW h, NEW g
  PROVE  Range(<<h, g>> \o u) = {h, g} \cup Range(u)
<1> DEFINE t == <<h, g>> \o u
           S == Range(u) \cup {h, g}
<1>1. u \in Seq(S) /\ <<h, g>> \in Seq(S) /\ Len(<<h, g>>) = 2 /\ Len(u) \in Nat
      /\ DOMAIN u = 1 .. Len(u)
  BY SeqRange DEF IsSeq
<1>2. /\ t \in Seq(S) /\ Len(t) = 2 + Len(u)
      /\ \A i \in 1 .. 2 + Len(u) : t[i] = IF i <= 2 THEN <<h, g>>[i] ELSE u[i - 2]
  BY <1>1
<1>3. <<h, g>>[1] = h /\ <<h, g>>[2] = g
  OBVIOUS
<1> HIDE DEF t
<1>4. Range(t) \subseteq S /\ DOMAIN t = 1 .. 2 + Len(u)
  <2>1. IsSeq(t) /\ Range(t) \subseteq S
    BY <1>2, SeqIs
  <2> QED
    BY <1>2, <2>1, SeqRange
<1>5. h \in Range(t) /\ g \in Range(t)
  <2>1. 1 \in 1 .. 2 + Len(u) /\ 2 \in 1 .. 2 + Len(u)
    BY <1>1
  <2>2. t[1] = h /\ t[2] = g
    BY <1>2, <1>3, <2>1
  <2> QED
    BY <1>4, <2>1, <2>2 DEF Range
<1>6. ASSUME NEW i \in 1 .. Len(u) PROVE u[i] \in Range(t)
  <2>1. i + 2 \in 1 .. 2 + Len(u) /\ ~(i + 2 <= 2) /\ (i + 2) - 2 = i
    BY <1>1
  <2>2. t[i + 2] = u[i]
    BY <1>2, <2>1
  <2> QED
    BY <1>4, <2>1, <2>2 DEF Range
<1>7. S \subseteq Range(t)
  BY <1>1, <1>5, <1>6 DEF Range
<1> QED
  BY <1>4, <1>7 DEF t

\* The topmost call showed what it had to, has the rest still to show or has returned,
\* and those below it are as they were.
LEMMA GoesOn ==
  ASSUME FrameInv, ClientInv, NEW c \in Clients, stack[c] # <<>>, Progress(c),
         call' = call, NEW S, NEW rest, Left(call[c], Top(c)) = S \cup rest,
         shown'[c] \cup Missed(c)' = shown[c] \cup Missed(c) \cup S,
         \/ \E g : Continue(c, g) /\ FrameOK(call[c], g) /\ Left(call[c], g) = rest
         \/ Return(c, TRUE) /\ rest = {}
  PROVE  Progress(c)' /\ at'[c] # "waiting"
<1> DEFINE k == call[c]
           u == Tail(stack[c])
<1>1. /\ IsSeq(stack[c]) /\ c \in DOMAIN stack /\ c \in DOMAIN at /\ c \in DOMAIN ok
      /\ IsSeq(u) /\ Len(u) = Len(stack[c]) - 1
  BY Cut DEF FrameInv, ClientInv
<1>2. /\ \A f \in Range(u) : FrameOK(k, f)
      /\ shown[c] \cup Missed(c) \cup (S \cup rest) \cup LeftBy(k, u) = Covered(k)
  <2>1. Range(u) \subseteq Range(stack[c])
    BY <1>1, Cut
  <2>2. LeftBy(k, stack[c]) = (S \cup rest) \cup LeftBy(k, u)
    BY <1>1, LeftBySplit DEF Top
  <2>3. /\ \A f \in Range(stack[c]) : FrameOK(k, f)
        /\ shown[c] \cup Missed(c) \cup LeftBy(k, stack[c]) = Covered(k)
    BY DEF Progress
  <2> HIDE DEF u, k
  <2> QED
    BY <2>1, <2>2, <2>3
<1>3. CASE \E g : Continue(c, g) /\ FrameOK(k, g) /\ Left(k, g) = rest
  <2>1. PICK g : Continue(c, g) /\ FrameOK(k, g) /\ Left(k, g) = rest
    BY <1>3
  <2>2. at'[c] = "running" /\ stack'[c] = <<g>> \o u
    BY <1>1, <2>1 DEF Continue
  <2>3. Range(<<g>> \o u) = {g} \cup Range(u)
    BY <1>1, HeadReplaced
  <2>4. LeftBy(k, stack'[c]) = rest \cup LeftBy(k, u)
    BY <2>1, <2>2, <2>3 DEF LeftBy
  <2>5. \A f \in Range(stack'[c]) : FrameOK(k, f)
    BY <1>2, <2>1, <2>2, <2>3
  <2>6. shown'[c] \cup Missed(c)' \cup LeftBy(k, stack'[c]) = Covered(k)
    BY <1>2, <2>4
  <2> QED
    BY <2>2, <2>5, <2>6 DEF Progress
<1>4. CASE Return(c, TRUE) /\ rest = {}
  <2>1. ok'[c] = TRUE
    BY <1>1, <1>4 DEF Return
  <2>2. at'[c] \in {"running", "returned"} /\ Range(stack'[c]) = Range(u)
    <3>1. CASE Len(stack[c]) = 1
      <4>1. at'[c] = "returned" /\ stack'[c] = <<>>
        BY <1>1, <1>4, <3>1 DEF Return
      <4>2. u = <<>>
        <5> HIDE DEF u
        <5>1. ~(Len(u) >= 1)
          BY <1>1, <3>1
        <5> QED
          BY <1>1, <5>1, SeqRange
      <4> QED
        BY <4>1, <4>2
    <3>2. CASE Len(stack[c]) # 1
      <4>1. at'[c] = "running" /\ stack'[c] = [u EXCEPT ![1].ok = TRUE]
        BY <1>1, <1>4, <3>2 DEF Return
      <4>2. 1 \in 1 .. Len(u) /\ DOMAIN u = 1 .. Len(u)
        <5> HIDE DEF u
        <5>1. \A m \in Nat : m >= 1 /\ m # 1 => 1 \in 1 .. m - 1
          OBVIOUS
        <5>2. Len(stack[c]) \in Nat /\ Len(stack[c]) >= 1
          BY <1>1, SeqRange
        <5> QED
          BY <1>1, <3>2, <5>1, <5>2, SeqRange
      <4>3. IsFrame(u[1]) /\ u[1].ok = TRUE
        BY <1>1, <1>2, <4>2, SeqRange DEF FrameOK
      <4>4. [u[1] EXCEPT !.ok = TRUE] = u[1]
        <5>1. [u[1] EXCEPT !.ok = TRUE] =
                [x \in {"name", "property", "list", "step", "num", "ids", "i", "j", "ok"} |->
                   IF x = "ok" THEN TRUE ELSE u[1][x]]
          BY <4>3 DEF IsFrame
        <5> QED
          BY <4>3, <5>1 DEF IsFrame
      <4> HIDE DEF u
      <4>5. [u EXCEPT ![1].ok = TRUE] =
              [i \in 1 .. Len(u) |-> IF i = 1 THEN [u[1] EXCEPT !.ok = TRUE] ELSE u[i]]
        BY <4>2
      <4>6. u = [i \in 1 .. Len(u) |-> u[i]]
        BY <1>1, <4>2 DEF IsSeq
      <4>7. [u EXCEPT ![1].ok = TRUE] = u
        BY <4>4, <4>5, <4>6
      <4> QED
        BY <4>1, <4>7
    <3> QED
      BY <3>1, <3>2
  <2>3. LeftBy(k, stack'[c]) = LeftBy(k, u)
    BY <2>2 DEF LeftBy
  <2>4. shown'[c] \cup Missed(c)' \cup LeftBy(k, stack'[c]) = Covered(k)
    BY <1>2, <1>4, <2>3
  <2>5. \A f \in Range(stack'[c]) : FrameOK(k, f)
    BY <1>2, <2>2
  <2> HIDE DEF u
  <2> QED
    BY <2>1, <2>2, <2>4, <2>5 DEF Progress
<1> QED
  BY <1>3, <1>4

-----------------------------------------------------------------------------
(* The steps of a client that reads.                                       *)

\* What is to show for client c after a step.
ReadsOn(c) == Reading(c) /\ at[c] # "idle" => Progress(c) /\ WaitsForTop(c)

\* In a call, with its topmost frame.
LEMMA InRead ==
  ASSUME ClientInv, FrameInv, ReadInv, NEW c \in Clients, at[c] \in {"running", "waiting"},
         Reading(c)
  PROVE  /\ Progress(c) /\ WaitsForTop(c) /\ stack[c] # <<>> /\ IsSeq(stack[c])
         /\ FrameOK(call[c], Top(c))
<1>1. Progress(c) /\ WaitsForTop(c) /\ stack[c] # <<>> /\ IsSeq(stack[c])
  BY DEF ReadInv, FrameInv
<1> QED
  BY <1>1, Cut DEF Progress, Top

\* A read starts with everything left to show.
LEMMA CallReads ==
  ASSUME ClientInv, FrameInv, ReadInv, NEW c \in Clients, NEW k \in Calls, Call(c, k)
  PROVE  ReadsOn(c)'
<1>1. call'[c] = k /\ shown'[c] = {} /\ unmet'[c] = {} /\ k.name \in Names
  BY ProviderAssumption DEF Call, ClientInv, ReadInv
<1>2. SUFFICES ASSUME IsRead(k)
               PROVE  Progress(c)' /\ WaitsForTop(c)'
  BY <1>1 DEF ReadsOn, Reading
<1>3. at'[c] = "running" /\ stack'[c] = <<Frame(k.name, k.property)>>
  BY <1>2 DEF Call, ClientInv, FrameInv, IsRead
<1>8. Missed(c)' = {}
  BY <1>1 DEF Missed
<1> DEFINE f == Frame(k.name, k.property)
<1>4. FrameOK(k, f) /\ Left(k, f) = Covered(k)
  BY <1>1, <1>2, FrameStarts, CoveredAtFirst DEF IsRead
<1> HIDE DEF f
<1>5. Range(<<f>>) = {f}
  BY DEF Range
<1>6. LeftBy(k, <<f>>) = Covered(k)
  BY <1>4, <1>5 DEF LeftBy
<1>7. stack'[c] = <<f>>
  BY <1>3 DEF f
<1> QED
  BY <1>1, <1>3, <1>4, <1>5, <1>6, <1>7, <1>8 DEF Progress, WaitsForTop

\* The request of the topmost frame is under way.
LEMMA AskReads ==
  ASSUME ClientInv, FrameInv, ReadInv, NEW c \in Clients, Ask(c)
  PROVE  ReadsOn(c)'
<1> DEFINE q == Target(Top(c))
<1>1. /\ at[c] = "running" /\ at'[c] = "waiting" /\ Top(c).step # "children"
      /\ asked'[c].op = call[c].op /\ asked'[c].name = q.name /\ asked'[c].property = q.property
      /\ UNCHANGED <<stack, call, ok, shown, unmet>>
  BY DEF Ask, ClientInv
<1>2. SUFFICES ASSUME Reading(c) PROVE Progress(c)' /\ WaitsForTop(c)'
  BY <1>1 DEF ReadsOn, Reading, Undescribed
<1>3. Progress(c)
  BY <1>1, <1>2, InRead
<1>4. Progress(c)'
  BY <1>1, <1>3 DEF Progress, Missed
<1>5. WaitsForTop(c)'
  BY <1>1, <1>2 DEF WaitsForTop, Reading, IsRead, Top
<1> QED
  BY <1>4, <1>5

\* A read of what is in the database meets no missing object.
LEMMA NoQueryReads ==
  ASSUME DataAgrees, ClientInv, FrameInv, ReadInv, NEW c \in Clients, NoQuery(c) \/ Crash(c)
  PROVE  ReadsOn(c)'
<1>1. at[c] = "running" /\ UNCHANGED <<call, unmet>>
  BY DEF NoQuery, Crash
<1>2. SUFFICES ASSUME Reading(c) PROVE FALSE
  BY <1>1 DEF ReadsOn, Reading, Undescribed
<1>3. FrameOK(call[c], Top(c)) /\ call[c].op = "get"
  BY <1>1, <1>2, InRead DEF Reading, IsRead
<1>4. Top(c).step \in {"count", "ids", "item", "children"}
  BY <1>3 DEF FrameOK
<1> QED
  BY <1>3, <1>4, FrameAt DEF NoQuery, Crash, Refused

\* The loop over the items goes on, when what was left of an item was shown.
LEMMA NextItemReads ==
  ASSUME DataAgrees, ClientInv, FrameInv, ReadInv, NEW c \in Clients,
         at[c] \in {"running", "waiting"}, Reading(c), call' = call,
         Top(c).step \in {"item", "children"}, NextItem(c, Top(c)),
         NEW S, Left(call[c], Top(c)) = S \cup Shows(Beyond(call[c], Top(c))),
         shown'[c] \cup Missed(c)' = shown[c] \cup Missed(c) \cup S
  PROVE  Progress(c)' /\ at'[c] # "waiting"
<1> DEFINE f == Top(c)
           k == call[c]
           rest == Shows(Beyond(k, f))
<1>1. Progress(c) /\ stack[c] # <<>> /\ FrameOK(k, f)
  BY InRead
<1>2. \/ \E g : Continue(c, g) /\ FrameOK(k, g) /\ Left(k, g) = rest
      \/ Return(c, TRUE) /\ rest = {}
  <2>1. CASE f.list /\ f.i < f.num
    BY <1>1, <2>1, NextFrame DEF NextItem
  <2>2. CASE ~(f.list /\ f.i < f.num)
    <3>1. Beyond(k, f) = {}
      BY <1>1, <2>2, NextFrame
    <3>2. rest = {}
      BY <3>1, ShowsBoth
    <3>3. f.ok = TRUE
      BY <1>1 DEF FrameOK
    <3> QED
      BY <2>2, <3>2, <3>3 DEF NextItem
  <2> QED
    BY <2>1, <2>2
<1> HIDE DEF rest
<1> QED
  BY <1>1, <1>2, GoesOn DEF rest

\* A child is read, or the children are done.
LEMMA ChildReads ==
  ASSUME DataAgrees, ClientInv, FrameInv, ReadInv, NEW c \in Clients, Child(c)
  PROVE  ReadsOn(c)'
<1> DEFINE f == Top(c)
           k == call[c]
           below == Children(ObjectOf(At(f)))
           h == Frame(Append(At(f), Last1(below[f.j])), All)
           g == [f EXCEPT !.j = @ + 1]
           u == Tail(stack[c])
<1>1. /\ at[c] = "running" /\ f.step = "children" /\ UNCHANGED <<call, shown, unmet, asked>>
      /\ IF f.j > Len(below) THEN NextItem(c, f)
         ELSE stack' = [stack EXCEPT ![c] = <<h, g>> \o u] /\ UNCHANGED <<at, ok>>
  BY DEF Child
<1>2. SUFFICES ASSUME Reading(c) PROVE Progress(c)' /\ at'[c] # "waiting"
  BY <1>1 DEF ReadsOn, Reading, Undescribed, WaitsForTop
<1>3. Progress(c) /\ stack[c] # <<>> /\ IsSeq(stack[c]) /\ FrameOK(k, f)
  BY <1>1, <1>2, InRead
<1>6. Missed(c)' = Missed(c)
  BY <1>1 DEF Missed
<1>4. CASE f.j > Len(below)
  <2>1. Left(k, f) = {} \cup Shows(Beyond(k, f))
    BY <1>1, <1>3, <1>4, ChildStep
  <2>2. NextItem(c, f) /\ shown'[c] \cup Missed(c)' = shown[c] \cup Missed(c) \cup {}
    BY <1>1, <1>4, <1>6
  <2> QED
    BY <1>1, <1>2, <2>1, <2>2, NextItemReads
<1>5. CASE ~(f.j > Len(below))
  <2>1. FrameOK(k, h) /\ FrameOK(k, g) /\ Left(k, f) = Left(k, h) \cup Left(k, g)
    BY <1>1, <1>3, <1>5, ChildStep
  <2>2. stack' = [stack EXCEPT ![c] = <<h, g>> \o u] /\ UNCHANGED <<at, ok>>
    BY <1>1, <1>5
  <2> HIDE DEF h, g, u
  <2>3. stack'[c] = <<h, g>> \o u /\ at'[c] = "running"
    BY <1>1, <2>2 DEF FrameInv
  <2>4. IsSeq(u) /\ Range(u) \subseteq Range(stack[c])
        /\ LeftBy(k, stack[c]) = Left(k, f) \cup LeftBy(k, u)
    <3>1. IsSeq(u) /\ Range(u) \subseteq Range(stack[c])
      BY <1>3, Cut DEF u
    <3>2. LeftBy(k, stack[c]) = Left(k, f) \cup LeftBy(k, u)
      BY <1>3, LeftBySplit DEF u, Top
    <3> QED
      BY <3>1, <3>2
  <2>5. Range(<<h, g>> \o u) = {h, g} \cup Range(u)
    BY <2>4, TwoOnTop
  <2>6. LeftBy(k, stack'[c]) = LeftBy(k, stack[c])
    BY <2>1, <2>3, <2>4, <2>5 DEF LeftBy
  <2>7. \A x \in Range(stack'[c]) : FrameOK(k, x)
    BY <1>3, <2>1, <2>3, <2>4, <2>5 DEF Progress
  <2> QED
    BY <1>1, <1>3, <1>6, <2>3, <2>6, <2>7 DEF Progress
<1> QED
  BY <1>4, <1>5

\* What the unmet queries come to.
LEMMA UnmetIs ==
  ASSUME ReadInv, NEW c \in Clients, NEW entries, Result(c, entries)
  PROVE  /\ entries # <<>> => unmet'[c] = unmet[c] /\ Missed(c)' = Missed(c)
                              /\ Undescribed(c)' = Undescribed(c)
         /\ entries = <<>> =>
              LET f == Top(c)
              IN  /\ unmet'[c] = unmet[c] \cup {Unmet(f)}
                  /\ Missed(c)' = Missed(c) \cup Asks(Target(f).name, Target(f).property)
                  /\ Undescribed(c)' <=> Undescribed(c) \/ f.step # "item"
<1> DEFINE u == Unmet(Top(c))
<1>1. unmet'[c] = IF entries = <<>> THEN unmet[c] \cup {u} ELSE unmet[c]
  BY DEF Result, ReadInv
<1>2. u.name = Target(Top(c)).name /\ u.property = Target(Top(c)).property
      /\ (u.describes <=> Top(c).step # "item")
  BY DEF Unmet
<1> HIDE DEF u
<1>3. CASE entries # <<>>
  BY <1>1, <1>3 DEF Missed, Undescribed
<1>4. CASE entries = <<>>
  <2>1. unmet'[c] = unmet[c] \cup {u}
    BY <1>1, <1>4
  <2>2. Missed(c)' = Missed(c) \cup Asks(u.name, u.property)
    BY <2>1 DEF Missed
  <2>3. Undescribed(c)' <=> Undescribed(c) \/ u.describes
    BY <2>1 DEF Undescribed
  <2> QED
    BY <1>2, <1>4, <2>1, <2>2, <2>3 DEF u
<1> QED
  BY <1>3, <1>4

\* An answer has what the topmost frame asked for, or it asked in vain.
LEMMA ResultReads ==
  ASSUME DataAgrees, ClientInv, FrameInv, ReadInv, NEW c \in Clients, at[c] = "waiting",
         NEW entries, Result(c, entries), call' = call,
         asked[c].op = "get" /\ entries # <<>> => Gives(asked[c], entries)
  PROVE  ReadsOn(c)'
<1> DEFINE f == Top(c)
           k == call[c]
           r == asked[c]
<1>2. SUFFICES ASSUME Reading(c), entries = <<>> => f.step = "item"
               PROVE  Progress(c)' /\ at'[c] # "waiting"
  BY UnmetIs DEF ReadsOn, Reading, WaitsForTop
<1>3. Progress(c) /\ stack[c] # <<>> /\ FrameOK(k, f)
      /\ r.op = "get" /\ r.name = Target(f).name /\ r.property = Target(f).property
  BY <1>2, InRead DEF WaitsForTop
<1>4. entries # <<>> => Gives(r, entries)
  BY <1>3
<1>11. f.step # "item" => Missed(c)' = Missed(c)
  BY <1>2, UnmetIs
<1>5. f.name \in Names /\ (f.list => IsWholeList(f.name))
  BY <1>3 DEF FrameOK
<1>6. CASE f.step = "count"
  <2>1. f.list /\ r.name = Front(f.name) /\ r.property = CountOf[Last1(f.name)]
    BY <1>3, <1>6, FrameAt
  <2>2. Front(f.name) \in Instances /\ ValueOf(entries, r.property, 0, 0) = NumIn(f.name)
    <3>1. /\ Front(f.name) \in Instances
          /\ ValueOf(entries, r.property, 0, 0) = FirstValues[Front(f.name)][r.property]
      <4>1. Gives(r, entries) /\ f.name \in Names /\ IsWholeList(f.name)
        BY <1>2, <1>4, <1>5, <1>6, <2>1
      <4>2. r.property \in {CountOf[Last1(f.name)], IdsOf[Last1(f.name)]}
        BY <2>1
      <4> HIDE DEF f, r
      <4> QED
        BY <2>1, <4>1, <4>2, ListAnswered
    <3> QED
      BY <2>1, <3>1 DEF NumIn
  <2> DEFINE g == [f EXCEPT !.num = NumIn(f.name), !.step = "ids"]
  <2>3. Continue(c, g) /\ shown' = shown
    BY <1>3, <1>6, <2>2 DEF Result
  <2>4. FrameOK(k, g) /\ Left(k, g) = Left(k, f)
    BY <1>3, <1>6, <2>2, CountStep
  <2> HIDE DEF g
  <2>5. Left(k, f) = {} \cup Left(k, f)
        /\ shown'[c] \cup Missed(c)' = shown[c] \cup Missed(c) \cup {}
    BY <1>6, <1>11, <2>3
  <2> QED
    BY <1>3, <2>3, <2>4, <2>5, GoesOn
<1>7. CASE f.step = "ids"
  <2>1. f.list /\ r.name = Front(f.name) /\ r.property = IdsOf[Last1(f.name)]
    BY <1>3, <1>7, FrameAt
  <2>2. Front(f.name) \in Instances /\ ValueOf(entries, r.property, <<"0">>, <<>>) = IdsIn(f.name)
    <3>1. /\ Front(f.name) \in Instances
          /\ ValueOf(entries, r.property, <<"0">>, <<>>) = FirstValues[Front(f.name)][r.property]
      <4>1. Gives(r, entries) /\ f.name \in Names /\ IsWholeList(f.name)
        BY <1>2, <1>4, <1>5, <1>7, <2>1
      <4>2. r.property \in {CountOf[Last1(f.name)], IdsOf[Last1(f.name)]}
        BY <2>1
      <4> HIDE DEF f, r
      <4> QED
        BY <2>1, <4>1, <4>2, ListAnswered
    <3> QED
      BY <2>1, <3>1 DEF IdsIn
  <2>3. Ids(IdsIn(f.name)) = IdsIn(f.name)
    BY <1>5, <2>1, <2>2, ListIs DEF Ids
  <2>4. WithIds(c, f, IdsIn(f.name)) /\ shown' = shown
    BY <1>3, <1>7, <2>2, <2>3 DEF Result
  <2> DEFINE g == [f EXCEPT !.ids = IdsIn(f.name), !.step = "item"]
  <2>5. Len(IdsIn(f.name)) = f.num /\ FrameOK(k, g) /\ Left(k, g) = Left(k, f)
    BY <1>3, <1>7, IdsStep
  <2>6. Continue(c, g)
    BY <2>4, <2>5 DEF WithIds
  <2> HIDE DEF g
  <2>7. Left(k, f) = {} \cup Left(k, f)
        /\ shown'[c] \cup Missed(c)' = shown[c] \cup Missed(c) \cup {}
    BY <1>7, <1>11, <2>4
  <2> QED
    BY <1>3, <2>5, <2>6, <2>7, GoesOn
<1>8. CASE f.step = "children"
  BY <1>2, <1>8, InRead DEF WaitsForTop
<1>9. CASE f.step = "item"
  <2> DEFINE T == {[name |-> Target(f).name, property |-> entries[i].property] :
                     i \in DOMAIN entries}
  <2>1. /\ r.name = At(f) /\ r.property = f.property /\ ObjectOf(r.name) # NoObject
        /\ Target(f).name = At(f) /\ Target(f).property = f.property
    BY <1>3, <1>9, FrameAt
  <2>2. /\ shown' = [shown EXCEPT ![c] = @ \cup T]
        /\ Queried(c, f)
    BY <1>2, <1>9 DEF Result, Reading, IsRead
  <2>3. shown'[c] \cup Missed(c)' = shown[c] \cup Missed(c) \cup Shown(f)
    <3>1. shown'[c] = shown[c] \cup T
      BY <2>2 DEF ReadInv
    <3>2. CASE entries = <<>>
      <4>1. T = {}
        BY <3>2
      <4>2. Missed(c)' = Missed(c) \cup Shown(f)
        BY <2>1, <3>2, UnmetIs DEF Shown
      <4> HIDE DEF T
      <4> QED
        BY <3>1, <4>1, <4>2
    <3>3. CASE entries # <<>>
      <4>1. T = Asks(r.name, r.property)
        BY <1>3, <1>4, <2>1, <3>3, AnswerShows
      <4>2. T = Shown(f)
        BY <2>1, <4>1 DEF Shown
      <4>3. Missed(c)' = Missed(c)
        BY <3>3, UnmetIs
      <4> HIDE DEF T
      <4> QED
        BY <3>1, <4>2, <4>3
    <3> QED
      BY <3>2, <3>3
  <2>4. CASE k.recursive
    <3> DEFINE g == [f EXCEPT !.step = "children", !.j = 1]
    <3>1. FrameOK(k, g) /\ Left(k, f) = Shown(f) \cup Left(k, g)
      BY <1>3, <1>9, <2>4, ItemStep
    <3>2. Continue(c, g)
      BY <2>2, <2>4 DEF Queried
    <3> HIDE DEF g
    <3> QED
      BY <1>3, <2>3, <3>1, <3>2, GoesOn
  <2>5. CASE ~k.recursive
    <3>1. Left(k, f) = Shown(f) \cup Shows(Beyond(k, f))
      BY <1>3, <1>9, <2>5, ItemStep
    <3>2. NextItem(c, f)
      BY <2>2, <2>5 DEF Queried
    <3> QED
      BY <1>2, <1>9, <2>3, <3>1, <3>2, NextItemReads
  <2> QED
    BY <2>4, <2>5
<1>10. f.step \in {"count", "ids", "item", "children"}
  BY <1>3 DEF FrameOK
<1> QED
  BY <1>6, <1>7, <1>8, <1>9, <1>10

\* What is to be told of client c after a step.
ToldOn(c) == IsRead(call[c]) /\ Undescribed(c) /\ at[c] # "idle" => Told(c)

\* An answer that describes no list is told of, or leaves that to the ids.
LEMMA ResultTells ==
  ASSUME DataAgrees, ClientInv, FrameInv, ReadInv, NEW c \in Clients, at[c] = "waiting",
         NEW entries, Result(c, entries), call' = call,
         asked[c].op = "get" /\ entries # <<>> => Gives(asked[c], entries)
  PROVE  ToldOn(c)'
<1> DEFINE f == Top(c)
           r == asked[c]
<1>1. SUFFICES ASSUME IsRead(call[c]), Undescribed(c)' PROVE Told(c)'
  BY DEF ToldOn
<1>2. errors[c] \in {0, 1} /\ errors'[c] \in {0, 1} /\ errors'[c] >= errors[c]
      /\ (errors' = [errors EXCEPT ![c] = 1] => errors'[c] > 0)
  <2>1. errors' = errors \/ errors' = [errors EXCEPT ![c] = 1]
    BY DEF Result, WithIds
  <2> QED
    BY <2>1 DEF ClientInv
<1>3. unmet[c] \subseteq unmet'[c] /\ (entries = <<>> => Unmet(f) \in unmet'[c])
  BY UnmetIs
<1>4. ASSUME f.step = "ids", NEW v, v = ValueOf(entries, Target(f).property, <<"0">>, <<>>),
             Len(Ids(v)) # f.num
      PROVE  Told(c)'
  <2>1. WithIds(c, f, Ids(v))
    BY <1>4 DEF Result
  <2> QED
    BY <1>2, <1>4, <2>1 DEF WithIds, Told
<1>5. ASSUME f.step = "ids", entries = <<>>
      PROVE  \E v : v = ValueOf(entries, Target(f).property, <<"0">>, <<>>) /\ Len(Ids(v)) = 1
  <2>1. ValueOf(<<>>, Target(f).property, <<"0">>, <<>>) = <<"0">>
    <3> DEFINE fits == {i \in DOMAIN <<>> : <<>>[i].property = Target(f).property}
    <3>1. fits = {}
      OBVIOUS
    <3> HIDE DEF fits
    <3>2. ValueOf(<<>>, Target(f).property, <<"0">>, <<>>) =
            CASE fits = {} -> <<"0">>
              [] fits # {} /\ <<>>[Max(fits)].fine -> <<>>[Max(fits)].value
              [] OTHER -> <<>>
      BY Zenon DEF ValueOf, fits
    <3> QED
      BY <3>1, <3>2
  <2>2. Ids(<<"0">>) = <<"0">>
    BY DEF Ids
  <2> QED
    BY <1>5, <2>1, <2>2
<1>6. CASE Undescribed(c)
  <2>1. Told(c)
    BY <1>1, <1>6 DEF ReadInv
  <2>2. CASE errors[c] > 0
    BY <1>2, <2>2 DEF Told
  <2>3. CASE \E u \in unmet[c] : u.describes /\ u.num = 1
    BY <1>3, <2>3 DEF Told
  <2>4. CASE LostNumber(c)
    <3>1. /\ f.step = "ids" /\ f.num = 0 /\ f.list /\ f.name \in Names /\ IsWholeList(f.name)
          /\ r.op = "get" /\ r.name = Target(f).name /\ r.property = Target(f).property
      BY <2>4 DEF LostNumber, WaitsForTop
    <3>2. CASE entries = <<>>
      <4>1. PICK v : v = ValueOf(entries, Target(f).property, <<"0">>, <<>>) /\ Len(Ids(v)) = 1
        BY <1>5, <3>1, <3>2
      <4>2. Len(Ids(v)) # f.num
        <5>1. Len(Ids(v)) = 1
          BY <4>1
        <5>2. f.num = 0
          BY <3>1
        <5> QED
          BY <5>1, <5>2
      <4> QED
        BY <1>4, <3>1, <4>1, <4>2
    <3>3. CASE entries # <<>>
      <4>1. Gives(r, entries)
        BY <3>1, <3>3
      <4>2. r.name = Front(f.name) /\ r.property = IdsOf[Last1(f.name)]
        BY <3>1 DEF Target
      <4>3. /\ Front(f.name) \in Instances
            /\ ValueOf(entries, r.property, <<"0">>, <<>>) = IdsIn(f.name)
        <5>1. /\ Front(f.name) \in Instances
              /\ ValueOf(entries, r.property, <<"0">>, <<>>) =
                   FirstValues[Front(f.name)][r.property]
          <6>1. r.property \in {CountOf[Last1(f.name)], IdsOf[Last1(f.name)]}
            BY <4>2
          <6>2. f.name \in Names /\ IsWholeList(f.name)
            BY <3>1
          <6> HIDE DEF f, r
          <6> QED
            BY <4>1, <4>2, <6>1, <6>2, ListAnswered
        <5> QED
          BY <4>2, <5>1 DEF IdsIn
      <4>4. Len(IdsIn(f.name)) # 0 /\ Ids(IdsIn(f.name)) = IdsIn(f.name)
        BY <3>1, <4>3, ListIs DEF Ids
      <4> QED
        BY <1>4, <3>1, <4>3, <4>4
    <3> QED
      BY <3>2, <3>3
  <2> QED
    BY <2>1, <2>2, <2>3, <2>4 DEF Told
<1>7. CASE ~Undescribed(c)
  <2>1. entries = <<>> /\ f.step # "item"
    BY <1>1, <1>7, UnmetIs
  <2>2. FrameOK(call[c], f) /\ f.step # "children" /\ stack[c] # <<>>
    BY <1>1, <1>7, InRead DEF Reading, WaitsForTop
  <2>3. f.list /\ f.name \in Names /\ IsWholeList(f.name) /\ IsFrame(f)
        /\ f.step \in {"count", "ids"}
    BY <2>1, <2>2 DEF FrameOK
  <2>4. CASE f.step = "count"
    <3>1. ValueOf(<<>>, Target(f).property, 0, 0) = 0
      <4> DEFINE fits == {i \in DOMAIN <<>> : <<>>[i].property = Target(f).property}
      <4>1. fits = {}
        OBVIOUS
      <4> HIDE DEF fits
      <4>2. ValueOf(<<>>, Target(f).property, 0, 0) =
              CASE fits = {} -> 0
                [] fits # {} /\ <<>>[Max(fits)].fine -> <<>>[Max(fits)].value
                [] OTHER -> 0
        BY Zenon DEF ValueOf, fits
      <4> QED
        BY <4>1, <4>2
    <3> DEFINE g == [f EXCEPT !.num = 0, !.step = "ids"]
    <3>2. Continue(c, g)
      BY <2>1, <2>4, <3>1 DEF Result
    <3>3. g.name = f.name /\ g.list = f.list /\ g.step = "ids" /\ g.num = 0
      <4>1. g = [z \in {"name", "property", "list", "step", "num", "ids", "i", "j", "ok"} |->
                   IF z = "step" THEN "ids" ELSE IF z = "num" THEN 0 ELSE f[z]]
        BY <2>3 DEF IsFrame
      <4> QED
        BY <4>1
    <3> HIDE DEF g
    <3>4. at'[c] = "running" /\ stack'[c] = <<g>> \o Tail(stack[c])
      BY <3>2 DEF Continue, ClientInv, FrameInv
    <3>5. Top(c)' = g
      <4>1. IsSeq(stack[c])
        BY DEF FrameInv
      <4>2. IsSeq(Tail(stack[c]))
        BY <2>2, <4>1, Cut
      <4> DEFINE u == Tail(stack[c])
                 S == Range(u) \cup {g}
      <4>3. u \in Seq(Range(u)) /\ Range(u) \subseteq S /\ g \in S
        BY <4>2, SeqRange DEF IsSeq
      <4> HIDE DEF u, S
      <4>4. u \in Seq(S)
        BY <4>3
      <4>5. Head(<<g>> \o u) = g
        BY <4>3, <4>4
      <4> QED
        BY <3>4, <4>5 DEF Top, u
    <3>6. LostNumber(c)'
      BY <2>3, <3>3, <3>4, <3>5 DEF LostNumber, WaitsForTop
    <3> QED
      BY <3>6 DEF Told
  <2>5. CASE f.step = "ids"
    <3>1. Unmet(f).describes /\ Unmet(f).num = f.num /\ Unmet(f) \in unmet'[c]
      BY <1>3, <2>1, <2>5 DEF Unmet
    <3>2. CASE f.num = 1
      BY <3>1, <3>2 DEF Told
    <3>3. CASE f.num # 1
      BY <1>4, <1>5, <2>1, <2>5, <3>3
    <3> QED
      BY <3>2, <3>3
  <2> QED
    BY <2>3, <2>4, <2>5
<1> QED
  BY <1>6, <1>7

\* The other steps of a client.
LEMMA OtherStepsTell ==
  ASSUME ClientInv, FrameInv, ReadInv, NEW c \in Clients,
         \/ Ask(c) \/ NoQuery(c) \/ Child(c) \/ Crash(c) \/ Leave(c)
         \/ \E k \in Calls : Call(c, k)
  PROVE  ToldOn(c)'
<1>1. CASE \E k \in Calls : Call(c, k)
  <2>1. unmet'[c] = {}
    BY <1>1 DEF Call, ReadInv
  <2> QED
    BY <2>1 DEF ToldOn, Undescribed
<1>2. CASE Leave(c)
  BY <1>2 DEF Leave, ClientInv, ToldOn
<1>3. CASE NoQuery(c)
  <2>1. errors'[c] > 0
    <3>1. errors' = [errors EXCEPT ![c] = 1] /\ errors[c] \in {0, 1} /\ c \in DOMAIN errors
      BY <1>3 DEF NoQuery, ClientInv
    <3> QED
      BY <3>1
  <2> QED
    BY <2>1 DEF ToldOn, Told
<1>4. CASE Ask(c) \/ Child(c) \/ Crash(c)
  <2>1. UNCHANGED <<call, unmet, errors>> /\ at[c] = "running"
    BY <1>4 DEF Ask, Child, Crash
  <2>2. SUFFICES ASSUME IsRead(call[c]), Undescribed(c) PROVE Told(c)'
    BY <2>1 DEF ToldOn, Undescribed
  <2>3. Told(c)
    BY <2>1, <2>2 DEF ReadInv
  <2>4. LostNumber(c) => LostNumber(c)'
    <3>1. SUFFICES ASSUME LostNumber(c) PROVE LostNumber(c)'
      OBVIOUS
    <3>2. Top(c).step = "ids"
      BY <3>1 DEF LostNumber
    <3>3. Ask(c)
      BY <1>4, <3>2 DEF Child, Crash
    <3>4. /\ at'[c] = "waiting" /\ stack' = stack
          /\ asked'[c].op = call[c].op /\ asked'[c].name = Target(Top(c)).name
          /\ asked'[c].property = Target(Top(c)).property
      BY <3>3 DEF Ask, ClientInv
    <3> QED
      BY <2>2, <3>1, <3>4 DEF LostNumber, WaitsForTop, Top, IsRead
  <2> QED
    BY <2>1, <2>3, <2>4 DEF Told
<1> QED
  BY <1>1, <1>2, <1>3, <1>4

\* The step of a client leaves the others alone.
LEMMA OthersRead ==
  ASSUME ClientInv, FrameInv, ReadInv, NEW c \in Clients, Step(c) \/ \E k \in Calls : Call(c, k),
         ReadsOn(c)', ToldOn(c)'
  PROVE  ReadInv'
<1>1. \A d \in Clients :
        d # c => /\ at'[d] = at[d] /\ stack'[d] = stack[d] /\ call'[d] = call[d]
                 /\ asked'[d] = asked[d] /\ ok'[d] = ok[d] /\ shown'[d] = shown[d]
                 /\ unmet'[d] = unmet[d] /\ errors'[d] = errors[d]
  <2> DEFINE Same == \A d \in Clients :
                       d # c => at'[d] = at[d] /\ stack'[d] = stack[d] /\ ok'[d] = ok[d]
             Rest == \A d \in Clients :
                       d # c => /\ call'[d] = call[d] /\ asked'[d] = asked[d]
                                /\ shown'[d] = shown[d] /\ unmet'[d] = unmet[d]
                                /\ errors'[d] = errors[d]
  <2>1. ASSUME NEW f, Continue(c, f) PROVE Same
    BY <2>1 DEF Continue, ClientInv, FrameInv
  <2>2. ASSUME NEW b, Return(c, b) PROVE Same
    BY <2>2 DEF Return, ClientInv, FrameInv
  <2> HIDE DEF Same
  <2>3. ASSUME NEW f, NextItem(c, f) PROVE Same
    BY <2>1, <2>2, <2>3 DEF NextItem
  <2>4. ASSUME NEW f, Queried(c, f) PROVE Same
    BY <2>1, <2>3, <2>4 DEF Queried
  <2>5. ASSUME NEW entries, Result(c, entries), call' = call PROVE Same /\ Rest
    <3>1. Same
      BY <2>1, <2>2, <2>4, <2>5 DEF Result, WithIds
    <3>2. \/ shown' = shown
          \/ \E S : shown' = [shown EXCEPT ![c] = S]
      BY <2>5 DEF Result
    <3>3. \A d \in Clients : d # c => shown'[d] = shown[d]
      BY <3>2 DEF ReadInv
    <3>4. \A d \in Clients : d # c => asked'[d] = asked[d] /\ unmet'[d] = unmet[d]
      BY <2>5 DEF Result, ClientInv, ReadInv
    <3>5. \A d \in Clients : d # c => errors'[d] = errors[d]
      <4>1. errors' = errors \/ errors' = [errors EXCEPT ![c] = 1]
        BY <2>5 DEF Result, WithIds
      <4> QED
        BY <4>1 DEF ClientInv
    <3> QED
      BY <2>5, <3>1, <3>3, <3>4, <3>5
  <2>6. CASE Answered(c) \/ TimesOut(c)
    BY <2>5, <2>6 DEF Answered, TimesOut, Same
  <2>7. CASE Ask(c) \/ Crash(c) \/ Leave(c) \/ \E k \in Calls : Call(c, k)
    BY <2>7 DEF Ask, Crash, Leave, Call, ClientInv, FrameInv, ReadInv
  <2>8. CASE NoQuery(c)
    <3>1. Same
      BY <2>2, <2>4, <2>8 DEF NoQuery
    <3> QED
      BY <2>8, <3>1 DEF NoQuery, Same, ClientInv
  <2>9. CASE Child(c)
    <3>1. \/ NextItem(c, Top(c))
          \/ at' = at /\ ok' = ok /\ \E s : stack' = [stack EXCEPT ![c] = s]
      BY <2>9 DEF Child
    <3>2. Same
      BY <2>3, <3>1 DEF Same, FrameInv
    <3> QED
      BY <2>9, <3>2 DEF Child, Same
  <2> QED
    BY <2>6, <2>7, <2>8, <2>9 DEF Step
<1>2. DOMAIN shown' = Clients /\ DOMAIN unmet' = Clients
  BY DEF Step, Call, Ask, NoQuery, Answered, TimesOut, Child, Crash, Leave, Result, ReadInv
<1>3. ASSUME NEW d \in Clients, d # c PROVE ReadsOn(d)' /\ ToldOn(d)'
  <2>1. ReadsOn(d) /\ ToldOn(d)
    BY DEF ReadInv, ReadsOn, ToldOn
  <2>2. Missed(d)' = Missed(d) /\ (Undescribed(d)' <=> Undescribed(d)) /\ Top(d)' = Top(d)
    BY <1>1, <1>3 DEF Missed, Undescribed, Top
  <2>3. ReadsOn(d)'
    BY <1>1, <1>3, <2>1, <2>2 DEF ReadsOn, Reading, Progress, WaitsForTop
  <2>4. ToldOn(d)'
    BY <1>1, <1>3, <2>1, <2>2 DEF ToldOn, Told, LostNumber, WaitsForTop
  <2> QED
    BY <2>3, <2>4
<1>4. ASSUME NEW d \in Clients PROVE ReadsOn(d)' /\ ToldOn(d)'
  BY <1>3
<1> QED
  BY <1>2, <1>4 DEF ReadInv, ReadsOn, ToldOn

\* The invariant of the reads.
LEMMA ReadKept ==
  ASSUME DataAgrees, ClientInv, FrameInv, ReadInv, ReplyInv, GivesInv, [Next]_vars
  PROVE  ReadInv'
<1>1. ASSUME UNCHANGED clientVars PROVE ReadInv'
  BY <1>1 DEF clientVars, ReadInv, Reading, Progress, WaitsForTop, Top, Missed, Undescribed,
       Told, LostNumber
<1>2. ASSUME NEW c \in Clients, Step(c) \/ \E k \in Calls : Call(c, k) PROVE ReadInv'
  <2>1. ReadsOn(c)' /\ ToldOn(c)'
    <3>1. CASE \E k \in Calls : Call(c, k)
      BY <3>1, CallReads, OtherStepsTell
    <3>2. CASE Ask(c)
      BY <3>2, AskReads, OtherStepsTell
    <3>3. CASE NoQuery(c) \/ Crash(c)
      BY <3>3, NoQueryReads, OtherStepsTell
    <3>4. CASE Child(c)
      BY <3>4, ChildReads, OtherStepsTell
    <3>5. CASE Answered(c)
      <4>1. PICK p \in replies : p.to = asked[c] /\ Result(c, p.entries) /\ call' = call
        BY <3>5 DEF Answered
      <4>2. at[c] = "waiting"
        <5>1. p.to # NoRequest
          BY DEF ReplyInv, NoRequest
        <5> QED
          BY <4>1, <5>1 DEF ClientInv
      <4>3. asked[c].op = "get" /\ p.entries # <<>> => Gives(asked[c], p.entries)
        BY <4>1 DEF GivesInv
      <4> QED
        BY <4>1, <4>2, <4>3, ResultReads, ResultTells
    <3>6. CASE TimesOut(c)
      <4>1. at[c] = "waiting" /\ Result(c, <<>>) /\ call' = call
        BY <3>6 DEF TimesOut
      <4> QED
        BY <4>1, ResultReads, ResultTells
    <3>7. CASE Leave(c)
      <4>1. at'[c] = "idle"
        BY <3>7 DEF Leave, ClientInv
      <4> QED
        BY <3>7, <4>1, OtherStepsTell DEF ReadsOn
    <3> QED
      BY <1>2, <3>1, <3>2, <3>3, <3>4, <3>5, <3>6, <3>7 DEF Step
  <2> QED
    BY <1>2, <2>1, OthersRead
<1>3. CASE Next
  <2>1. CASE Host
    BY <1>1, <2>1 DEF Host, AddListener, NotRegistered, InsertStarts, InsertEnds, Subscribed,
         Take, Handle
  <2>2. CASE \E r \in wire : Route(r)
    BY <1>1, <2>2 DEF Route
  <2>3. CASE \E c \in Clients : (\E k \in Calls : Call(c, k)) \/ Step(c)
    BY <1>2, <2>3
  <2> QED
    BY <1>3, <2>1, <2>2, <2>3 DEF Next
<1>4. CASE UNCHANGED vars
  BY <1>1, <1>4 DEF vars
<1> QED
  BY <1>3, <1>4

\* A read whose lists were described returns true and has shown exactly what it covers,
\* but for what its own queries asked for in vain, for any names, any registered instances
\* and any call, recursive or not; and where a list could not be described, the notifier
\* was told, unless the list has one item: dmClientImpl::runGet over the tree of
\* buildProviderTree.  It holds where what describes a list agrees with what is
\* registered below it (DataAgrees).
THEOREM ReadsAreTruthful ==
  ASSUME DataAgrees
  PROVE  Spec => []ReadsTellTruth
<1> DEFINE Inv == ProviderIInv /\ ValuesInv /\ GivesInv /\ ReadInv
<1>1. Init => ValuesInv /\ GivesInv /\ ReadInv
  BY DEF Init, ValuesInv, Keeps, GivesInv, ReadInv, Instances
<1>2. ProviderIInv /\ ValuesInv /\ GivesInv /\ ReadInv /\ [Next]_vars
        => ValuesInv' /\ GivesInv' /\ ReadInv'
  <2> SUFFICES ASSUME ProviderIInv, ValuesInv, GivesInv, ReadInv, [Next]_vars
               PROVE  ValuesInv' /\ GivesInv' /\ ReadInv'
    OBVIOUS
  <2> QED
    BY ValuesKept, GivesKept, ReadKept DEF ProviderIInv
<1>3. ProviderIInv /\ ReadInv => ReadIsComplete
  <2> SUFFICES ASSUME ProviderIInv, ReadInv, NEW c \in Clients, at[c] = "returned", Reading(c)
               PROVE  ok[c] /\ shown[c] \cup Missed(c) = Covered(call[c])
    BY DEF ReadIsComplete, Reading
  <2>1. stack[c] = <<>> /\ Progress(c)
    BY DEF ProviderIInv, FrameInv, ReadInv
  <2> QED
    BY <2>1, LeftByNone DEF Progress
<1>7. ProviderIInv /\ ReadInv => LostListIsTold
  BY DEF LostListIsTold, ReadInv, Told, LostNumber
<1>4. Spec => [](ValuesInv /\ GivesInv /\ ReadInv)
  BY <1>1, <1>2, ProviderInvariant, PTL DEF Spec
<1>5. ProviderIInv => TypeOK /\ FailureIsTold
  BY SeqRange DEF ProviderIInv, RegistrationInv, ReplyInv, ClientInv, FrameInv, TypeOK
<1>6. ProviderIInv /\ ReadInv => ReadsTellTruth
  BY <1>3, <1>5, <1>7 DEF ReadsTellTruth
<1> QED
  BY <1>4, <1>6, ProviderInvariant, PTL
=============================================================================
