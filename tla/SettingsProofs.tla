--------------------------- MODULE SettingsProofs ---------------------------
(* Theorems about Settings, for any settings, values and bound. *)
EXTENDS Settings, SequenceTheorems, TLAPS

\* A setting of which the claim of Settled can be kept: the read it rests on is the
\* last message to the device, or its answer the last one back, or it is shown.
Truthful(x) ==
    x.fresh =>
        \/ x.toDevice # <<>> /\ x.toDevice[Len(x.toDevice)].op = "read"
        \/ x.toDevice = <<>> /\ x.back # <<>> /\ x.back[Len(x.back)] = x.actual
        \/ x.toDevice = <<>> /\ x.back = <<>> /\ x.shown = x.actual

\* On a connection whose recovery is done, the cache holds what is retained.
Honest(x) == ha = "up" /\ handled => x.last \in {None, x.shown}

Good(x) == x \in Register /\ Truthful(x) /\ Honest(x)

Rest ==
    /\ known \subseteq Power
    /\ requested \subseteq Power
    /\ probe \in Attempt \cup {Idle}
    /\ src \in {"up", "deaf", "down"}
    /\ ha \in {"up", "dying", "down"}
    /\ handled \in BOOLEAN

IInv == sets \in [Setting -> Register] /\ (\A s \in Setting : Good(sets[s])) /\ Rest

Outcome == {"arrives", "lost", "rejected"}

LEMMA Outcomes ==
    ASSUME Rest
    PROVE  /\ SendOutcome \subseteq Outcome /\ ShowOutcome \subseteq Outcome
           /\ src = "up" => SendOutcome = {"arrives"}
           /\ ha = "up" => ShowOutcome = {"arrives"}
BY DEF Rest, SendOutcome, ShowOutcome, Outcome

LEMMA OneLeft ==
    ASSUME NEW S, NEW q \in Seq(S), q # <<>>, Tail(q) = <<>>
    PROVE  Len(q) = 1
<1>1. Len(Tail(q)) = Len(q) - 1
  BY HeadTailProperties
<1>2. Len(Tail(q)) = 0 /\ Len(q) \in Nat
  BY EmptySeq, LenProperties
<1> QED
  BY <1>1, <1>2

-----------------------------------------------------------------------------
\* What the operators do to one setting.

LEMMA SentType ==
    ASSUME NEW x \in Register, NEW r \in Request, NEW o \in Outcome
    PROVE  /\ Sent(x, r, o) \in Register
           /\ Sent(x, r, o).shown = x.shown /\ Sent(x, r, o).last = x.last
           /\ Sent(x, r, o).actual = x.actual /\ Sent(x, r, o).back = x.back
           /\ Sent(x, r, o).toDevice = IF o = "arrives" THEN Append(x.toDevice, r) ELSE x.toDevice
           /\ Sent(x, r, o).fresh = IF o = "rejected" THEN x.fresh
                                    ELSE r.op = "read" /\ o = "arrives" /\ src = "up"
<1>1. x.toDevice \in Seq(Request) /\ Append(x.toDevice, r) \in Seq(Request)
  BY DEF Register
<1> QED
  BY <1>1 DEF Sent, Register, Outcome

\* A read that arrives over a source connection that is up makes the claim anew; one
\* that may not arrive gives it up.
LEMMA ReadSent ==
    ASSUME NEW x \in Register, NEW o \in Outcome, Truthful(x)
    PROVE  Truthful(Sent(x, Read, o))
<1> DEFINE y == Sent(x, Read, o)
<1>0. Read \in Request /\ Read.op = "read"
  BY DEF Read, Request
<1>1. /\ y.shown = x.shown /\ y.actual = x.actual /\ y.back = x.back
      /\ y.toDevice = IF o = "arrives" THEN Append(x.toDevice, Read) ELSE x.toDevice
      /\ y.fresh = IF o = "rejected" THEN x.fresh
                   ELSE Read.op = "read" /\ o = "arrives" /\ src = "up"
  BY <1>0, SentType
<1> HIDE DEF y
<1>2. CASE o = "arrives"
  <2>1. x.toDevice \in Seq(Request)
    BY DEF Register
  <2>2. y.toDevice = Append(x.toDevice, Read)
    BY <1>1, <1>2
  <2>3. y.toDevice # <<>> /\ y.toDevice[Len(y.toDevice)] = Read
    BY <2>1, <2>2, <1>0
  <2> QED
    BY <2>3, <1>0 DEF Truthful, y
<1>3. CASE o = "lost"
  BY <1>1, <1>3 DEF Truthful, y
<1>4. CASE o = "rejected"
  BY <1>1, <1>4 DEF Truthful, y
<1> QED
  BY <1>2, <1>3, <1>4 DEF Outcome

LEMMA ShowedType ==
    ASSUME NEW x \in Register, NEW v \in Value, NEW c \in Value \cup {None}, NEW o \in Outcome
    PROVE  /\ Showed(x, v, c, o) \in Register
           /\ Showed(x, v, c, o).toDevice = x.toDevice /\ Showed(x, v, c, o).back = x.back
           /\ Showed(x, v, c, o).actual = x.actual /\ Showed(x, v, c, o).fresh = x.fresh
           /\ Showed(x, v, c, o).shown = IF o = "arrives" THEN v ELSE x.shown
           /\ Showed(x, v, c, o).last = IF o = "rejected" THEN x.last ELSE c
BY DEF Showed, Register, Outcome

-----------------------------------------------------------------------------
\* Commands: the read comes last, so the mirrored value stays a claim of nobody.
LEMMA SetGood ==
    ASSUME Rest, NEW x \in Register, Good(x), NEW v \in Value,
           NEW w \in SendOutcome, NEW r \in SendOutcome, NEW o \in ShowOutcome,
           ha = "up" /\ handled
    PROVE  LET y == Sent(Sent(x, Write(v), w), Read, r)
           IN  Good(y) /\ (w # "rejected" => Good(Mirrored(y, v, o)))
<1> DEFINE a == Sent(x, Write(v), w)
           y == Sent(a, Read, r)
           z == Mirrored(y, v, o)
<1>0. /\ w \in Outcome /\ r \in Outcome /\ o = "arrives"
      /\ src = "up" => w = "arrives" /\ r = "arrives"
      /\ src = "down" => w = "rejected"
  BY Outcomes DEF SendOutcome, Rest
<1>1. Write(v) \in Request /\ Read \in Request /\ Write(v).op = "write" /\ Read.op = "read"
  BY DEF Write, Read, Request
<1>2. /\ a \in Register /\ a.shown = x.shown /\ a.last = x.last
      /\ a.actual = x.actual /\ a.back = x.back
      /\ a.toDevice = IF w = "arrives" THEN Append(x.toDevice, Write(v)) ELSE x.toDevice
      /\ a.fresh = IF w = "rejected" THEN x.fresh
                   ELSE Write(v).op = "read" /\ w = "arrives" /\ src = "up"
  BY <1>0, <1>1, SentType
<1> HIDE DEF a
<1>3. Truthful(a)
  <2>1. CASE w = "rejected"
    BY <2>1, <1>2 DEF Truthful, Good
  <2>2. CASE w # "rejected"
    BY <2>2, <1>1, <1>2 DEF Truthful
  <2> QED
    BY <2>1, <2>2
<1>4. Truthful(y)
  BY <1>0, <1>2, <1>3, ReadSent
<1>5. /\ y \in Register /\ y.shown = x.shown /\ y.last = x.last
      /\ y.toDevice = IF r = "arrives" THEN Append(a.toDevice, Read) ELSE a.toDevice
      /\ y.fresh = IF r = "rejected" THEN a.fresh
                   ELSE Read.op = "read" /\ r = "arrives" /\ src = "up"
  BY <1>0, <1>1, <1>2, SentType
<1>6. Good(y)
  BY <1>4, <1>5 DEF Good, Honest
<1>7. ASSUME w # "rejected" PROVE Good(z)
  <2> HIDE DEF y
  <2>0. o \in Outcome /\ None \in Value \cup {None} /\ z = Showed(y, v, None, o)
    BY <1>0 DEF Mirrored, Outcome
  <2> HIDE DEF z
  <2>1. /\ z \in Register /\ z.toDevice = y.toDevice /\ z.back = y.back
        /\ z.actual = y.actual /\ z.fresh = y.fresh /\ z.last = None
    <3>1. o \in Outcome /\ o # "rejected" /\ y \in Register
      BY <1>0, <1>5, <2>0
    <3> QED
      BY <2>0, <3>1, ShowedType
  <2>2. z.fresh => z.toDevice # <<>> /\ z.toDevice[Len(z.toDevice)].op = "read"
    <3> SUFFICES ASSUME y.fresh
                 PROVE  y.toDevice # <<>> /\ y.toDevice[Len(y.toDevice)].op = "read"
      BY <2>1
    <3>1. r = "arrives"
      BY <1>0, <1>1, <1>2, <1>5, <1>7 DEF Outcome
    <3>2. a.toDevice \in Seq(Request) /\ y.toDevice = Append(a.toDevice, Read)
      BY <3>1, <1>2, <1>5 DEF Register
    <3> QED
      BY <3>2, <1>1
  <2> QED
    BY <2>1, <2>2 DEF Good, Truthful, Honest, z
<1> QED
  BY <1>6, <1>7 DEF a

LEMMA ReadGood ==
    ASSUME Rest, NEW x \in Register, Good(x), NEW r \in SendOutcome
    PROVE  Good(Sent(x, Read, r))
<1>1. r \in Outcome /\ Read \in Request
  BY Outcomes DEF Read, Request
<1>2. Truthful(Sent(x, Read, r))
  BY <1>1, ReadSent DEF Good
<1>3. /\ Sent(x, Read, r) \in Register
      /\ Sent(x, Read, r).shown = x.shown /\ Sent(x, Read, r).last = x.last
  BY <1>1, SentType
<1> QED
  BY <1>2, <1>3 DEF Good, Honest

\* An answer is shown, or was already; the claim rests on the last one.
LEMMA AnsweredGood ==
    ASSUME Rest, NEW x \in Register, Good(x), x.back # <<>>, NEW o \in ShowOutcome
    PROVE  Good(Answered(x, o))
<1> DEFINE v == Head(x.back)
           y == [x EXCEPT !.back = Tail(x.back),
                          !.fresh = x.fresh /\ \/ ha = "up" /\ handled
                                               \/ x.toDevice # <<>> \/ Tail(x.back) # <<>>]
           z == IF x.last = v THEN y ELSE Showed(y, v, v, o)
<1>0. z = Answered(x, o)
  BY DEF Answered
<1>1. x.back \in Seq(Value) /\ v \in Value /\ Tail(x.back) \in Seq(Value) /\ v # None
  BY ValueAssumption DEF Register
<1>2. /\ y \in Register /\ y.back = Tail(x.back) /\ y.toDevice = x.toDevice
      /\ y.actual = x.actual /\ y.shown = x.shown /\ y.last = x.last
      /\ y.fresh = (x.fresh /\ \/ ha = "up" /\ handled
                               \/ x.toDevice # <<>> \/ Tail(x.back) # <<>>)
  BY <1>1 DEF Register
<1>3. o \in Outcome /\ (ha = "up" => o = "arrives")
  BY Outcomes
<1> HIDE DEF y
<1>4. /\ z \in Register /\ z.back = y.back /\ z.toDevice = y.toDevice
      /\ z.actual = y.actual /\ z.fresh = y.fresh
      /\ (ha = "up" /\ handled => z.shown = v /\ z.last = v)
  <2>1. CASE x.last = v
    BY <2>1, <1>1, <1>2 DEF Good, Honest
  <2>2. CASE x.last # v
    BY <2>2, <1>1, <1>2, <1>3, ShowedType
  <2> QED
    BY <2>1, <2>2
<1> HIDE DEF z
<1>5. Truthful(z)
  <2> SUFFICES ASSUME x.fresh, \/ ha = "up" /\ handled
                               \/ x.toDevice # <<>> \/ Tail(x.back) # <<>>
               PROVE  \/ x.toDevice # <<>> /\ x.toDevice[Len(x.toDevice)].op = "read"
                      \/ x.toDevice = <<>> /\ Tail(x.back) # <<>>
                         /\ Tail(x.back)[Len(Tail(x.back))] = x.actual
                      \/ x.toDevice = <<>> /\ Tail(x.back) = <<>> /\ z.shown = x.actual
    BY <1>2, <1>4 DEF Truthful
  <2>1. CASE x.toDevice # <<>>
    BY <2>1 DEF Good, Truthful
  <2>2. CASE x.toDevice = <<>> /\ Tail(x.back) # <<>>
    BY <2>2, <1>1 DEF Good, Truthful
  <2>3. CASE x.toDevice = <<>> /\ Tail(x.back) = <<>>
    <3>1. Len(x.back) = 1
      BY <2>3, <1>1, OneLeft
    <3> QED
      BY <3>1, <2>3, <1>1, <1>4 DEF Good, Truthful
  <2> QED
    BY <2>1, <2>2, <2>3
<1> QED
  BY <1>0, <1>4, <1>5 DEF Good, Honest

\* The device takes what is next.
LEMMA TakenGood ==
    ASSUME NEW x \in Register, Good(x), x.toDevice # <<>>, NEW b \in BOOLEAN
    PROVE  /\ Head(x.toDevice).op = "read" =>
                /\ Good([x EXCEPT !.toDevice = Tail(x.toDevice), !.back = Append(x.back, x.actual)])
                /\ Good([x EXCEPT !.toDevice = Tail(x.toDevice),
                                  !.fresh = x.fresh /\ Tail(x.toDevice) # <<>>])
           /\ Head(x.toDevice).op = "write" =>
                Good([x EXCEPT !.toDevice = Tail(x.toDevice),
                               !.actual = IF b THEN Head(x.toDevice).value ELSE x.actual])
<1> DEFINE q == x.toDevice
           t == Tail(x.toDevice)
<1>1. /\ q \in Seq(Request) /\ t \in Seq(Request) /\ Head(q) \in Request
      /\ x.actual \in Value /\ x.back \in Seq(Value)
      /\ Append(x.back, x.actual) \in Seq(Value)
  BY DEF Register
<1>2. t # <<>> => t[Len(t)] = q[Len(q)]
  BY <1>1
<1>3. t = <<>> => Head(q) = q[Len(q)]
  <2>1. t = <<>> => Len(q) = 1
    BY <1>1, OneLeft
  <2> QED
    BY <2>1, <1>1
<1>4. x.fresh => q[Len(q)].op = "read"
  BY DEF Good, Truthful
<1>5. ASSUME Head(q).op = "read"
      PROVE  Good([x EXCEPT !.toDevice = t, !.back = Append(x.back, x.actual)])
  <2> DEFINE y == [x EXCEPT !.toDevice = t, !.back = Append(x.back, x.actual)]
  <2>1. /\ y \in Register /\ y.toDevice = t /\ y.back = Append(x.back, x.actual)
        /\ y.actual = x.actual /\ y.shown = x.shown /\ y.last = x.last /\ y.fresh = x.fresh
    BY <1>1 DEF Register
  <2> HIDE DEF y
  <2>2. y.back # <<>> /\ y.back[Len(y.back)] = y.actual
    BY <2>1, <1>1
  <2>3. Truthful(y)
    BY <2>1, <2>2, <1>2, <1>4 DEF Truthful
  <2> QED
    BY <2>1, <2>3 DEF Good, Honest, y
<1>6. Good([x EXCEPT !.toDevice = t, !.fresh = x.fresh /\ t # <<>>])
  <2> DEFINE y == [x EXCEPT !.toDevice = t, !.fresh = x.fresh /\ t # <<>>]
  <2>1. /\ y \in Register /\ y.toDevice = t /\ y.shown = x.shown /\ y.last = x.last
        /\ y.fresh = (x.fresh /\ t # <<>>)
    BY <1>1 DEF Register
  <2> HIDE DEF y
  <2>2. Truthful(y)
    BY <2>1, <1>2, <1>4 DEF Truthful
  <2> QED
    BY <2>1, <2>2 DEF Good, Honest, y
<1>7. ASSUME Head(q).op = "write"
      PROVE  Good([x EXCEPT !.toDevice = t, !.actual = IF b THEN Head(q).value ELSE x.actual])
  <2> DEFINE y == [x EXCEPT !.toDevice = t, !.actual = IF b THEN Head(q).value ELSE x.actual]
  <2>0. Head(q).value \in Value
    BY <1>1, <1>7 DEF Request
  <2>1. /\ y \in Register /\ y.toDevice = t /\ y.shown = x.shown /\ y.last = x.last
        /\ y.fresh = x.fresh
    BY <1>1, <2>0 DEF Register
  <2> HIDE DEF y
  <2>2. x.fresh => t # <<>>
    BY <1>3, <1>4, <1>7
  <2>3. Truthful(y)
    BY <2>1, <2>2, <1>2, <1>4 DEF Truthful
  <2> QED
    BY <2>1, <2>3 DEF Good, Honest, y
<1> QED
  BY <1>5, <1>6, <1>7

\* What a lost source connection leaves is no claim, unless nothing was on its way.
LEMMA CutGood ==
    ASSUME NEW x \in Register, NEW n \in 0..Len(x.toDevice)
    PROVE  /\ Cut(x, n) \in Register /\ (Truthful(x) => Truthful(Cut(x, n)))
           /\ Cut(x, n).shown = x.shown /\ Cut(x, n).last = x.last
<1>1. x.toDevice \in Seq(Request)
  BY DEF Register
<1>2. SubSeq(x.toDevice, 1, n) \in Seq(Request) /\ (x.toDevice = <<>> => SubSeq(x.toDevice, 1, n) = <<>>)
  BY <1>1
<1> DEFINE f == x.fresh /\ x.toDevice = <<>> /\ x.back = <<>>
<1>0. f \in BOOLEAN /\ <<>> \in Seq(Value)
  BY DEF Register
<1>3. /\ Cut(x, n) \in Register
      /\ Cut(x, n).toDevice = SubSeq(x.toDevice, 1, n) /\ Cut(x, n).back = <<>>
      /\ Cut(x, n).shown = x.shown /\ Cut(x, n).last = x.last /\ Cut(x, n).actual = x.actual
      /\ Cut(x, n).fresh = f
  <2>1. Cut(x, n) = [x EXCEPT !.toDevice = SubSeq(x.toDevice, 1, n), !.back = <<>>, !.fresh = f]
    BY DEF Cut
  <2> HIDE DEF f
  <2> QED
    BY <1>0, <1>2, <2>1 DEF Register
<1> QED
  BY <1>2, <1>3 DEF Truthful

-----------------------------------------------------------------------------
LEMMA InitIInv == Init => IInv
<1> SUFFICES ASSUME Init PROVE IInv
  OBVIOUS
<1>1. PICK v \in [Setting -> Value] :
          sets = [s \in Setting |-> [actual |-> v[s], toDevice |-> <<>>, back |-> <<>>,
                                     shown |-> None, last |-> None, fresh |-> FALSE]]
  BY DEF Init
<1>2. ASSUME NEW s \in Setting PROVE Good(sets[s])
  <2>1. <<>> \in Seq(Request) /\ <<>> \in Seq(Value) /\ v[s] \in Value
    OBVIOUS
  <2> QED
    BY <1>1, <2>1 DEF Good, Register, Truthful, Honest
<1>3. sets \in [Setting -> Register]
  BY <1>1, <1>2 DEF Good
<1> QED
  BY <1>2, <1>3 DEF Init, IInv, Rest, Attempt

\* A step of one setting
LEMMA OneChanges ==
    ASSUME IInv, NEW s \in Setting, NEW y, Good(y), Becomes(s, y), Rest',
           UNCHANGED <<ha, handled>>
    PROVE  IInv'
<1>1. y \in Register /\ sets' = [sets EXCEPT ![s] = y]
  BY DEF Good, Becomes
<1>2. ASSUME NEW e \in Setting PROVE Good(sets[e])'
  <2>1. sets'[e] = IF e = s THEN y ELSE sets[e]
    BY <1>1 DEF IInv
  <2>2. Good(sets'[e])
    BY <2>1 DEF IInv
  <2> QED
    BY <2>2 DEF Good, Truthful, Honest
<1> QED
  BY <1>1, <1>2 DEF IInv

\* A step that empties the cache
LEMMA ForgottenGood ==
    ASSUME NEW x \in Register, Truthful(x)
    PROVE  LET y == [x EXCEPT !.last = None]
           IN  y \in Register /\ Truthful(y) /\ y.last = None
<1> DEFINE y == [x EXCEPT !.last = None]
<1>1. /\ y \in Register /\ y.last = None /\ y.fresh = x.fresh /\ y.toDevice = x.toDevice
      /\ y.back = x.back /\ y.shown = x.shown /\ y.actual = x.actual
  BY DEF Register
<1> QED
  BY <1>1 DEF Truthful

LEMMA RecoveredGood ==
    ASSUME IInv, Recovered, UNCHANGED <<known, src>>, ha' \in {"up", "dying", "down"},
           handled' \in BOOLEAN
    PROVE  IInv'
<1>1. ASSUME NEW s \in Setting PROVE Good(sets[s])' /\ sets'[s] \in Register
  <2>1. sets'[s] = [sets[s] EXCEPT !.last = None] /\ sets[s] \in Register /\ Truthful(sets[s])
    BY DEF Recovered, IInv, Good
  <2>2. sets'[s] \in Register /\ Truthful(sets'[s]) /\ sets'[s].last = None
    BY <2>1, ForgottenGood
  <2> QED
    BY <2>2 DEF Good, Honest, Truthful
<1>2. sets' \in [Setting -> Register]
  BY <1>1 DEF Recovered
<1> QED
  BY <1>1, <1>2 DEF Recovered, IInv, Rest, Attempt

\* A step that only cuts what is on its way, or leaves it
LEMMA CutKeeps ==
    ASSUME IInv, Rest', UNCHANGED <<ha, handled>>, Severed
    PROVE  IInv'
<1>1. PICK n \in [Setting -> 0..MaxWaiting] :
          /\ \A s \in Setting : n[s] <= Len(sets[s].toDevice)
          /\ sets' = [s \in Setting |-> Cut(sets[s], n[s])]
  BY DEF Severed
<1>2. ASSUME NEW s \in Setting PROVE Good(sets[s])' /\ sets'[s] \in Register
  <2>1. sets[s] \in Register /\ Good(sets[s]) /\ sets'[s] = Cut(sets[s], n[s])
    BY <1>1 DEF IInv
  <2>2. n[s] \in 0..Len(sets[s].toDevice)
    <3>1. sets[s].toDevice \in Seq(Request) /\ n[s] \in Nat
      BY <1>1, <2>1, MaxWaitingAssumption DEF Register
    <3> QED
      BY <1>1, <3>1
  <2>3. /\ sets'[s] \in Register /\ Truthful(sets'[s])
        /\ sets'[s].shown = sets[s].shown /\ sets'[s].last = sets[s].last
    BY <2>1, <2>2, CutGood DEF Good
  <2> QED
    BY <2>1, <2>3 DEF Good, Honest, Truthful
<1> QED
  BY <1>1, <1>2 DEF IInv

LEMMA NothingChanges ==
    ASSUME IInv, UNCHANGED sets, Rest', ha' = "up" /\ handled' => ha = "up" /\ handled
    PROVE  IInv'
BY DEF IInv, Good, Truthful, Honest

-----------------------------------------------------------------------------
LEMMA NextIInv == ASSUME IInv, [Next]_vars PROVE IInv'
<1>0. /\ Rest
      /\ \A s \in Setting : sets[s] \in Register /\ Good(sets[s])
      /\ UNCHANGED <<known, requested, probe, src, ha, handled>> => Rest'
  BY DEF IInv, Rest
<1>1. ASSUME NEW s \in Setting, NEW v \in Value, NEW w \in SendOutcome, NEW r \in SendOutcome,
             NEW o \in ShowOutcome, Set(s, v, w, r, o)
      PROVE  IInv'
  <2> DEFINE x == Sent(Sent(sets[s], Write(v), w), Read, r)
             y == IF s \in Power /\ w # "rejected" THEN Mirrored(x, v, o) ELSE x
  <2>1. ha = "up" /\ handled /\ Becomes(s, y)
    BY <1>1 DEF Set
  <2>2. Good(y)
    BY <1>0, <2>1, SetGood
  <2> QED
    BY <1>0, <1>1, <2>1, <2>2, OneChanges DEF Set
<1>2. ASSUME NEW s \in Setting, NEW v \in Value, Changes(s, v) PROVE IInv'
  <2> DEFINE x == sets[s]
             y == [x EXCEPT !.actual = v, !.fresh = x.fresh /\ x.toDevice # <<>>]
  <2>1. Becomes(s, y)
    BY <1>2 DEF Changes
  <2>2. /\ y \in Register /\ y.toDevice = x.toDevice /\ y.last = x.last /\ y.shown = x.shown
        /\ y.fresh = (x.fresh /\ x.toDevice # <<>>)
    BY <1>0 DEF Register
  <2>3. Truthful(y)
    BY <1>0, <2>2 DEF Good, Truthful
  <2>4. Good(y)
    BY <1>0, <2>2, <2>3 DEF Good, Honest
  <2> QED
    BY <1>0, <1>2, <2>1, <2>4, OneChanges DEF Changes
<1>3. ASSUME NEW s \in Setting, NEW r \in SendOutcome, ReadPressed(s, r) PROVE IInv'
  BY <1>0, <1>3, ReadGood, OneChanges DEF ReadPressed
<1>4. ASSUME NEW s \in Setting, NEW b \in BOOLEAN, Reads(s, b) PROVE IInv'
  <2> DEFINE x == sets[s]
             y == IF b /\ src = "up"
                  THEN [x EXCEPT !.toDevice = Tail(x.toDevice), !.back = Append(x.back, x.actual)]
                  ELSE [x EXCEPT !.toDevice = Tail(x.toDevice),
                                 !.fresh = x.fresh /\ Tail(x.toDevice) # <<>>]
  <2>1. x.toDevice # <<>> /\ Head(x.toDevice).op = "read" /\ Becomes(s, y)
    BY <1>4 DEF Reads
  <2>2. Good(y)
    BY <1>0, <2>1, TakenGood
  <2> QED
    BY <1>0, <1>4, <2>1, <2>2, OneChanges DEF Reads
<1>5. ASSUME NEW s \in Setting, NEW b \in BOOLEAN, Writes(s, b) PROVE IInv'
  <2> DEFINE x == sets[s]
             y == [x EXCEPT !.toDevice = Tail(x.toDevice),
                            !.actual = IF b THEN Head(x.toDevice).value ELSE x.actual]
  <2>1. x.toDevice # <<>> /\ Head(x.toDevice).op = "write" /\ Becomes(s, y)
    BY <1>5 DEF Writes
  <2>2. Good(y)
    BY <1>0, <2>1, TakenGood
  <2> QED
    BY <1>0, <1>5, <2>1, <2>2, OneChanges DEF Writes
<1>6. ASSUME NEW s \in Setting, CloudReads(s) PROVE IInv'
  <2> DEFINE x == sets[s]
             y == [x EXCEPT !.toDevice = Append(x.toDevice, Read)]
  <2>1. Becomes(s, y)
    BY <1>6 DEF CloudReads
  <2>2. /\ x.toDevice \in Seq(Request) /\ Read \in Request /\ Read.op = "read"
        /\ Append(x.toDevice, Read) \in Seq(Request)
    BY <1>0 DEF Register, Read, Request
  <2>3. /\ y \in Register /\ y.toDevice = Append(x.toDevice, Read) /\ y.fresh = x.fresh
        /\ y.last = x.last /\ y.shown = x.shown
    BY <1>0, <2>2 DEF Register
  <2> HIDE DEF y
  <2>4. y.toDevice # <<>> /\ y.toDevice[Len(y.toDevice)] = Read
    BY <2>2, <2>3
  <2>5. Good(y)
    BY <1>0, <2>2, <2>3, <2>4 DEF Good, Truthful, Honest
  <2> QED
    BY <1>0, <1>6, <2>1, <2>5, OneChanges DEF CloudReads
<1>7. ASSUME NEW s \in Setting, NEW o \in ShowOutcome, Answer(s, o) PROVE IInv'
  <2>1. Good(Answered(sets[s], o))
    BY <1>0, <1>7, AnsweredGood DEF Answer
  <2> QED
    BY <1>0, <1>7, <2>1, OneChanges DEF Answer
<1>8. ASSUME NEW s \in Power, NEW due \in BOOLEAN, NEW o \in ShowOutcome,
             NEW r \in SendOutcome, Telemetry(s, due, o, r)
      PROVE  IInv'
  <2>1. s \in Setting /\ Rest'
    BY <1>0, <1>8, PowerAssumption DEF Telemetry, Rest
  <2>2. CASE Asks(s, due, o)
    BY <1>0, <1>8, <2>1, <2>2, ReadGood, OneChanges DEF Telemetry
  <2>3. CASE ~Asks(s, due, o)
    BY <1>8, <2>1, <2>3, NothingChanges DEF Telemetry
  <2> QED
    BY <2>2, <2>3
<1>9. ASSUME NEW r \in [Power -> SendOutcome], ProbeRuns(r) PROVE IInv'
  <2> DEFINE due == known \ requested
  <2>1. /\ sets' = [s \in Setting |-> IF s \in due THEN Sent(sets[s], Read, r[s]) ELSE sets[s]]
        /\ UNCHANGED <<ha, handled>> /\ due \subseteq Power
    BY <1>0, <1>9 DEF ProbeRuns, Rest
  <2>2. Rest'
    <3>1. requested' \subseteq Power /\ UNCHANGED <<known, src, ha, handled>>
      BY <1>0, <1>9 DEF ProbeRuns, Rest
    <3>2. probe' \in Attempt \cup {Idle}
      BY <1>0, <1>9 DEF ProbeRuns, Rest, After, Attempt, Idle
    <3> QED
      BY <1>0, <3>1, <3>2 DEF Rest
  <2>3. ASSUME NEW s \in Setting PROVE Good(sets[s])' /\ sets'[s] \in Register
    <3>1. CASE s \in due
      <4>1. r[s] \in SendOutcome /\ sets'[s] = Sent(sets[s], Read, r[s])
        BY <2>1, <3>1
      <4>2. Good(sets'[s])
        BY <1>0, <4>1, ReadGood
      <4> QED
        BY <2>1, <4>2 DEF Good, Truthful, Honest
    <3>2. CASE s \notin due
      BY <1>0, <2>1, <3>2 DEF Good, Truthful, Honest
    <3> QED
      BY <3>1, <3>2
  <2> QED
    BY <2>1, <2>2, <2>3 DEF IInv
<1>10. CASE SocketUp \/ LinkDies \/ LinkDown \/ SourceConnects \/ SourceSubscribed
  <2>1. /\ Rest' /\ UNCHANGED sets
        /\ ha' = "up" /\ handled' => ha = "up" /\ handled
    BY <1>0, <1>10 DEF SocketUp, LinkDies, LinkDown, SourceConnects, SourceSubscribed, Rest
  <2> QED
    BY <2>1, NothingChanges
<1>11. CASE ConnectHandled
  BY <1>0, <1>11, RecoveredGood DEF ConnectHandled, Rest
<1>12. CASE BirthMessage
  BY <1>0, <1>12, RecoveredGood DEF BirthMessage, Rest
<1>13. CASE SourceBreaks \/ SourceDown
  <2>1. Rest' /\ UNCHANGED <<ha, handled>> /\ Severed
    BY <1>0, <1>13 DEF SourceBreaks, SourceDown, Rest
  <2> QED
    BY <2>1, CutKeeps
<1>14. CASE ProcessRestarts
  <2>1. PICK n \in [Setting -> 0..MaxWaiting] :
            /\ \A s \in Setting : n[s] <= Len(sets[s].toDevice)
            /\ sets' = [s \in Setting |-> [Cut(sets[s], n[s]) EXCEPT !.last = None]]
    BY <1>14 DEF ProcessRestarts
  <2>2. Rest' /\ ha' = "down"
    BY <1>0, <1>14 DEF ProcessRestarts, Rest, Attempt
  <2>3. ASSUME NEW s \in Setting PROVE Good(sets[s])' /\ sets'[s] \in Register
    <3>1. n[s] \in 0..Len(sets[s].toDevice)
      <4>1. sets[s].toDevice \in Seq(Request) /\ n[s] \in Nat
        BY <1>0, <2>1, MaxWaitingAssumption DEF Register
      <4> QED
        BY <2>1, <4>1
    <3>2. Cut(sets[s], n[s]) \in Register /\ Truthful(Cut(sets[s], n[s]))
      BY <1>0, <3>1, CutGood DEF Good
    <3>3. sets'[s] \in Register /\ Truthful(sets'[s])
      BY <2>1, <3>2, ForgottenGood
    <3> QED
      BY <2>2, <3>3 DEF Good, Truthful, Honest
  <2> QED
    BY <2>1, <2>2, <2>3 DEF IInv
<1>15. CASE UNCHANGED vars
  BY <1>0, <1>15, NothingChanges DEF vars
<1> QED
  BY <1>1, <1>2, <1>3, <1>4, <1>5, <1>6, <1>7, <1>8, <1>9, <1>10, <1>11, <1>12, <1>13, <1>14, <1>15
     DEF Next, Device, AnswerOf, TelemetryOf, Probed

-----------------------------------------------------------------------------
\* The registers of the model, the caches and the probe are typed, and each claim
\* of freshness rests on a read or an answer that is still to come or was shown.
THEOREM InductiveInvariant == Spec => []IInv
BY InitIInv, NextIInv, PTL DEF Spec

\* The state is typed, and the probe makes no more than four attempts.
THEOREM TypeCorrect == Spec => []TypeOK
<1>1. IInv => TypeOK
  BY DEF IInv, TypeOK, Rest
<1> QED
  BY <1>1, InductiveInvariant, PTL

\* "a later real readback still replaces it" (ha/client.py:958): for any settings and
\* values, once the answer to the read that was sent last is in, Home Assistant shows
\* what the device has, unless the answer or the value was lost or overtaken.
THEOREM ReadbackReplaces == Spec => []Settled
<1>1. IInv => Settled
  BY DEF IInv, Good, Truthful, Settled
<1> QED
  BY <1>1, InductiveInvariant, PTL

\* On a connection whose recovery is done, the cache of holding registers
\* (performance.py:182) skips only values that are retained.
THEOREM CacheIsShown ==
    Spec => [](\A s \in Setting : ha = "up" /\ handled => sets[s].last \in {None, sets[s].shown})
<1>1. IInv => \A s \in Setting : ha = "up" /\ handled => sets[s].last \in {None, sets[s].shown}
  BY DEF IInv, Good, Honest
<1> QED
  BY <1>1, InductiveInvariant, PTL
=============================================================================
