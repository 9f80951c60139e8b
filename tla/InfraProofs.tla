---------------------------- MODULE InfraProofs ----------------------------
(***************************************************************************)
(* Proofs about crash/infra: ObjfileCallbacks for every set of callbacks,  *)
(* of object files and every depth of nested calls, and DelayedLookup for  *)
(* every collection.                                                       *)
(***************************************************************************)
EXTENDS ObjfileCallbacks, DelayedLookup, FiniteSetTheorems, LeastElement

-----------------------------------------------------------------------------
(* What Kept, the comprehension of _update_pending, returns.                 *)

\* The value of Kept's recursion at i, from the values g before.
KeptAt(g, s, T, i) ==
    IF i = 0 THEN <<>>
    ELSE IF s[i] \in T THEN Append(g[i - 1], s[i]) ELSE g[i - 1]

\* f solves the recursion of Kept up to position n.
KeptUpTo(f, s, T, n) == \A i \in 0..n : f[i] = KeptAt(f, s, T, i)

\* The recursion of Kept has a solution, by induction on the position.
LEMMA KeptExists ==
    ASSUME NEW S, NEW T, NEW s \in Seq(S)
    PROVE  \E f \in [0..Len(s) -> Seq(S)] : KeptUpTo(f, s, T, Len(s))
<1> DEFINE G == {n \in 0..Len(s) : \E f \in [0..n -> Seq(S)] :
                                       KeptUpTo(f, s, T, n)}
<1>1. 0 \in G
    <2>1. [i \in 0..0 |-> <<>>] \in [0..0 -> Seq(S)]
        OBVIOUS
    <2>2. KeptUpTo([i \in 0..0 |-> <<>>], s, T, 0)
        BY DEF KeptUpTo, KeptAt
    <2>3. \E f \in [0..0 -> Seq(S)] : KeptUpTo(f, s, T, 0)
        BY <2>1, <2>2
    <2> QED
        BY <2>3
<1>2. ASSUME NEW n \in 1..Len(s), n - 1 \in G
      PROVE  n \in G
    <2>1. PICK g \in [0..(n - 1) -> Seq(S)] : KeptUpTo(g, s, T, n - 1)
        BY <1>2
    <2> DEFINE v == KeptAt(g, s, T, n)
               f == [i \in 0..n |-> IF i = n THEN v ELSE g[i]]
    <2>2. v \in Seq(S)
        BY DEF KeptAt
    <2> HIDE DEF v
    <2>3. f \in [0..n -> Seq(S)]
        BY <2>2
    <2>4. ASSUME NEW i \in 0..n
          PROVE  f[i] = KeptAt(f, s, T, i)
        <3>1. CASE i = n
            <4>1. f[i] = v /\ f[i - 1] = g[i - 1]
                BY <3>1
            <4> QED
                BY <4>1, <3>1 DEF KeptAt, v
        <3>2. CASE i # n
            <4>1. f[i] = g[i] /\ i \in 0..(n - 1)
                BY <3>2
            <4>2. i # 0 => f[i - 1] = g[i - 1]
                BY <3>2
            <4> QED
                BY <4>1, <4>2, <2>1 DEF KeptUpTo, KeptAt
        <3> QED
            BY <3>1, <3>2
    <2>5. KeptUpTo(f, s, T, n)
        BY <2>4 DEF KeptUpTo
    <2> QED
        BY <2>3, <2>5
<1>3. G = 0..Len(s)
    <2>1. G \in SUBSET (0..Len(s)) /\ Len(s) \in Nat
        OBVIOUS
    <2> HIDE DEF G
    <2> QED
        BY <1>1, <1>2, <2>1, InductionUpTo
<1> QED
    BY <1>3

\* Kept is the last value of a solution of its recursion.
LEMMA KeptUnfolds ==
    ASSUME NEW S, NEW T, NEW s \in Seq(S)
    PROVE  \E f : KeptUpTo(f, s, T, Len(s)) /\ Kept(s, T) = f[Len(s)]
<1> DEFINE F == CHOOSE f : f = [i \in 0..Len(s) |->
                       IF i = 0 THEN <<>>
                       ELSE IF s[i] \in T THEN Append(f[i - 1], s[i])
                       ELSE f[i - 1]]
<1>1. PICK f \in [0..Len(s) -> Seq(S)] : KeptUpTo(f, s, T, Len(s))
    BY KeptExists
<1>2. f = [i \in 0..Len(s) |-> IF i = 0 THEN <<>>
                               ELSE IF s[i] \in T THEN Append(f[i - 1], s[i])
                               ELSE f[i - 1]]
    BY <1>1 DEF KeptUpTo, KeptAt
<1>3. F = [i \in 0..Len(s) |-> IF i = 0 THEN <<>>
                               ELSE IF s[i] \in T THEN Append(F[i - 1], s[i])
                               ELSE F[i - 1]]
    BY <1>2
<1>4. Kept(s, T) = F[Len(s)]
    BY DEF Kept
<1> HIDE DEF F
<1>5. KeptUpTo(F, s, T, Len(s))
    BY <1>3 DEF KeptUpTo, KeptAt
<1> QED
    BY <1>4, <1>5

LEMMA MembersAppend ==
    ASSUME NEW S, NEW s \in Seq(S), NEW e \in S
    PROVE  /\ Members(Append(s, e)) = Members(s) \cup {e}
           /\ NoDuplicates(s) /\ e \notin Members(s) =>
                  NoDuplicates(Append(s, e))
<1>1. /\ Append(s, e) \in Seq(S) /\ Len(Append(s, e)) = Len(s) + 1
      /\ \A i \in 1..Len(s) : Append(s, e)[i] = s[i]
      /\ Append(s, e)[Len(s) + 1] = e
      /\ DOMAIN s = 1..Len(s) /\ DOMAIN Append(s, e) = 1..(Len(s) + 1)
    OBVIOUS
<1>2. Members(Append(s, e)) \subseteq Members(s) \cup {e}
    BY <1>1 DEF Members
<1>3. Members(s) \cup {e} \subseteq Members(Append(s, e))
    BY <1>1 DEF Members
<1>4. NoDuplicates(s) /\ e \notin Members(s) => NoDuplicates(Append(s, e))
    BY <1>1 DEF Members, NoDuplicates
<1> QED
    BY <1>2, <1>3, <1>4

(***************************************************************************)
(* _update_pending keeps the members that are in T, each as often as       *)
(* before if that was once.                                                *)
(***************************************************************************)
LEMMA KeptMembers ==
    ASSUME NEW S, NEW T, NEW s \in Seq(S)
    PROVE  /\ Kept(s, T) \in Seq(S)
           /\ Members(Kept(s, T)) = Members(s) \cap T
           /\ NoDuplicates(s) => NoDuplicates(Kept(s, T))
<1>1. PICK f : KeptUpTo(f, s, T, Len(s)) /\ Kept(s, T) = f[Len(s)]
    BY KeptUnfolds
<1> DEFINE Upto(n) == {s[j] : j \in 1..n} \cap T
           G == {n \in 0..Len(s) :
                    /\ f[n] \in Seq(S)
                    /\ Members(f[n]) = Upto(n)
                    /\ NoDuplicates(s) => NoDuplicates(f[n])}
<1>2. 0 \in G
    <2>1. f[0] = <<>>
        BY <1>1 DEF KeptUpTo, KeptAt
    <2>2. Members(f[0]) = {} /\ NoDuplicates(f[0]) /\ f[0] \in Seq(S)
        BY <2>1 DEF Members, NoDuplicates
    <2>3. Upto(0) = {}
        OBVIOUS
    <2> QED
        BY <2>2, <2>3
<1>3. ASSUME NEW n \in 1..Len(s), n - 1 \in G
      PROVE  n \in G
    <2>1. /\ f[n - 1] \in Seq(S)
          /\ Members(f[n - 1]) = Upto(n - 1)
          /\ NoDuplicates(s) => NoDuplicates(f[n - 1])
        BY <1>3
    <2>2. f[n] = IF s[n] \in T THEN Append(f[n - 1], s[n]) ELSE f[n - 1]
        BY <1>1 DEF KeptUpTo, KeptAt
    <2>3. s[n] \in S
        OBVIOUS
    <2>4. {s[j] : j \in 1..n} = {s[j] : j \in 1..(n - 1)} \cup {s[n]}
        OBVIOUS
    <2>5. NoDuplicates(s) => s[n] \notin {s[j] : j \in 1..(n - 1)}
        BY DEF NoDuplicates
    <2>6. CASE s[n] \in T
        <3>1. f[n] = Append(f[n - 1], s[n])
            BY <2>2, <2>6
        <3>2. Members(f[n]) = Upto(n - 1) \cup {s[n]}
            BY <3>1, <2>1, <2>3, MembersAppend
        <3>3. NoDuplicates(s) => NoDuplicates(f[n])
            BY <3>1, <2>1, <2>3, <2>5, MembersAppend
        <3>4. f[n] \in Seq(S)
            BY <3>1, <2>1, <2>3
        <3>5. Members(f[n]) = Upto(n)
            BY <3>2, <2>4, <2>6
        <3> QED
            BY <3>3, <3>4, <3>5
    <2>7. CASE s[n] \notin T
        <3>1. f[n] = f[n - 1]
            BY <2>2, <2>7
        <3>2. Members(f[n]) = Upto(n)
            BY <3>1, <2>1, <2>4, <2>7
        <3> QED
            BY <3>1, <3>2, <2>1
    <2> QED
        BY <2>6, <2>7
<1>4. G = 0..Len(s)
    <2>1. G \in SUBSET (0..Len(s)) /\ Len(s) \in Nat
        OBVIOUS
    <2> HIDE DEF G
    <2> QED
        BY <1>2, <1>3, <2>1, InductionUpTo
<1>5. /\ f[Len(s)] \in Seq(S)
      /\ Members(f[Len(s)]) = Upto(Len(s))
      /\ NoDuplicates(s) => NoDuplicates(f[Len(s)])
    <2>1. Len(s) \in G
        <3> HIDE DEF G
        <3> QED
            BY <1>4
    <2> QED
        BY <2>1
<1>6. Upto(Len(s)) = Members(s) \cap T
    BY DEF Members
<1> HIDE DEF Upto, G
<1> QED
    BY <1>1, <1>5, <1>6
-----------------------------------------------------------------------------
(* The call stack.                                                           *)

LEMMA PushFacts ==
    ASSUME NEW S, NEW f \in S, NEW s \in Seq(S)
    PROVE  /\ Push(f, s) \in Seq(S)
           /\ Len(Push(f, s)) = Len(s) + 1
           /\ Push(f, s)[1] = f
           /\ \A k \in 2..(Len(s) + 1) : Push(f, s)[k] = s[k - 1]
           /\ Push(f, s) # <<>>
           /\ Head(Push(f, s)) = f
BY DEF Push

LEMMA PushFrame ==
    ASSUME NEW f \in Frames, NEW s \in Seq(Frames)
    PROVE  /\ Push(f, s) \in Seq(Frames)
           /\ Len(Push(f, s)) = Len(s) + 1
           /\ Push(f, s)[1] = f
           /\ \A k \in 2..(Len(s) + 1) : Push(f, s)[k] = s[k - 1]
BY PushFacts

LEMMA TailFacts ==
    ASSUME NEW S, NEW s \in Seq(S), s # <<>>
    PROVE  /\ Tail(s) \in Seq(S)
           /\ Len(Tail(s)) = Len(s) - 1
           /\ \A k \in 1..(Len(s) - 1) : Tail(s)[k] = s[k + 1]
           /\ Head(s) = s[1] /\ Head(s) \in S /\ 1 \in 1..Len(s)
OBVIOUS

LEMMA FrameFields ==
    ASSUME NEW f \in Frames
    PROVE  /\ f.op = "evaluate_all" => f \in EvaluateAllFrame
           /\ f.op = "target_ready" => f \in TargetReadyFrame
           /\ f.op = "connect_callback" => f.cb \in Callbacks
           /\ f.op = "callback" => f.cb \in Callbacks
BY DEF Frames, EvaluateAllFrame, TargetReadyFrame, ConnectFrame, BodyFrame

\* A frame that is not a body may be pushed anywhere.
LEMMA PushCall ==
    ASSUME NEW cons, NEW wait, NEW s \in Seq(Frames), StackOK(s, cons, wait),
           NEW f \in Frames, f.op # "callback",
           f.op = "connect_callback" => f.cb \in cons
    PROVE  Push(f, s) \in Seq(Frames) /\ StackOK(Push(f, s), cons, wait)
<1> DEFINE t == Push(f, s)
<1>1. /\ t \in Seq(Frames) /\ Len(t) = Len(s) + 1 /\ t[1] = f
      /\ \A k \in 2..(Len(s) + 1) : t[k] = s[k - 1]
    BY PushFrame
<1> HIDE DEF t
<1>2. ASSUME NEW k \in 1..Len(t)
      PROVE  /\ t[k].op = "connect_callback" => t[k].cb \in cons
             /\ t[k].op = "callback" => /\ t[k].cb \in cons
                                        /\ ~wait[t[k].cb]
                                        /\ k < Len(t)
                                        /\ t[k + 1].op # "callback"
    <2>1. CASE k = 1
        BY <2>1, <1>1
    <2>2. CASE k # 1
        <3>1. k - 1 \in 1..Len(s) /\ t[k] = s[k - 1]
            BY <2>2, <1>1
        <3>2. k - 1 < Len(s) => k + 1 \in 2..(Len(s) + 1)
            BY <2>2, <1>1
        <3>3. k - 1 < Len(s) => k < Len(t) /\ t[k + 1] = s[(k - 1) + 1]
            BY <3>1, <3>2, <1>1
        <3> QED
            BY <3>1, <3>3 DEF StackOK
    <2> QED
        BY <2>1, <2>2
<1> QED
    BY <1>1, <1>2 DEF StackOK, t

\* A body may be pushed on the call that evaluates its object.
LEMMA PushBody ==
    ASSUME NEW cons, NEW wait, NEW s \in Seq(Frames), StackOK(s, cons, wait),
           s # <<>>, Head(s).op # "callback",
           NEW c \in Callbacks, c \in cons, ~wait[c]
    PROVE  LET t == Push([op |-> "callback", cb |-> c], s)
           IN  t \in Seq(Frames) /\ StackOK(t, cons, wait)
<1> DEFINE f == [op |-> "callback", cb |-> c]
           t == Push(f, s)
<1>0. f \in Frames /\ f.op = "callback" /\ f.cb = c
    BY DEF Frames, BodyFrame
<1> HIDE DEF f
<1>1. /\ t \in Seq(Frames) /\ Len(t) = Len(s) + 1 /\ t[1] = f
      /\ \A k \in 2..(Len(s) + 1) : t[k] = s[k - 1]
    BY <1>0, PushFrame
<1> HIDE DEF t
<1>2. ASSUME NEW k \in 1..Len(t)
      PROVE  /\ t[k].op = "connect_callback" => t[k].cb \in cons
             /\ t[k].op = "callback" => /\ t[k].cb \in cons
                                        /\ ~wait[t[k].cb]
                                        /\ k < Len(t)
                                        /\ t[k + 1].op # "callback"
    <2>1. CASE k = 1
        <3>1. Len(s) > 0 /\ Head(s) = s[1] /\ t[2] = s[1]
            BY <1>1
        <3> QED
            BY <2>1, <3>1, <1>0, <1>1
    <2>2. CASE k # 1
        <3>1. k - 1 \in 1..Len(s) /\ t[k] = s[k - 1]
            BY <2>2, <1>1
        <3>2. k - 1 < Len(s) => k + 1 \in 2..(Len(s) + 1)
            BY <2>2, <1>1
        <3>3. k - 1 < Len(s) => k < Len(t) /\ t[k + 1] = s[(k - 1) + 1]
            BY <3>1, <3>2, <1>1
        <3> QED
            BY <3>1, <3>3 DEF StackOK
    <2> QED
        BY <2>1, <2>2
<1> QED
    BY <1>1, <1>2 DEF StackOK, t, f

LEMMA PopCall ==
    ASSUME NEW cons, NEW wait, NEW s \in Seq(Frames), StackOK(s, cons, wait),
           s # <<>>
    PROVE  Tail(s) \in Seq(Frames) /\ StackOK(Tail(s), cons, wait)
<1> DEFINE t == Tail(s)
<1>1. /\ t \in Seq(Frames) /\ Len(t) = Len(s) - 1
      /\ \A k \in 1..(Len(s) - 1) : t[k] = s[k + 1]
    BY TailFacts
<1> HIDE DEF t
<1>2. ASSUME NEW k \in 1..Len(t)
      PROVE  /\ t[k].op = "connect_callback" => t[k].cb \in cons
             /\ t[k].op = "callback" => /\ t[k].cb \in cons
                                        /\ ~wait[t[k].cb]
                                        /\ k < Len(t)
                                        /\ t[k + 1].op # "callback"
    <2>1. k + 1 \in 1..Len(s) /\ t[k] = s[k + 1]
        BY <1>1
    <2>2. k + 1 < Len(s) => k < Len(t) /\ t[k + 1] = s[(k + 1) + 1]
        BY <1>1
    <2> QED
        BY <2>1, <2>2 DEF StackOK
<1> QED
    BY <1>1, <1>2 DEF StackOK, t

\* The loop on top of the stack advances.
LEMMA AdvanceCall ==
    ASSUME NEW cons, NEW wait, NEW s \in Seq(Frames), StackOK(s, cons, wait),
           s # <<>>, Head(s).op \in {"evaluate_all", "target_ready"}
    PROVE  /\ Advance(s) \in Seq(Frames) /\ StackOK(Advance(s), cons, wait)
           /\ Advance(s) # <<>> /\ Len(Advance(s)) = Len(s)
           /\ Head(Advance(s)) = [Head(s) EXCEPT !.pos = @ + 1]
           /\ Head(Advance(s)).op = Head(s).op
<1> DEFINE f == [s[1] EXCEPT !.pos = @ + 1]
           t == Advance(s)
<1>1. s[1] \in Frames /\ 1 \in 1..Len(s) /\ Head(s) = s[1]
    OBVIOUS
<1>2. f \in Frames /\ f.op = s[1].op
    <2>1. CASE s[1].op = "evaluate_all"
        <3>1. s[1] \in EvaluateAllFrame
            BY <2>1, <1>1, FrameFields
        <3>2. f \in EvaluateAllFrame /\ f.op = s[1].op
            BY <3>1 DEF EvaluateAllFrame
        <3> QED
            BY <3>2 DEF Frames
    <2>2. CASE s[1].op = "target_ready"
        <3>1. s[1] \in TargetReadyFrame
            BY <2>2, <1>1, FrameFields
        <3>2. f \in TargetReadyFrame /\ f.op = s[1].op
            BY <3>1 DEF TargetReadyFrame
        <3> QED
            BY <3>2 DEF Frames
    <2> QED
        BY <2>1, <2>2, <1>1
<1> HIDE DEF f
<1>3. t = [s EXCEPT ![1] = f]
    BY DEF f, Advance
<1>4. /\ t \in Seq(Frames) /\ Len(t) = Len(s) /\ t[1] = f
      /\ \A k \in 2..Len(s) : t[k] = s[k]
    BY <1>1, <1>2, <1>3
<1> HIDE DEF t
<1>5. ASSUME NEW k \in 1..Len(t)
      PROVE  /\ t[k].op = "connect_callback" => t[k].cb \in cons
             /\ t[k].op = "callback" => /\ t[k].cb \in cons
                                        /\ ~wait[t[k].cb]
                                        /\ k < Len(t)
                                        /\ t[k + 1].op # "callback"
    <2>1. CASE k = 1
        BY <2>1, <1>1, <1>2, <1>4
    <2>2. CASE k # 1
        <3>1. k \in 1..Len(s) /\ t[k] = s[k]
            BY <2>2, <1>4
        <3>2. k < Len(s) => t[k + 1] = s[k + 1]
            BY <2>2, <1>4
        <3> QED
            BY <3>1, <3>2, <1>4 DEF StackOK
    <2> QED
        BY <2>1, <2>2
<1>6. t # <<>> /\ Head(t) = f
    BY <1>1, <1>4
<1> QED
    BY <1>1, <1>2, <1>4, <1>5, <1>6 DEF StackOK, t, f

\* More constructed objects and fewer waiting ones disturb no call.
LEMMA StackMonotonic ==
    ASSUME NEW cons, NEW wait, NEW cons2, NEW wait2, NEW s \in Seq(Frames),
           StackOK(s, cons, wait), cons \subseteq cons2,
           \A c \in cons : ~wait[c] => ~wait2[c]
    PROVE  StackOK(s, cons2, wait2)
BY DEF StackOK

\* evaluate() of an object that has been constructed.
LEMMA EvaluateStack ==
    ASSUME NEW cons, NEW wait, NEW s \in Seq(Frames), StackOK(s, cons, wait),
           s # <<>>, Head(s).op # "callback",
           NEW c \in Callbacks, c \in cons
    PROVE  /\ Evaluate(c, wait[c], s) \in Seq(Frames)
           /\ StackOK(Evaluate(c, wait[c], s), cons, wait)
<1>1. CASE ~wait[c] /\ Ready(c)
    BY <1>1, PushBody DEF Evaluate
<1>2. CASE ~(~wait[c] /\ Ready(c))
    BY <1>2 DEF Evaluate
<1> QED
    BY <1>1, <1>2

\* gdb goes on with the next handler after evaluate_all() ended.
LEMMA NextHandlerStack ==
    ASSUME NEW cons, NEW wait, NEW s \in Seq(Frames), StackOK(s, cons, wait),
           s # <<>>, Head(s).op = "evaluate_all"
    PROVE  NextHandler(s) \in Seq(Frames) /\ StackOK(NextHandler(s), cons, wait)
<1>1. Tail(s) \in Seq(Frames) /\ StackOK(Tail(s), cons, wait)
    BY PopCall
<1>2. Head(s) \in EvaluateAllFrame
    BY FrameFields
<1> DEFINE f == [op |-> "evaluate_all", pos |-> 1, more |-> Head(s).more - 1]
<1>3. Head(s).more > 0 => f \in EvaluateAllFrame
    BY <1>2 DEF EvaluateAllFrame
<1>4. Head(s).more > 0 => f \in Frames
    BY <1>3 DEF Frames
<1>5. f.op = "evaluate_all"
    OBVIOUS
<1> HIDE DEF f
<1>6. Head(s).more > 0 =>
          Push(f, Tail(s)) \in Seq(Frames) /\ StackOK(Push(f, Tail(s)), cons, wait)
    BY <1>1, <1>4, <1>5, PushCall
<1> QED
    BY <1>1, <1>6 DEF NextHandler, f
-----------------------------------------------------------------------------
(* The invariant of every call, nested or not, failing or not.               *)

\* _update_pending never loses a connected object.
LEMMA UpdatePendingFacts ==
    ASSUME TypeOK, NEW conn \in [Callbacks -> BOOLEAN]
    PROVE  /\ UpdatePending(conn) \in Seq(Callbacks)
           /\ Members(UpdatePending(conn)) =
                  {c \in Members(pending) : conn[c]}
           /\ NoDuplicates(pending) => NoDuplicates(UpdatePending(conn))
<1>1. pending \in Seq(Callbacks)
    BY DEF TypeOK
<1>2. Members(pending) \subseteq Callbacks
    BY <1>1 DEF Members
<1>3. /\ UpdatePending(conn) \in Seq(Callbacks)
      /\ Members(UpdatePending(conn)) = Members(pending) \cap Connected(conn)
      /\ NoDuplicates(pending) => NoDuplicates(UpdatePending(conn))
    BY <1>1, KeptMembers DEF UpdatePending
<1> QED
    BY <1>2, <1>3 DEF Connected

LEMMA InitCallInv == Init => CallInv
<1> SUFFICES ASSUME Init PROVE CallInv
    OBVIOUS
<1>1. TypeOK
    <2>1. waitlist \in Seq(Callbacks) /\ pending \in Seq(Callbacks)
        BY DEF Init
    <2>2. stack \in Seq(Frames)
        BY DEF Init
    <2>3. constructed \in SUBSET Callbacks /\ loaded \in SUBSET Objfiles
        BY DEF Init
    <2> QED
        BY <2>1, <2>2, <2>3 DEF Init, TypeOK
<1>2. Members(pending) = {} /\ Members(waitlist) = {}
    BY DEF Init, Members
<1>3. FlagsAgree
    BY DEF Init, FlagsAgree
<1>4. StackOK(stack, constructed, waiting)
    BY DEF Init, StackOK
<1>5. \A c \in Callbacks : ~(completed[c] \/ connected[c])
    BY DEF Init
<1> QED
    BY <1>1, <1>2, <1>3, <1>4, <1>5 DEF CallInv

LEMMA ConstructCallInv ==
    ASSUME CallInv, NEW c \in Callbacks, Construct(c)
    PROVE  CallInv'
<1> USE DEF CallInv
<1>1. /\ constructed' = constructed \cup {c} /\ c \notin constructed
      /\ waiting' = [waiting EXCEPT ![c] = c \in WaitForTarget /\ ~target]
      /\ UNCHANGED <<completed, connected, waitlist, pending, paused, loaded,
                     target, stack>>
    BY DEF Construct, lists
<1>2. TypeOK'
    BY <1>1 DEF TypeOK
<1>3. FlagsAgree'
    BY <1>1 DEF FlagsAgree, TypeOK, Members
<1>4. StackOK(stack, constructed', waiting')
    <2>1. \A d \in constructed : ~waiting[d] => ~waiting'[d]
        BY <1>1 DEF TypeOK
    <2>2. stack \in Seq(Frames) /\ constructed \subseteq constructed'
        BY <1>1 DEF TypeOK
    <2> QED
        BY <2>1, <2>2, StackMonotonic
<1>5. StackOK(stack, constructed, waiting)'
    BY <1>1, <1>4
<1>6. (Members(pending) \cup Members(waitlist) \subseteq constructed)'
    BY <1>1 DEF Members
<1> QED
    BY <1>1, <1>2, <1>3, <1>5, <1>6

LEMMA ConnectCallbackCallInv ==
    ASSUME CallInv, NEW c \in Callbacks, ConnectCallback(c)
    PROVE  CallInv'
<1> USE DEF CallInv
<1> DEFINE f == [op |-> "connect_callback", cb |-> c]
           self == Push(f, stack)
<1>1. /\ c \in constructed
      /\ stack' = IF loaded # {} THEN Evaluate(c, waiting[c], self) ELSE self
      /\ waitlist' = IF waiting[c] THEN Append(waitlist, c) ELSE waitlist
      /\ UNCHANGED <<constructed, completed, connected, waiting, pending,
                     paused, loaded, target>>
    BY DEF ConnectCallback, flags, world
<1>2. f \in Frames /\ f.op = "connect_callback" /\ f.cb = c
    BY DEF Frames, ConnectFrame
<1> HIDE DEF f
<1>3. stack \in Seq(Frames) /\ waitlist \in Seq(Callbacks)
    BY DEF TypeOK
<1>4. self \in Seq(Frames) /\ StackOK(self, constructed, waiting)
    BY <1>1, <1>2, <1>3, PushCall
<1>5. self # <<>> /\ Head(self) = f
    BY <1>2, <1>3, PushFacts
<1> HIDE DEF self
<1>6. /\ Evaluate(c, waiting[c], self) \in Seq(Frames)
      /\ StackOK(Evaluate(c, waiting[c], self), constructed, waiting)
    BY <1>1, <1>2, <1>4, <1>5, EvaluateStack
<1>7. stack' \in Seq(Frames) /\ StackOK(stack', constructed', waiting')
    BY <1>1, <1>4, <1>6
<1>8. waitlist' \in Seq(Callbacks) /\ Members(waitlist') \subseteq Members(waitlist) \cup {c}
    BY <1>1, <1>3, MembersAppend
<1>9. TypeOK'
    BY <1>1, <1>7, <1>8 DEF TypeOK
<1>10. FlagsAgree'
    BY <1>1 DEF FlagsAgree, Members
<1>11. (Members(pending) \cup Members(waitlist) \subseteq constructed)'
    BY <1>1, <1>8 DEF Members
<1> QED
    BY <1>1, <1>7, <1>9, <1>10, <1>11

LEMMA ConnectReturnCallInv ==
    ASSUME CallInv, ConnectReturn
    PROVE  CallInv'
<1> USE DEF CallInv
<1> DEFINE c == Top.cb
<1>1. /\ stack # <<>> /\ Head(stack).op = "connect_callback"
      /\ IF completed[c] THEN UNCHANGED <<connected, pending>>
         ELSE /\ connected' = [connected EXCEPT ![c] = TRUE]
              /\ pending' = Append(pending, c)
      /\ stack' = Tail(stack)
      /\ UNCHANGED <<constructed, completed, waiting, waitlist, paused,
                     loaded, target>>
    BY DEF ConnectReturn, Running, Top, world
<1>2. stack \in Seq(Frames) /\ Head(stack) = stack[1] /\ 1 \in 1..Len(stack)
    BY <1>1 DEF TypeOK
<1>3. c \in Callbacks /\ c \in constructed
    BY <1>1, <1>2, FrameFields DEF Top, StackOK
<1>4. stack' \in Seq(Frames) /\ StackOK(stack', constructed', waiting')
    BY <1>1, <1>2, PopCall
<1> HIDE DEF c
<1>5. CASE completed[c]
    <2>1. TypeOK'
        BY <1>1, <1>4, <1>5 DEF TypeOK
    <2>2. FlagsAgree'
        BY <1>1, <1>5 DEF FlagsAgree, Members
    <2> QED
        BY <1>1, <1>4, <1>5, <2>1, <2>2 DEF Members
<1>6. CASE ~completed[c]
    <2>1. /\ pending' \in Seq(Callbacks)
          /\ Members(pending') = Members(pending) \cup {c}
        <3>1. pending \in Seq(Callbacks) /\ pending' = Append(pending, c)
            BY <1>1, <1>6 DEF TypeOK
        <3>2. Members(Append(pending, c)) = Members(pending) \cup {c}
            BY <3>1, <1>3, MembersAppend
        <3>3. pending' \in Seq(Callbacks)
            BY <3>1, <1>3
        <3> QED
            BY <3>1, <3>2, <3>3
    <2>2. TypeOK'
        BY <1>1, <1>4, <1>6, <2>1 DEF TypeOK
    <2>3. FlagsAgree'
        <3> SUFFICES ASSUME NEW d \in Callbacks
                     PROVE  /\ completed'[d] => ~connected'[d] /\ ~waiting'[d]
                            /\ connected'[d] => d \in Members(pending')
            BY DEF FlagsAgree, Members
        <3> QED
            BY <1>1, <1>3, <1>6, <2>1 DEF FlagsAgree, TypeOK
    <2>4. (Members(pending) \cup Members(waitlist) \subseteq constructed)'
        BY <1>1, <1>3, <2>1 DEF Members
    <2>5. \A d \in Callbacks : completed'[d] \/ connected'[d] => d \in constructed'
        BY <1>1, <1>3, <1>6 DEF TypeOK
    <2> QED
        BY <1>4, <2>2, <2>3, <2>4, <2>5
<1> QED
    BY <1>5, <1>6

\* Steps that change neither the flags nor the lists need only the stack.
LEMMA StackStepCallInv ==
    ASSUME CallInv,
           UNCHANGED <<constructed, completed, connected, waiting, waitlist,
                       pending>>,
           loaded' \in SUBSET Objfiles, paused' \in BOOLEAN, target' \in BOOLEAN,
           stack' \in Seq(Frames), StackOK(stack', constructed, waiting)
    PROVE  CallInv'
<1>1. TypeOK'
    BY DEF CallInv, TypeOK
<1>2. FlagsAgree'
    BY DEF CallInv, FlagsAgree, Members
<1>3. StackOK(stack', constructed', waiting')
    OBVIOUS
<1> QED
    BY <1>1, <1>2, <1>3 DEF CallInv, Members

LEMMA CallsCallInv ==
    ASSUME CallInv, Calls
    PROVE  CallInv'
<1>0. stack \in Seq(Frames) /\ StackOK(stack, constructed, waiting) /\ TypeOK
    BY DEF CallInv, TypeOK
<1>1. ASSUME NEW c \in Callbacks, Construct(c) \/ ConnectCallback(c)
      PROVE  CallInv'
    BY <1>1, ConstructCallInv, ConnectCallbackCallInv
<1>2. ASSUME NEW o \in Objfiles, NewObjfile(o)
      PROVE  CallInv'
    <2> DEFINE f == [op |-> "evaluate_all", pos |-> 1,
                     more |-> Cardinality(constructed) - 1]
    <2>1. constructed # {} => Cardinality(constructed) - 1 \in Nat
        <3>1. IsFiniteSet(constructed)
            BY <1>0, CallbacksAssumption, FS_Subset DEF TypeOK
        <3> QED
            BY <3>1, FS_CardinalityType, FS_EmptySet
    <2>2. constructed # {} => f \in Frames
        BY <2>1 DEF Frames, EvaluateAllFrame
    <2>3. f.op = "evaluate_all"
        OBVIOUS
    <2> HIDE DEF f
    <2>4. constructed # {} => /\ Push(f, stack) \in Seq(Frames)
                              /\ StackOK(Push(f, stack), constructed, waiting)
        BY <1>0, <2>2, <2>3, PushCall
    <2>5. stack' \in Seq(Frames) /\ StackOK(stack', constructed, waiting)
        BY <1>0, <1>2, <2>4 DEF NewObjfile, f
    <2> QED
        BY <1>0, <1>2, <2>5, StackStepCallInv
        DEF NewObjfile, TypeOK, flags, lists
<1>3. CASE Pause
    BY <1>0, <1>3, StackStepCallInv DEF Pause, TypeOK, flags, lists
<1>4. CASE Unpause
    <2> DEFINE f == [op |-> "evaluate_all", pos |-> 1, more |-> 0]
    <2>1. f \in Frames /\ f.op = "evaluate_all"
        BY DEF Frames, EvaluateAllFrame
    <2> HIDE DEF f
    <2>2. stack' \in Seq(Frames) /\ StackOK(stack', constructed, waiting)
        BY <1>0, <1>4, <2>1, PushCall DEF Unpause, f
    <2> QED
        BY <1>0, <1>4, <2>2, StackStepCallInv DEF Unpause, TypeOK, flags, lists
<1>5. CASE OpenTarget
    <2> DEFINE f == [op |-> "target_ready", pos |-> 1]
    <2>1. f \in Frames /\ f.op = "target_ready"
        BY DEF Frames, TargetReadyFrame
    <2> HIDE DEF f
    <2>2. stack' \in Seq(Frames) /\ StackOK(stack', constructed, waiting)
        BY <1>0, <1>5, <2>1, PushCall DEF OpenTarget, f
    <2> QED
        BY <1>0, <1>5, <2>2, StackStepCallInv
        DEF OpenTarget, TypeOK, flags, lists
<1> QED
    BY <1>1, <1>2, <1>3, <1>4, <1>5 DEF Calls

\* What _update_pending does to the invariant, given what it does to the list.
LEMMA UpdatePendingCallInv ==
    ASSUME CallInv, pending' = UpdatePending(connected),
           waitlist' \in {waitlist, <<>>},
           UNCHANGED <<constructed, completed, connected, waiting, paused,
                       loaded, target>>,
           stack' \in Seq(Frames), StackOK(stack', constructed, waiting)
    PROVE  CallInv'
<1>1. TypeOK /\ connected \in [Callbacks -> BOOLEAN]
    BY DEF CallInv, TypeOK
<1>2. /\ pending' \in Seq(Callbacks)
      /\ Members(pending') = {c \in Members(pending) : connected[c]}
    BY <1>1, UpdatePendingFacts
<1>3. waitlist' \in Seq(Callbacks) /\ Members(waitlist') \subseteq Members(waitlist)
    <2>1. waitlist \in Seq(Callbacks)
        BY <1>1 DEF TypeOK
    <2>2. <<>> \in Seq(Callbacks) /\ Members(<<>>) = {}
        BY DEF Members
    <2> QED
        BY <2>1, <2>2 DEF Members
<1>4. TypeOK'
    BY <1>1, <1>2, <1>3 DEF TypeOK
<1>5. FlagsAgree'
    BY <1>2 DEF CallInv, FlagsAgree, Members
<1>6. (Members(pending) \cup Members(waitlist) \subseteq constructed)'
    BY <1>2, <1>3 DEF CallInv, Members
<1>7. StackOK(stack', constructed', waiting')
    OBVIOUS
<1> QED
    BY <1>4, <1>5, <1>6, <1>7 DEF CallInv

LEMMA LoopsCallInv ==
    ASSUME CallInv,
           EvaluateAllStep \/ EvaluateAllDone \/ TargetReadyStep \/ TargetReadyDone
    PROVE  CallInv'
<1>0. /\ stack \in Seq(Frames) /\ StackOK(stack, constructed, waiting) /\ TypeOK
      /\ pending \in Seq(Callbacks) /\ waitlist \in Seq(Callbacks)
      /\ Members(pending) \subseteq constructed
      /\ Members(waitlist) \subseteq constructed
    BY DEF CallInv, TypeOK
<1>1. CASE EvaluateAllStep
    <2> DEFINE c == pending[Top.pos]
    <2>1. /\ stack # <<>> /\ Head(stack).op = "evaluate_all"
          /\ Top.pos <= Len(pending)
          /\ stack' = Evaluate(c, waiting[c], Advance(stack))
        BY <1>1 DEF EvaluateAllStep, Running, Top
    <2>2. Top \in EvaluateAllFrame
        BY <1>0, <2>1, FrameFields DEF Top
    <2>3. c \in Callbacks /\ c \in constructed
        BY <1>0, <2>1, <2>2 DEF EvaluateAllFrame, Members
    <2>4. /\ Advance(stack) \in Seq(Frames) /\ StackOK(Advance(stack), constructed, waiting)
          /\ Advance(stack) # <<>> /\ Head(Advance(stack)).op = "evaluate_all"
        BY <1>0, <2>1, AdvanceCall
    <2> HIDE DEF c
    <2>5. stack' \in Seq(Frames) /\ StackOK(stack', constructed, waiting)
        BY <2>1, <2>3, <2>4, EvaluateStack
    <2> QED
        BY <1>0, <1>1, <2>5, StackStepCallInv
        DEF EvaluateAllStep, TypeOK, flags, lists, world
<1>2. CASE EvaluateAllDone
    <2>1. stack # <<>> /\ Head(stack).op = "evaluate_all"
        BY <1>2 DEF EvaluateAllDone, Running, Top
    <2>2. stack' \in Seq(Frames) /\ StackOK(stack', constructed, waiting)
        BY <1>0, <1>2, <2>1, NextHandlerStack DEF EvaluateAllDone
    <2> QED
        BY <1>2, <2>2, UpdatePendingCallInv DEF EvaluateAllDone, flags, world
<1>3. CASE TargetReadyStep
    <2> DEFINE c == waitlist[Top.pos]
    <2>1. /\ stack # <<>> /\ Head(stack).op = "target_ready"
          /\ Top.pos <= Len(waitlist)
          /\ waiting' = [waiting EXCEPT ![c] = FALSE]
          /\ stack' = Evaluate(c, FALSE, Advance(stack))
          /\ UNCHANGED <<constructed, completed, connected, waitlist, pending,
                         paused, loaded, target>>
        BY <1>3 DEF TargetReadyStep, Running, Top, lists, world
    <2>2. Top \in TargetReadyFrame
        BY <1>0, <2>1, FrameFields DEF Top
    <2>3. c \in Callbacks /\ c \in constructed
        BY <1>0, <2>1, <2>2 DEF TargetReadyFrame, Members
    <2>4. /\ Advance(stack) \in Seq(Frames) /\ StackOK(Advance(stack), constructed, waiting)
          /\ Advance(stack) # <<>> /\ Head(Advance(stack)).op = "target_ready"
        BY <1>0, <2>1, AdvanceCall
    <2> HIDE DEF c
    <2>5. /\ waiting' \in [Callbacks -> BOOLEAN] /\ waiting'[c] = FALSE
          /\ \A d \in Callbacks : ~waiting[d] => ~waiting'[d]
        BY <1>0, <2>1, <2>3 DEF TypeOK
    <2>6. StackOK(Advance(stack), constructed, waiting')
        BY <1>0, <2>4, <2>5, StackMonotonic DEF TypeOK
    <2>7. stack' \in Seq(Frames) /\ StackOK(stack', constructed, waiting')
        BY <2>1, <2>3, <2>4, <2>5, <2>6, EvaluateStack
    <2>8. TypeOK'
        BY <1>0, <2>1, <2>5, <2>7 DEF TypeOK
    <2>9. FlagsAgree'
        BY <2>1, <2>5 DEF CallInv, FlagsAgree, Members
    <2>10. StackOK(stack', constructed', waiting')
        BY <2>1, <2>7
    <2> QED
        BY <2>1, <2>8, <2>9, <2>10 DEF CallInv, Members
<1>4. CASE TargetReadyDone
    <2>1. stack # <<>>
        BY <1>4 DEF TargetReadyDone, Running
    <2>2. stack' \in Seq(Frames) /\ StackOK(stack', constructed, waiting)
        BY <1>0, <1>4, <2>1, PopCall DEF TargetReadyDone
    <2> QED
        BY <1>4, <2>2, UpdatePendingCallInv DEF TargetReadyDone, flags, world
<1> QED
    BY <1>1, <1>2, <1>3, <1>4

\* The body on top of the stack, and the call below that evaluated it.
LEMMA BodyOnTop ==
    ASSUME CallInv, Running("callback")
    PROVE  /\ stack \in Seq(Frames) /\ stack # <<>> /\ Len(stack) > 1
           /\ Top.cb \in Callbacks /\ Top.cb \in constructed
           /\ ~waiting[Top.cb]
           /\ Tail(stack) \in Seq(Frames) /\ Tail(stack) # <<>>
           /\ Head(Tail(stack)) = stack[2] /\ stack[2].op # "callback"
           /\ StackOK(Tail(stack), constructed, waiting)
<1>1. /\ stack \in Seq(Frames) /\ StackOK(stack, constructed, waiting)
      /\ stack # <<>> /\ Top.op = "callback" /\ Top = stack[1]
      /\ 1 \in 1..Len(stack) /\ stack[1] \in Frames
    BY DEF CallInv, TypeOK, Running, Top
<1>2. /\ stack[1].cb \in constructed /\ ~waiting[stack[1].cb]
      /\ 1 < Len(stack) /\ stack[2].op # "callback"
    BY <1>1 DEF StackOK
<1>3. Top.cb \in Callbacks
    BY <1>1, FrameFields
<1>4. Tail(stack) \in Seq(Frames) /\ StackOK(Tail(stack), constructed, waiting)
    BY <1>1, PopCall
<1>5. /\ Len(Tail(stack)) = Len(stack) - 1 /\ Tail(stack)[1] = stack[2]
    BY <1>1, <1>2
<1>6. Tail(stack) # <<>> /\ Head(Tail(stack)) = stack[2]
    <2> DEFINE t == Tail(stack)
    <2>1. t \in Seq(Frames) /\ Len(t) > 0 /\ t[1] = stack[2]
        BY <1>1, <1>2, <1>4, <1>5
    <2> HIDE DEF t
    <2>2. t # <<>> /\ Head(t) = t[1]
        BY <2>1
    <2> QED
        BY <2>1, <2>2 DEF t
<1> QED
    BY <1>1, <1>2, <1>3, <1>4, <1>6

LEMMA UnwindStack ==
    ASSUME CallInv, Running("callback"), Unwind
    PROVE  stack' \in Seq(Frames) /\ StackOK(stack', constructed, waiting)
<1> DEFINE caller == Tail(stack)
<1>1. /\ caller \in Seq(Frames) /\ caller # <<>>
      /\ StackOK(caller, constructed, waiting)
    BY BodyOnTop
<1>2. stack' = IF Head(caller).op = "evaluate_all" THEN NextHandler(caller)
               ELSE Tail(caller)
    BY DEF Unwind
<1> HIDE DEF caller
<1>3. CASE Head(caller).op = "evaluate_all"
    BY <1>1, <1>2, <1>3, NextHandlerStack
<1>4. CASE Head(caller).op # "evaluate_all"
    BY <1>1, <1>2, <1>4, PopCall
<1> QED
    BY <1>3, <1>4

LEMMA BodiesCallInv ==
    ASSUME CallInv, BodyDone \/ BodyDoneAgain \/ BodyRetry \/ BodyException
    PROVE  CallInv'
<1>0. TypeOK /\ Running("callback")
    BY DEF CallInv, BodyDone, BodyDoneAgain, BodyRetry, BodyException
<1>1. CASE BodyDone
    <2> DEFINE c == Top.cb
    <2>1. /\ c \in Callbacks /\ c \in constructed /\ ~waiting[c]
          /\ Tail(stack) \in Seq(Frames)
          /\ StackOK(Tail(stack), constructed, waiting)
        BY <1>0, BodyOnTop
    <2>2. /\ completed' = [completed EXCEPT ![c] = TRUE]
          /\ connected' = [connected EXCEPT ![c] = FALSE]
          /\ pending' \in {pending, UpdatePending(connected')}
          /\ stack' = Tail(stack)
          /\ UNCHANGED <<constructed, waiting, waitlist, paused, loaded, target>>
        BY <1>1 DEF BodyDone, Complete, world
    <2> HIDE DEF c
    <2>3. /\ completed' \in [Callbacks -> BOOLEAN]
          /\ connected' \in [Callbacks -> BOOLEAN]
        BY <1>0, <2>2 DEF TypeOK
    <2>4. /\ pending' \in Seq(Callbacks)
          /\ Members(pending') \subseteq Members(pending)
          /\ \A d \in Members(pending) : connected'[d] => d \in Members(pending')
        <3>1. CASE pending' = pending
            BY <1>0, <3>1 DEF TypeOK, Members
        <3>2. CASE pending' = UpdatePending(connected')
            BY <1>0, <2>3, <3>2, UpdatePendingFacts
        <3> QED
            BY <2>2, <3>1, <3>2
    <2>5. TypeOK'
        BY <1>0, <2>1, <2>2, <2>3, <2>4 DEF TypeOK
    <2>6. FlagsAgree'
        <3> SUFFICES ASSUME NEW d \in Callbacks
                     PROVE  /\ completed'[d] => ~connected'[d] /\ ~waiting'[d]
                            /\ connected'[d] => d \in Members(pending')
            BY DEF FlagsAgree, Members
        <3> QED
            BY <1>0, <2>1, <2>2, <2>4 DEF CallInv, FlagsAgree, TypeOK
    <2>7. (Members(pending) \cup Members(waitlist) \subseteq constructed)'
        BY <2>2, <2>4 DEF CallInv, Members
    <2>8. \A d \in Callbacks : completed'[d] \/ connected'[d] => d \in constructed'
        BY <1>0, <2>1, <2>2 DEF CallInv, TypeOK
    <2>9. StackOK(stack', constructed', waiting')
        BY <2>1, <2>2
    <2> QED
        BY <2>5, <2>6, <2>7, <2>8, <2>9 DEF CallInv
<1>2. CASE BodyDoneAgain
    BY <1>0, <1>2, UnwindStack, StackStepCallInv
    DEF BodyDoneAgain, TypeOK, flags, lists, world
<1>3. CASE BodyRetry
    BY <1>0, <1>3, BodyOnTop, StackStepCallInv
    DEF BodyRetry, TypeOK, flags, lists, world
<1>4. CASE BodyException
    BY <1>0, <1>4, UnwindStack, StackStepCallInv
    DEF BodyException, TypeOK, flags, lists, world
<1> QED
    BY <1>1, <1>2, <1>3, <1>4

LEMMA StutterCallInv ==
    ASSUME CallInv, UNCHANGED vars
    PROVE  CallInv'
BY StackStepCallInv DEF CallInv, TypeOK, vars

LEMMA NextCallInv == CallInv /\ [Next]_vars => CallInv'
BY CallsCallInv, ConnectReturnCallInv, LoopsCallInv, BodiesCallInv, StutterCallInv
DEF Next, Steps

(***************************************************************************)
(* The registry's variables keep their types, and a completed callback is  *)
(* neither connected nor waiting and a connected one is on the pending     *)
(* list, whatever the bodies raise and however the calls nest.             *)
(***************************************************************************)
THEOREM RegistryInvariant == Spec => []CallInv
BY InitCallInv, NextCallInv, PTL DEF Spec

\* Every variable of the registry keeps its type.
THEOREM TypeCorrect == Spec => []TypeOK
<1>1. CallInv => TypeOK
    BY DEF CallInv
<1> QED
    BY <1>1, RegistryInvariant, PTL

\* complete() and connect_callback never leave an object both complete and
\* connected or waiting, nor a connected one off the pending list.
THEOREM FlagsAlwaysAgree == Spec => []FlagsAgree
<1>1. CallInv => FlagsAgree
    BY DEF CallInv
<1> QED
    BY <1>1, RegistryInvariant, PTL

-----------------------------------------------------------------------------
(***************************************************************************)
(* What the registry guarantees when its callbacks are tame, as every      *)
(* callback in this repository is meant to be: none is entered after it    *)
(* has completed, the lists hold what they should, and no wake-up is lost. *)
(***************************************************************************)

-----------------------------------------------------------------------------
(* The three shapes of the stack.                                            *)

LEMMA EmptyStack ==
    ASSUME NEW op
    PROVE  /\ PosOf(<<>>, op) = 1
           /\ Subjects(<<>>, op) = {}
BY DEF PosOf, Subjects

LEMMA OneFrame ==
    ASSUME NEW f \in Frames, NEW op
    PROVE  /\ PosOf(<<f>>, op) = IF f.op = op THEN f.pos ELSE 1
           /\ Subjects(<<f>>, op) = {c \in Callbacks : f.op = op /\ f.cb = c}
           /\ Head(<<f>>) = f /\ Tail(<<f>>) = <<>> /\ Len(<<f>>) = 1
           /\ <<f>> # <<>> /\ <<f>>[1] = f
BY DEF PosOf, Subjects

LEMMA PushOne ==
    ASSUME NEW f \in Frames
    PROVE  Push(f, <<>>) = <<f>>
BY DEF Push

LEMMA PushTwo ==
    ASSUME NEW g \in Frames, NEW f \in Frames
    PROVE  Push(g, <<f>>) = <<g, f>>
<1>1. <<f>> \in Seq(Frames)
    OBVIOUS
<1>2. PICK s \in Seq(Frames) : s = <<f>>
    BY <1>1
<1>3. Len(s) = 1 /\ s[1] = f
    BY <1>2
<1>4. /\ Push(g, s) \in Seq(Frames)
      /\ Len(Push(g, s)) = Len(s) + 1
      /\ Push(g, s)[1] = g
      /\ \A k \in 2..(Len(s) + 1) : Push(g, s)[k] = s[k - 1]
    BY PushFacts
<1>5. PICK t \in Seq(Frames) : t = Push(g, s)
    BY <1>4
<1>6. Len(t) = 2 /\ t[1] = g /\ t[2] = f
    BY <1>3, <1>4, <1>5
<1>7. t = <<t[1], t[2]>>
    BY <1>6
<1> QED
    BY <1>2, <1>5, <1>6, <1>7

LEMMA TwoFrames ==
    ASSUME NEW g \in Frames, NEW f \in Frames
    PROVE  /\ Head(<<g, f>>) = g /\ Tail(<<g, f>>) = <<f>> /\ Len(<<g, f>>) = 2
           /\ <<g, f>> # <<>> /\ <<g, f>>[1] = g /\ <<g, f>>[2] = f
OBVIOUS

LEMMA TwoFramesPos ==
    ASSUME NEW g \in Frames, NEW f \in Frames, NEW op
    PROVE  PosOf(<<g, f>>, op) = IF f.op = op THEN f.pos ELSE 1
BY TwoFrames DEF PosOf

LEMMA TwoFramesSubjects ==
    ASSUME NEW g \in Frames, NEW f \in Frames, NEW op
    PROVE  Subjects(<<g, f>>, op) =
               {c \in Callbacks : (g.op = op /\ g.cb = c) \/
                                  (f.op = op /\ f.cb = c)}
<1>1. 1..2 = {1, 2}
    OBVIOUS
<1>2. Subjects(<<g, f>>, op) =
          {c \in Callbacks : \E k \in {1, 2} : /\ <<g, f>>[k].op = op
                                               /\ <<g, f>>[k].cb = c}
    BY <1>1, TwoFrames DEF Subjects
<1> QED
    BY <1>2, TwoFrames

\* A call in progress that is not calling a body.
LEMMA CallOnly ==
    ASSUME NEW f \in Frames, f.op # "callback"
    PROVE  /\ Subjects(<<f>>, "callback") = {}
           /\ Subjects(<<f>>, "connect_callback") =
                  IF f.op = "connect_callback" THEN {f.cb} ELSE {}
           /\ PosOf(<<f>>, "evaluate_all") =
                  IF f.op = "evaluate_all" THEN f.pos ELSE 1
           /\ PosOf(<<f>>, "target_ready") =
                  IF f.op = "target_ready" THEN f.pos ELSE 1
<1>1. f.op = "connect_callback" => f.cb \in Callbacks
    BY FrameFields
<1> QED
    BY <1>1, OneFrame

\* A body that runs on behalf of the call below.
LEMMA BodyOver ==
    ASSUME NEW g \in Frames, g.op = "callback",
           NEW f \in Frames, f.op # "callback"
    PROVE  /\ Subjects(<<g, f>>, "callback") = {g.cb}
           /\ Subjects(<<g, f>>, "connect_callback") =
                  IF f.op = "connect_callback" THEN {f.cb} ELSE {}
           /\ PosOf(<<g, f>>, "evaluate_all") =
                  IF f.op = "evaluate_all" THEN f.pos ELSE 1
           /\ PosOf(<<g, f>>, "target_ready") =
                  IF f.op = "target_ready" THEN f.pos ELSE 1
<1>1. g.cb \in Callbacks /\ (f.op = "connect_callback" => f.cb \in Callbacks)
    BY FrameFields
<1>2. Subjects(<<g, f>>, "callback") =
          {c \in Callbacks : (g.op = "callback" /\ g.cb = c) \/
                             (f.op = "callback" /\ f.cb = c)}
    BY TwoFramesSubjects
<1>3. Subjects(<<g, f>>, "connect_callback") =
          {c \in Callbacks : (g.op = "connect_callback" /\ g.cb = c) \/
                             (f.op = "connect_callback" /\ f.cb = c)}
    BY TwoFramesSubjects
<1>4. /\ PosOf(<<g, f>>, "evaluate_all") =
             IF f.op = "evaluate_all" THEN f.pos ELSE 1
      /\ PosOf(<<g, f>>, "target_ready") =
             IF f.op = "target_ready" THEN f.pos ELSE 1
    BY TwoFramesPos
<1> QED
    BY <1>1, <1>2, <1>3, <1>4

LEMMA TakenFacts ==
    ASSUME NEW S, NEW s \in Seq(S), NEW pos \in Nat \ {0}
    PROVE  /\ Taken(s, 1) = {}
           /\ Taken(s, pos) \subseteq Members(s)
           /\ pos > Len(s) => Taken(s, pos) = Members(s)
           /\ pos <= Len(s) => Taken(s, pos + 1) = Taken(s, pos) \cup {s[pos]}
           /\ pos <= Len(s) /\ NoDuplicates(s) => s[pos] \notin Taken(s, pos)
           /\ pos <= Len(s) => s[pos] \in Members(s) /\ s[pos] \in S
<1>1. DOMAIN s = 1..Len(s) /\ Len(s) \in Nat
    OBVIOUS
<1>2. Taken(s, 1) = {}
    BY <1>1 DEF Taken
<1>3. Taken(s, pos) \subseteq Members(s)
    BY <1>1 DEF Taken, Members
<1>4. pos > Len(s) => Taken(s, pos) = Members(s)
    BY <1>1 DEF Taken, Members
<1>5. pos <= Len(s) => Taken(s, pos + 1) = Taken(s, pos) \cup {s[pos]}
    <2> SUFFICES ASSUME pos <= Len(s)
                 PROVE  Taken(s, pos + 1) = Taken(s, pos) \cup {s[pos]}
        OBVIOUS
    <2>1. {j \in 1..Len(s) : j < pos + 1} = {j \in 1..Len(s) : j < pos} \cup {pos}
        BY <1>1
    <2> QED
        BY <2>1 DEF Taken
<1>6. pos <= Len(s) /\ NoDuplicates(s) => s[pos] \notin Taken(s, pos)
    BY <1>1 DEF Taken, NoDuplicates
<1>7. pos <= Len(s) => s[pos] \in Members(s) /\ s[pos] \in S
    BY <1>1 DEF Members
<1> QED
    BY <1>2, <1>3, <1>4, <1>5, <1>6, <1>7

LEMMA Shapes ==
    ASSUME stack \in Seq(Frames), StackShape
    PROVE  \/ stack = <<>>
           \/ \E f \in Frames : f.op # "callback" /\ stack = <<f>>
           \/ \E g, f \in Frames : /\ g.op = "callback" /\ f.op # "callback"
                                   /\ stack = <<g, f>>
<1>1. Len(stack) \in Nat /\ Len(stack) <= 2
    BY DEF StackShape
<1>2. CASE Len(stack) = 0
    BY <1>2
<1>3. CASE Len(stack) = 1
    <2>1. stack[1] \in Frames /\ stack[1].op # "callback" /\ stack = <<stack[1]>>
        BY <1>3 DEF StackShape
    <2> QED
        BY <2>1
<1>4. CASE Len(stack) = 2
    <2>1. /\ stack[1] \in Frames /\ stack[1].op = "callback"
          /\ stack[2] \in Frames /\ stack[2].op # "callback"
          /\ stack = <<stack[1], stack[2]>>
        BY <1>4 DEF StackShape
    <2> QED
        BY <2>1
<1>5. Len(stack) = 0 \/ Len(stack) = 1 \/ Len(stack) = 2
    <2>1. \A n \in Nat : n <= 2 => n = 0 \/ n = 1 \/ n = 2
        OBVIOUS
    <2> QED
        BY <1>1, <2>1
<1> QED
    BY <1>2, <1>3, <1>4, <1>5

\* Nothing is called back: the registry is entered when no call is in progress.
LEMMA OuterCalls ==
    ASSUME Tame, CanCall
    PROVE  stack = <<>>
BY DEF Tame, CanCall
-----------------------------------------------------------------------------
(* One lemma for each action; CallInv' is known from NextCallInv.            *)

LEMMA InitTame == Init => TameInv
<1> SUFFICES ASSUME Init PROVE TameInv
    OBVIOUS
<1>1. CallInv
    BY InitCallInv
<1>2. stack = <<>> /\ pending = <<>> /\ waitlist = <<>>
    BY DEF Init
<1>3. /\ Members(pending) = {} /\ Members(waitlist) = {}
      /\ NoDuplicates(pending) /\ NoDuplicates(waitlist)
    BY <1>2 DEF Members, NoDuplicates
<1>4. Connecting = {} /\ InBody = {}
    BY <1>2, EmptyStack DEF Connecting, InBody
<1>5. StackShape
    BY <1>2 DEF StackShape
<1>6. \A c \in Callbacks : ~connected[c] /\ ~waiting[c]
    BY DEF Init
<1> QED
    BY <1>1, <1>3, <1>4, <1>5, <1>6
    DEF TameInv, CurrentOK, PendingOK, WaitlistOK, WaitingListed, DueOK

\* The state between two calls.
LEMMA IdleFacts ==
    ASSUME TameInv, stack = <<>>
    PROVE  /\ Connecting = {} /\ InBody = {} /\ Evaluated = {} /\ Woken = {}
           /\ \A c \in Members(pending) : connected[c]
           /\ \A c \in Members(waitlist) : connected[c] /\ waiting[c]
           /\ \A c \in Callbacks : connected[c] /\ waiting[c] =>
                                      c \in Members(waitlist)
           /\ \A c \in Callbacks : connected[c] => c \in Members(pending)
           /\ \A c \in Callbacks : connected[c] /\ ~paused => ~Due(c)
           /\ pending \in Seq(Callbacks) /\ waitlist \in Seq(Callbacks)
<1>1. pending \in Seq(Callbacks) /\ waitlist \in Seq(Callbacks)
    BY DEF TameInv, CallInv, TypeOK
<1>2. Connecting = {} /\ InBody = {}
    BY EmptyStack DEF Connecting, InBody
<1>3. Taken(pending, 1) = {} /\ Taken(waitlist, 1) = {}
    BY <1>1, TakenFacts
<1>4. Evaluated = {} /\ Woken = {}
    BY <1>3, EmptyStack DEF Evaluated, Woken
<1>5. \A c \in Members(pending) : connected[c]
    BY <1>4 DEF TameInv, PendingOK
<1>6. \A c \in Members(waitlist) : connected[c] /\ waiting[c]
    BY <1>2, <1>4, <1>5 DEF TameInv, WaitlistOK
<1>7. \A c \in Callbacks : connected[c] /\ waiting[c] => c \in Members(waitlist)
    BY DEF TameInv, WaitingListed
<1>8. \A c \in Callbacks : connected[c] => c \in Members(pending)
    BY DEF TameInv, CallInv, FlagsAgree
<1>9. \A c \in Callbacks : connected[c] /\ ~paused => ~Due(c)
    BY <1>2 DEF TameInv, DueOK
<1> QED
    BY <1>1, <1>2, <1>4, <1>5, <1>6, <1>7, <1>8, <1>9

\* The state at the start of a call that changes no flag and no list.
LEMMA StartTame ==
    ASSUME TameInv, stack = <<>>, CallInv',
           UNCHANGED <<completed, connected, waiting, waitlist, pending>>,
           NEW f \in Frames, stack' = <<f>>,
           f.op \in {"evaluate_all", "target_ready"}, f.pos = 1,
           f.op = "target_ready" => UNCHANGED <<loaded, paused>>
    PROVE  TameInv'
<1>1. /\ Connecting' = {} /\ InBody' = {}
      /\ PosOf(stack', "evaluate_all") = 1 /\ PosOf(stack', "target_ready") = 1
    BY CallOnly DEF Connecting, InBody
<1>2. pending \in Seq(Callbacks) /\ waitlist \in Seq(Callbacks)
    BY IdleFacts
<1>3. Taken(pending, 1) = {} /\ Taken(waitlist, 1) = {}
    BY <1>2, TakenFacts
<1>4. Evaluated' = {} /\ Woken' = {}
    BY <1>1, <1>3 DEF Evaluated, Woken
<1>5. StackShape'
    BY OneFrame DEF StackShape
<1>6. /\ Members(pending)' = Members(pending)
      /\ Members(waitlist)' = Members(waitlist)
      /\ NoDuplicates(pending)' /\ NoDuplicates(waitlist)'
    BY DEF TameInv, Members, NoDuplicates
<1>7. PendingOK'
    BY <1>6, IdleFacts DEF PendingOK
<1>8. WaitlistOK'
    BY <1>4, <1>6, IdleFacts DEF WaitlistOK, CallInv, TypeOK
<1>9. WaitingListed'
    BY <1>1, <1>6, IdleFacts DEF WaitingListed
<1>10. CurrentOK'
    BY <1>1 DEF CurrentOK
<1>11. DueOK'
    <2>1. CASE f.op = "evaluate_all"
        <3>1. stack' # <<>> /\ stack'[Len(stack')].op = "evaluate_all"
            BY <2>1, OneFrame
        <3> QED
            BY <1>1, <1>4, <3>1 DEF DueOK
    <2>2. CASE f.op = "target_ready"
        <3>1. \A c \in Callbacks : Due(c)' = Due(c)
            BY <2>2 DEF Due, Ready
        <3>2. \A c \in Callbacks : connected[c] /\ ~paused => ~Due(c)
            BY IdleFacts
        <3> QED
            BY <1>1, <2>2, <3>1, <3>2 DEF DueOK
    <2> QED
        BY <2>1, <2>2
<1> QED
    BY <1>5, <1>6, <1>7, <1>8, <1>9, <1>10, <1>11 DEF TameInv

LEMMA ConstructTame ==
    ASSUME Tame, TameInv, CallInv', NEW c \in Callbacks, Construct(c)
    PROVE  TameInv'
<1>1. /\ stack = <<>> /\ c \notin constructed
      /\ waiting' = [waiting EXCEPT ![c] = c \in WaitForTarget /\ ~target]
      /\ UNCHANGED <<completed, connected, waitlist, pending, paused, loaded,
                     stack>>
    BY OuterCalls DEF Construct, lists
<1>2. /\ ~connected[c] /\ c \notin Members(pending)
      /\ c \notin Members(waitlist)
      /\ waiting \in [Callbacks -> BOOLEAN]
    BY <1>1 DEF TameInv, CallInv, TypeOK
<1>3. \A d \in Callbacks : d # c => waiting'[d] = waiting[d]
    BY <1>1, <1>2
<1>4. /\ Connecting' = Connecting /\ InBody' = InBody /\ Evaluated' = Evaluated
      /\ Woken' = Woken /\ StackShape'
      /\ Members(pending)' = Members(pending)
      /\ Members(waitlist)' = Members(waitlist)
      /\ NoDuplicates(pending)' /\ NoDuplicates(waitlist)'
    BY <1>1 DEF TameInv, Connecting, InBody, Evaluated, Woken, StackShape,
                Members, NoDuplicates
<1>5. Members(waitlist) \subseteq Callbacks /\ Members(pending) \subseteq Callbacks
    BY <1>1, IdleFacts DEF Members
<1>6. Connecting = {} /\ InBody = {}
    BY <1>1, IdleFacts
<1>7. PendingOK' /\ CurrentOK'
    BY <1>1, <1>4 DEF TameInv, PendingOK, CurrentOK
<1>8. WaitlistOK'
    BY <1>1, <1>2, <1>3, <1>4, <1>5 DEF TameInv, WaitlistOK
<1>9. WaitingListed'
    BY <1>1, <1>2, <1>3, <1>4, <1>6 DEF TameInv, WaitingListed
<1>10. DueOK'
    <2>1. \A d \in Callbacks : d # c => Due(d)' = Due(d)
        BY <1>1, <1>3 DEF Due, Ready
    <2>2. \A d \in Callbacks : connected[d] /\ ~paused => ~Due(d)
        BY <1>1, IdleFacts
    <2> QED
        BY <1>1, <1>2, <1>4, <1>6, <2>1, <2>2 DEF DueOK
<1> QED
    BY <1>4, <1>7, <1>8, <1>9, <1>10 DEF TameInv

\* connect_callback puts its object on the waitlist or calls it if it is due.
LEMMA ConnectCallbackTame ==
    ASSUME Tame, TameInv, CallInv', NEW c \in Callbacks, ConnectCallback(c)
    PROVE  TameInv'
<1> DEFINE f == [op |-> "connect_callback", cb |-> c]
           g == [op |-> "callback", cb |-> c]
<1>1. f \in Frames /\ g \in Frames
    BY DEF Frames, ConnectFrame, BodyFrame
<1>2. /\ f.op = "connect_callback" /\ f.cb = c
      /\ g.op = "callback" /\ g.cb = c
    OBVIOUS
<1> HIDE DEF f, g
<1>3. stack = <<>> /\ ~completed[c] /\ ~connected[c]
    BY OuterCalls DEF ConnectCallback
<1>4. Push(f, stack) = <<f>> /\ Push(g, <<f>>) = <<g, f>>
    BY <1>1, <1>3, PushOne, PushTwo
<1>5. stack' = IF loaded # {} /\ ~waiting[c] /\ Ready(c) THEN <<g, f>> ELSE <<f>>
    BY <1>4 DEF ConnectCallback, Evaluate, f, g
<1>6. /\ waitlist' = IF waiting[c] THEN Append(waitlist, c) ELSE waitlist
      /\ UNCHANGED <<completed, connected, waiting, pending, paused, loaded>>
    BY DEF ConnectCallback, flags, world
<1>7. /\ Connecting' = {c}
      /\ InBody' = IF loaded # {} /\ ~waiting[c] /\ Ready(c) THEN {c} ELSE {}
      /\ PosOf(stack', "evaluate_all") = 1 /\ PosOf(stack', "target_ready") = 1
    <2>1. CASE loaded # {} /\ ~waiting[c] /\ Ready(c)
        <3>1. stack' = <<g, f>>
            BY <1>5, <2>1
        <3>2. Connecting' = {c} /\ InBody' = {c}
            BY <1>1, <1>2, <3>1, BodyOver DEF Connecting, InBody
        <3>3. /\ PosOf(stack', "evaluate_all") = 1
              /\ PosOf(stack', "target_ready") = 1
            BY <1>1, <1>2, <3>1, BodyOver
        <3> QED
            BY <2>1, <3>2, <3>3
    <2>2. CASE ~(loaded # {} /\ ~waiting[c] /\ Ready(c))
        <3>1. stack' = <<f>>
            BY <1>5, <2>2
        <3>2. Connecting' = {c} /\ InBody' = {}
            BY <1>1, <1>2, <3>1, CallOnly DEF Connecting, InBody
        <3>3. /\ PosOf(stack', "evaluate_all") = 1
              /\ PosOf(stack', "target_ready") = 1
            BY <1>1, <1>2, <3>1, CallOnly
        <3> QED
            BY <2>2, <3>2, <3>3
    <2> QED
        BY <2>1, <2>2
<1>8. StackShape'
    BY <1>1, <1>2, <1>5, OneFrame, TwoFrames DEF StackShape
<1>9. /\ pending' \in Seq(Callbacks) /\ waitlist' \in Seq(Callbacks)
    BY DEF CallInv, TypeOK
<1>10. Evaluated' = {} /\ Woken' = {}
    BY <1>7, <1>9, TakenFacts DEF Evaluated, Woken
<1>11. c \notin Members(pending) /\ c \notin Members(waitlist)
    BY <1>3, IdleFacts
<1>12. /\ Members(pending)' = Members(pending)
       /\ NoDuplicates(pending)' /\ NoDuplicates(waitlist)'
       /\ Members(waitlist)' = IF waiting[c] THEN Members(waitlist) \cup {c}
                               ELSE Members(waitlist)
    <2>1. waitlist \in Seq(Callbacks)
        BY <1>3, IdleFacts
    <2>2. /\ Members(Append(waitlist, c)) = Members(waitlist) \cup {c}
          /\ NoDuplicates(Append(waitlist, c))
        BY <1>11, <2>1, MembersAppend DEF TameInv
    <2> QED
        BY <1>6, <2>2 DEF TameInv, Members, NoDuplicates
<1>13. PendingOK'
    BY <1>3, <1>6, <1>12, IdleFacts DEF PendingOK
<1>14. WaitlistOK'
    BY <1>3, <1>6, <1>7, <1>10, <1>12, IdleFacts DEF WaitlistOK, CallInv, TypeOK
<1>15. WaitingListed'
    BY <1>3, <1>6, <1>7, <1>12, IdleFacts DEF WaitingListed
<1>16. CurrentOK'
    BY <1>3, <1>6, <1>7, <1>11, <1>12 DEF CurrentOK
<1>17. DueOK'
    <2>1. \A d \in Callbacks : Due(d)' = Due(d)
        BY <1>6 DEF Due, Ready
    <2>2. \A d \in Callbacks : connected[d] /\ ~paused => ~Due(d)
        BY <1>3, IdleFacts
    <2>3. Due(c) => c \in InBody'
        BY <1>7 DEF Due
    <2> QED
        BY <1>6, <1>7, <2>1, <2>2, <2>3 DEF DueOK
<1> QED
    BY <1>8, <1>12, <1>13, <1>14, <1>15, <1>16, <1>17 DEF TameInv

LEMMA CallsTame ==
    ASSUME Tame, TameInv, CallInv', Calls
    PROVE  TameInv'
<1>1. ASSUME NEW c \in Callbacks, Construct(c) \/ ConnectCallback(c)
      PROVE  TameInv'
    BY <1>1, ConstructTame, ConnectCallbackTame
<1>2. ASSUME NEW o \in Objfiles, NewObjfile(o)
      PROVE  TameInv'
    <2>1. /\ stack = <<>>
          /\ UNCHANGED <<completed, connected, waiting, waitlist, pending, paused>>
        BY <1>2, OuterCalls DEF NewObjfile, flags, lists
    <2>2. CASE paused \/ constructed = {}
        <3>1. stack' = stack
            BY <1>2, <2>2 DEF NewObjfile
        <3>2. \A c \in Callbacks : ~(connected[c] /\ ~paused)
            BY <2>2 DEF TameInv, CallInv
        <3>3. Connecting = {} /\ InBody = {}
            BY <2>1, IdleFacts
        <3>4. /\ Connecting' = Connecting /\ InBody' = InBody
              /\ Evaluated' = Evaluated /\ Woken' = Woken /\ StackShape'
              /\ Members(pending)' = Members(pending)
              /\ Members(waitlist)' = Members(waitlist)
              /\ NoDuplicates(pending)' /\ NoDuplicates(waitlist)'
            BY <2>1, <3>1 DEF TameInv, Connecting, InBody, Evaluated, Woken,
                              StackShape, Members, NoDuplicates
        <3>5. DueOK'
            BY <2>1, <3>2, <3>3, <3>4 DEF DueOK
        <3>6. PendingOK' /\ CurrentOK' /\ WaitlistOK' /\ WaitingListed'
            BY <2>1, <3>4 DEF TameInv, PendingOK, CurrentOK, WaitlistOK,
                              WaitingListed
        <3> QED
            BY <3>4, <3>5, <3>6 DEF TameInv
    <2>3. CASE ~(paused \/ constructed = {})
        <3> DEFINE f == [op |-> "evaluate_all", pos |-> 1,
                         more |-> Cardinality(constructed) - 1]
        <3>1. stack' = Push(f, <<>>)
            BY <1>2, <2>1, <2>3 DEF NewObjfile
        <3>2. f.op = "evaluate_all" /\ f.pos = 1
            OBVIOUS
        <3> HIDE DEF f
        <3>3. stack' = <<f>>
            BY <3>1 DEF Push
        <3>4. f \in Frames
            BY <3>3 DEF CallInv, TypeOK
        <3> QED
            BY <2>1, <3>2, <3>3, <3>4, StartTame
    <2> QED
        BY <2>2, <2>3
<1>3. CASE Pause
    <2>1. /\ stack = <<>> /\ paused' = TRUE
          /\ UNCHANGED <<completed, connected, waiting, waitlist, pending,
                         loaded, stack>>
        BY <1>3, OuterCalls DEF Pause, flags, lists
    <2>2. /\ Connecting' = Connecting /\ InBody' = InBody
          /\ Evaluated' = Evaluated /\ Woken' = Woken /\ StackShape'
          /\ Members(pending)' = Members(pending)
          /\ Members(waitlist)' = Members(waitlist)
          /\ NoDuplicates(pending)' /\ NoDuplicates(waitlist)'
        BY <2>1 DEF TameInv, Connecting, InBody, Evaluated, Woken,
                    StackShape, Members, NoDuplicates
    <2>3. Connecting = {}
        BY <2>1, IdleFacts
    <2>4. DueOK'
        BY <2>1, <2>2, <2>3 DEF DueOK
    <2>5. PendingOK' /\ CurrentOK' /\ WaitlistOK' /\ WaitingListed'
        BY <2>1, <2>2 DEF TameInv, PendingOK, CurrentOK, WaitlistOK, WaitingListed
    <2> QED
        BY <2>2, <2>4, <2>5 DEF TameInv
<1>4. CASE Unpause
    <2> DEFINE f == [op |-> "evaluate_all", pos |-> 1, more |-> 0]
    <2>1. /\ stack = <<>> /\ stack' = Push(f, <<>>)
          /\ UNCHANGED <<completed, connected, waiting, waitlist, pending>>
        BY <1>4, OuterCalls DEF Unpause, flags, lists
    <2>2. f.op = "evaluate_all" /\ f.pos = 1
        OBVIOUS
    <2> HIDE DEF f
    <2>3. stack' = <<f>>
        BY <2>1 DEF Push
    <2>4. f \in Frames
        BY <2>3 DEF CallInv, TypeOK
    <2> QED
        BY <2>1, <2>2, <2>3, <2>4, StartTame
<1>5. CASE OpenTarget
    <2> DEFINE f == [op |-> "target_ready", pos |-> 1]
    <2>1. /\ stack = <<>> /\ stack' = Push(f, <<>>)
          /\ UNCHANGED <<completed, connected, waiting, waitlist, pending,
                         loaded, paused>>
        BY <1>5 DEF OpenTarget, flags, lists
    <2>2. f.op = "target_ready" /\ f.pos = 1
        OBVIOUS
    <2> HIDE DEF f
    <2>3. stack' = <<f>>
        BY <2>1 DEF Push
    <2>4. f \in Frames
        BY <2>3 DEF CallInv, TypeOK
    <2> QED
        BY <2>1, <2>2, <2>3, <2>4, StartTame
<1> QED
    BY <1>1, <1>2, <1>3, <1>4, <1>5 DEF Calls

\* A call on top of the stack is the only one.
LEMMA CallOnTop ==
    ASSUME TameInv, NEW op, op # "callback", Running(op)
    PROVE  Top \in Frames /\ Top.op = op /\ stack = <<Top>> /\ stack # <<>>
<1>1. stack \in Seq(Frames) /\ StackShape /\ stack # <<>> /\ Top.op = op
    BY DEF TameInv, CallInv, TypeOK, Running
<1>2. CASE \E f \in Frames : f.op # "callback" /\ stack = <<f>>
    BY <1>1, <1>2, OneFrame DEF Top
<1>3. CASE \E g, f \in Frames : /\ g.op = "callback" /\ f.op # "callback"
                                /\ stack = <<g, f>>
    BY <1>1, <1>3, TwoFrames DEF Top
<1> QED
    BY <1>1, <1>2, <1>3, Shapes

LEMMA BodyAndCall ==
    ASSUME TameInv, Running("callback")
    PROVE  /\ Top \in Frames /\ Top.op = "callback"
           /\ \E f \in Frames : f.op # "callback" /\ stack = <<Top, f>>
<1>1. stack \in Seq(Frames) /\ StackShape /\ stack # <<>> /\ Top.op = "callback"
    BY DEF TameInv, CallInv, TypeOK, Running
<1>2. CASE \E f \in Frames : f.op # "callback" /\ stack = <<f>>
    BY <1>1, <1>2, OneFrame DEF Top
<1>3. CASE \E g, f \in Frames : /\ g.op = "callback" /\ f.op # "callback"
                                /\ stack = <<g, f>>
    BY <1>1, <1>3, TwoFrames DEF Top
<1> QED
    BY <1>1, <1>2, <1>3, Shapes

LEMMA ShapeOfOne ==
    ASSUME NEW f \in Frames, f.op # "callback", stack' = <<f>>
    PROVE  StackShape' /\ stack' # <<>> /\ stack'[Len(stack')] = f
BY OneFrame DEF StackShape

LEMMA ShapeOfTwo ==
    ASSUME NEW g \in Frames, g.op = "callback",
           NEW f \in Frames, f.op # "callback", stack' = <<g, f>>
    PROVE  StackShape' /\ stack' # <<>> /\ stack'[Len(stack')] = f
<1>1. Len(stack') = 2 /\ stack'[1] = g /\ stack'[2] = f /\ stack' # <<>>
    BY TwoFrames
<1>2. \A k \in 1..2 : k = 1 \/ k = 2
    OBVIOUS
<1>3. StackShape'
    BY <1>1, <1>2 DEF StackShape
<1> QED
    BY <1>1, <1>3

LEMMA ShapeOfNone ==
    ASSUME stack' = <<>>
    PROVE  StackShape'
BY DEF StackShape

\* The object of a connect_callback that ends uncompleted is not due.
LEMMA ConnectReturnTame ==
    ASSUME TameInv, CallInv', ConnectReturn
    PROVE  TameInv'
<1> DEFINE c == Top.cb
<1>1. /\ Top \in Frames /\ Top.op = "connect_callback" /\ stack = <<Top>>
    BY CallOnTop DEF ConnectReturn
<1>2. c \in Callbacks
    BY <1>1, FrameFields
<1>3. /\ IF completed[c] THEN UNCHANGED <<connected, pending>>
         ELSE /\ connected' = [connected EXCEPT ![c] = TRUE]
              /\ pending' = Append(pending, c)
      /\ UNCHANGED <<completed, waiting, waitlist, paused, loaded>>
    BY DEF ConnectReturn, world
<1>4. stack' = <<>>
    BY <1>1, OneFrame DEF ConnectReturn
<1>5. /\ Connecting = {c} /\ InBody = {}
      /\ PosOf(stack, "evaluate_all") = 1 /\ PosOf(stack, "target_ready") = 1
    BY <1>1, CallOnly DEF Connecting, InBody
<1>6. /\ Connecting' = {} /\ InBody' = {}
      /\ PosOf(stack', "evaluate_all") = 1 /\ PosOf(stack', "target_ready") = 1
    BY <1>4, EmptyStack DEF Connecting, InBody
<1> HIDE DEF c
<1>7. /\ pending \in Seq(Callbacks) /\ waitlist \in Seq(Callbacks)
      /\ pending' \in Seq(Callbacks) /\ waitlist' \in Seq(Callbacks)
      /\ connected \in [Callbacks -> BOOLEAN]
    BY DEF TameInv, CallInv, TypeOK
<1>8. Evaluated = {} /\ Woken = {} /\ Evaluated' = {} /\ Woken' = {}
    BY <1>5, <1>6, <1>7, TakenFacts DEF Evaluated, Woken
<1>9. ~connected[c] /\ c \notin Members(pending)
    BY <1>5 DEF TameInv, CurrentOK
<1>10. /\ NoDuplicates(pending') /\ NoDuplicates(waitlist')
       /\ Members(waitlist') = Members(waitlist)
       /\ Members(pending') = IF completed[c] THEN Members(pending)
                              ELSE Members(pending) \cup {c}
    <2>1. /\ Members(Append(pending, c)) = Members(pending) \cup {c}
          /\ NoDuplicates(Append(pending, c))
        BY <1>2, <1>7, <1>9, MembersAppend DEF TameInv
    <2> QED
        BY <1>3, <2>1 DEF TameInv, Members, NoDuplicates
<1>11. \A d \in Callbacks :
           connected'[d] = IF d = c /\ ~completed[c] THEN TRUE ELSE connected[d]
    BY <1>2, <1>3, <1>7
<1>12. Members(pending) \subseteq Callbacks /\ Members(waitlist) \subseteq Callbacks
    BY <1>7 DEF Members
<1>13. PendingOK'
    <2> SUFFICES ASSUME NEW d \in Members(pending')
                 PROVE  connected'[d]
        BY DEF PendingOK, Members
    <2>1. \A e \in Members(pending) : connected[e]
        BY <1>8 DEF TameInv, PendingOK
    <2> QED
        BY <1>2, <1>10, <1>11, <1>12, <2>1
<1>14. WaitlistOK'
    <2> SUFFICES ASSUME NEW d \in Members(waitlist)
                 PROVE  d \in Members(pending') /\ (waiting[d] <=> d \notin Woken)
        BY <1>3, <1>8, <1>10 DEF WaitlistOK, Members
    <2>1. d \in Members(pending) \/ d = c
        BY <1>5 DEF TameInv, WaitlistOK
    <2>2. waiting[d] <=> d \notin Woken
        BY DEF TameInv, WaitlistOK
    <2>3. completed[c] => ~waiting[c]
        BY <1>2 DEF TameInv, CallInv, FlagsAgree
    <2> QED
        BY <1>8, <1>10, <2>1, <2>2, <2>3
<1>15. WaitingListed'
    BY <1>3, <1>5, <1>6, <1>10, <1>11 DEF TameInv, WaitingListed
<1>16. CurrentOK'
    BY <1>6 DEF CurrentOK
<1>17. DueOK'
    <2>1. \A d \in Callbacks : Due(d)' = Due(d)
        BY <1>3 DEF Due, Ready
    <2>2. \A d \in Callbacks : Due(d) => d # c /\ ~(connected[d] /\ ~paused)
        BY <1>1, <1>5, OneFrame DEF TameInv, DueOK
    <2> QED
        BY <1>3, <1>6, <1>11, <2>1, <2>2 DEF DueOK
<1> QED
    BY <1>4, <1>10, <1>13, <1>14, <1>15, <1>16, <1>17, ShapeOfNone
    DEF TameInv, Members, NoDuplicates

\* A loop in progress: what it has taken, and that nothing else goes on.
LEMMA LoopFacts ==
    ASSUME TameInv, NEW op \in {"evaluate_all", "target_ready"}, Running(op)
    PROVE  /\ Top \in Frames /\ Top.op = op /\ stack = <<Top>>
           /\ Top.pos \in Nat \ {0}
           /\ Connecting = {} /\ InBody = {}
           /\ Evaluated = Taken(pending, IF op = "evaluate_all" THEN Top.pos ELSE 1)
           /\ Woken = Taken(waitlist, IF op = "target_ready" THEN Top.pos ELSE 1)
           /\ pending \in Seq(Callbacks) /\ waitlist \in Seq(Callbacks)
<1>1. Top \in Frames /\ Top.op = op /\ stack = <<Top>>
    BY CallOnTop
<1>2. Top.pos \in Nat \ {0}
    BY <1>1, FrameFields DEF EvaluateAllFrame, TargetReadyFrame
<1>3. Connecting = {} /\ InBody = {}
    BY <1>1, CallOnly DEF Connecting, InBody
<1>4. /\ PosOf(stack, "evaluate_all") = IF op = "evaluate_all" THEN Top.pos ELSE 1
      /\ PosOf(stack, "target_ready") = IF op = "target_ready" THEN Top.pos ELSE 1
    BY <1>1, CallOnly
<1> QED
    BY <1>1, <1>2, <1>3, <1>4 DEF Evaluated, Woken, TameInv, CallInv, TypeOK

\* One step of a loop leaves it advanced, with the body of c on top if c is
\* called.
LEMMA LoopStep ==
    ASSUME TameInv, NEW op \in {"evaluate_all", "target_ready"}, Running(op),
           NEW c \in Callbacks, NEW w \in BOOLEAN,
           stack' = Evaluate(c, w, Advance(stack)),
           UNCHANGED <<pending, waitlist>>
    PROVE  /\ Connecting' = {} /\ StackShape' /\ stack' # <<>>
           /\ stack'[Len(stack')].op = op
           /\ InBody' = IF ~w /\ Ready(c) THEN {c} ELSE {}
           /\ Evaluated' = Taken(pending, IF op = "evaluate_all"
                                          THEN Top.pos + 1 ELSE 1)
           /\ Woken' = Taken(waitlist, IF op = "target_ready"
                                       THEN Top.pos + 1 ELSE 1)
<1> DEFINE f == [Top EXCEPT !.pos = @ + 1]
           g == [op |-> "callback", cb |-> c]
<1>1. Top \in Frames /\ Top.op = op /\ stack = <<Top>> /\ Top.pos \in Nat \ {0}
    BY LoopFacts
<1>2. /\ stack \in Seq(Frames) /\ StackOK(stack, constructed, waiting)
      /\ stack # <<>> /\ Head(stack) = Top /\ Len(stack) = 1
    BY <1>1, OneFrame DEF TameInv, CallInv, TypeOK
<1>3. /\ Advance(stack) \in Seq(Frames) /\ Len(Advance(stack)) = 1
      /\ Head(Advance(stack)) = f /\ f.op = op
    <2>1. Head(stack).op \in {"evaluate_all", "target_ready"}
        BY <1>1, <1>2
    <2>2. /\ Advance(stack) \in Seq(Frames) /\ Len(Advance(stack)) = Len(stack)
          /\ Head(Advance(stack)) = [Head(stack) EXCEPT !.pos = @ + 1]
          /\ Head(Advance(stack)).op = Head(stack).op
        BY <1>2, <2>1, AdvanceCall
    <2> QED
        BY <1>1, <1>2, <2>2
<1>4. f.pos = Top.pos + 1
    <2>1. Top \in EvaluateAllFrame \/ Top \in TargetReadyFrame
        BY <1>1, FrameFields
    <2> QED
        BY <2>1 DEF EvaluateAllFrame, TargetReadyFrame
<1> HIDE DEF f
<1>5. Advance(stack) = <<f>> /\ f \in Frames
    <2>1. PICK t \in Seq(Frames) : t = Advance(stack)
        BY <1>3
    <2>2. Len(t) = 1 /\ Head(t) = f
        BY <1>3, <2>1
    <2>3. t = <<f>> /\ f \in Frames
        BY <2>2
    <2> QED
        BY <2>1, <2>3
<1>6. g \in Frames /\ g.op = "callback" /\ g.cb = c
    BY DEF Frames, BodyFrame
<1> HIDE DEF g
<1>7. stack' = IF ~w /\ Ready(c) THEN <<g, f>> ELSE <<f>>
    <2>1. Push(g, <<f>>) = <<g, f>>
        BY <1>5, <1>6, PushTwo
    <2> QED
        BY <1>5, <2>1 DEF Evaluate, g
<1>8. CASE ~w /\ Ready(c)
    <2>1. stack' = <<g, f>>
        BY <1>7, <1>8
    <2>2. StackShape' /\ stack' # <<>> /\ stack'[Len(stack')].op = op
        BY <1>3, <1>5, <1>6, <2>1, ShapeOfTwo
    <2>3. /\ Connecting' = {} /\ InBody' = {c}
        BY <1>3, <1>5, <1>6, <2>1, BodyOver DEF Connecting, InBody
    <2>4. /\ PosOf(stack', "evaluate_all") =
                 IF op = "evaluate_all" THEN Top.pos + 1 ELSE 1
          /\ PosOf(stack', "target_ready") =
                 IF op = "target_ready" THEN Top.pos + 1 ELSE 1
        BY <1>3, <1>4, <1>5, <1>6, <2>1, BodyOver
    <2> QED
        BY <1>8, <2>2, <2>3, <2>4 DEF Evaluated, Woken
<1>9. CASE ~(~w /\ Ready(c))
    <2>1. stack' = <<f>>
        BY <1>7, <1>9
    <2>2. StackShape' /\ stack' # <<>> /\ stack'[Len(stack')].op = op
        BY <1>3, <1>5, <2>1, ShapeOfOne
    <2>3. /\ Connecting' = {} /\ InBody' = {}
        BY <1>3, <1>5, <2>1, CallOnly DEF Connecting, InBody
    <2>4. /\ PosOf(stack', "evaluate_all") =
                 IF op = "evaluate_all" THEN Top.pos + 1 ELSE 1
          /\ PosOf(stack', "target_ready") =
                 IF op = "target_ready" THEN Top.pos + 1 ELSE 1
        BY <1>3, <1>4, <1>5, <2>1, CallOnly
    <2> QED
        BY <1>9, <2>2, <2>3, <2>4 DEF Evaluated, Woken
<1> QED
    BY <1>8, <1>9

\* evaluate_all() reaches only objects that are connected, hence not complete.
LEMMA EvaluateAllStepTame ==
    ASSUME TameInv, CallInv', EvaluateAllStep
    PROVE  TameInv'
<1> DEFINE c == pending[Top.pos]
<1>1. Running("evaluate_all") /\ Top.pos <= Len(pending)
    BY DEF EvaluateAllStep
<1>2. /\ Top.pos \in Nat \ {0} /\ Connecting = {} /\ InBody = {}
      /\ Evaluated = Taken(pending, Top.pos) /\ Woken = Taken(waitlist, 1)
      /\ pending \in Seq(Callbacks) /\ waitlist \in Seq(Callbacks)
    BY <1>1, LoopFacts
<1>3. /\ c \in Callbacks /\ c \in Members(pending) /\ c \notin Evaluated
      /\ Taken(pending, Top.pos + 1) = Evaluated \cup {c}
      /\ Woken = {}
    BY <1>1, <1>2, TakenFacts DEF TameInv
<1>4. /\ stack' = Evaluate(c, waiting[c], Advance(stack))
      /\ UNCHANGED <<completed, connected, waiting, waitlist, pending, paused,
                     loaded>>
    BY DEF EvaluateAllStep, flags, lists, world
<1> HIDE DEF c
<1>5. waiting[c] \in BOOLEAN
    BY <1>3 DEF TameInv, CallInv, TypeOK
<1>6. /\ Connecting' = {} /\ StackShape' /\ stack' # <<>>
      /\ stack'[Len(stack')].op = "evaluate_all"
      /\ InBody' = IF ~waiting[c] /\ Ready(c) THEN {c} ELSE {}
      /\ Evaluated' = Evaluated \cup {c} /\ Woken' = {}
    BY <1>1, <1>2, <1>3, <1>4, <1>5, LoopStep
<1>7. connected[c] /\ ~completed[c]
    BY <1>3 DEF TameInv, PendingOK, CallInv, FlagsAgree
<1>8. /\ Members(pending)' = Members(pending)
      /\ Members(waitlist)' = Members(waitlist)
      /\ NoDuplicates(pending)' /\ NoDuplicates(waitlist)'
    BY <1>4 DEF TameInv, Members, NoDuplicates
<1>9. PendingOK'
    BY <1>4, <1>3, <1>6, <1>8 DEF TameInv, PendingOK
<1>10. WaitlistOK' /\ WaitingListed'
    BY <1>2, <1>3, <1>4, <1>6, <1>8 DEF TameInv, WaitlistOK, WaitingListed
<1>11. CurrentOK'
    BY <1>4, <1>6, <1>7 DEF CurrentOK
<1>12. DueOK'
    <2>1. \A d \in Callbacks : Due(d)' = Due(d)
        BY <1>4 DEF Due, Ready
    <2>2. \A d \in Callbacks : Due(d) /\ connected[d] /\ ~paused => d \notin Evaluated
        BY <1>2 DEF TameInv, DueOK
    <2>3. Due(c) => c \in InBody'
        BY <1>6 DEF Due
    <2> QED
        BY <1>4, <1>6, <2>1, <2>2, <2>3 DEF DueOK
<1> QED
    BY <1>6, <1>8, <1>9, <1>10, <1>11, <1>12 DEF TameInv

\* target_ready() reaches only objects that still wait.
LEMMA TargetReadyStepTame ==
    ASSUME TameInv, CallInv', TargetReadyStep
    PROVE  TameInv'
<1> DEFINE c == waitlist[Top.pos]
<1>1. Running("target_ready") /\ Top.pos <= Len(waitlist)
    BY DEF TargetReadyStep
<1>2. /\ Top.pos \in Nat \ {0} /\ Connecting = {} /\ InBody = {}
      /\ Evaluated = Taken(pending, 1) /\ Woken = Taken(waitlist, Top.pos)
      /\ pending \in Seq(Callbacks) /\ waitlist \in Seq(Callbacks)
      /\ stack = <<Top>> /\ Top.op = "target_ready" /\ Top \in Frames
    BY <1>1, LoopFacts
<1>3. /\ c \in Callbacks /\ c \in Members(waitlist) /\ c \notin Woken
      /\ Taken(waitlist, Top.pos + 1) = Woken \cup {c}
      /\ Evaluated = {}
    BY <1>1, <1>2, TakenFacts DEF TameInv
<1>4. /\ stack' = Evaluate(c, FALSE, Advance(stack))
      /\ waiting' = [waiting EXCEPT ![c] = FALSE]
      /\ UNCHANGED <<completed, connected, waitlist, pending, paused, loaded>>
    BY DEF TargetReadyStep, lists, world
<1> HIDE DEF c
<1>5. /\ Connecting' = {} /\ StackShape' /\ stack' # <<>>
      /\ InBody' = IF Ready(c) THEN {c} ELSE {}
      /\ Evaluated' = {} /\ Woken' = Woken \cup {c}
    BY <1>1, <1>2, <1>3, <1>4, LoopStep
<1>6. /\ waiting[c] /\ c \in Members(pending)
    BY <1>2, <1>3 DEF TameInv, WaitlistOK
<1>7. connected[c] /\ ~completed[c]
    BY <1>3, <1>6 DEF TameInv, PendingOK, CallInv, FlagsAgree
<1>8. /\ Members(pending)' = Members(pending)
      /\ Members(waitlist)' = Members(waitlist)
      /\ NoDuplicates(pending)' /\ NoDuplicates(waitlist)'
      /\ Members(waitlist) \subseteq Callbacks
    BY <1>2, <1>4 DEF TameInv, Members, NoDuplicates
<1>9. \A d \in Callbacks : waiting'[d] = IF d = c THEN FALSE ELSE waiting[d]
    BY <1>3, <1>4 DEF TameInv, CallInv, TypeOK
<1>10. PendingOK'
    BY <1>4, <1>3, <1>5, <1>8 DEF TameInv, PendingOK
<1>11. WaitlistOK'
    <2> SUFFICES ASSUME NEW d \in Members(waitlist)
                 PROVE  d \in Members(pending) /\ (waiting'[d] <=> d \notin Woken')
        BY <1>5, <1>8 DEF WaitlistOK
    <2>1. d \in Members(pending) /\ (waiting[d] <=> d \notin Woken)
        BY <1>2 DEF TameInv, WaitlistOK
    <2> QED
        BY <1>5, <1>8, <1>9, <2>1
<1>12. WaitingListed'
    BY <1>2, <1>4, <1>5, <1>8, <1>9 DEF TameInv, WaitingListed
<1>13. CurrentOK'
    BY <1>4, <1>5, <1>7 DEF CurrentOK
<1>14. DueOK'
    <2>1. \A d \in Callbacks : d # c => Due(d)' = Due(d)
        BY <1>4, <1>9 DEF Due, Ready
    <2>2. \A d \in Callbacks : ~(Due(d) /\ connected[d] /\ ~paused)
        <3>1. stack[Len(stack)].op = "target_ready"
            BY <1>2, OneFrame
        <3> QED
            BY <1>2, <3>1 DEF TameInv, DueOK
    <2>3. \A d \in Callbacks : d = c /\ Due(d)' => d \in InBody'
        BY <1>4, <1>5 DEF Due, Ready
    <2> QED
        BY <1>4, <1>5, <2>1, <2>2, <2>3 DEF DueOK
<1> QED
    BY <1>5, <1>8, <1>10, <1>11, <1>12, <1>13, <1>14 DEF TameInv

\* _update_pending at the end of a loop leaves the connected objects.
LEMMA PendingUpdated ==
    ASSUME TameInv, pending' = UpdatePending(connected)
    PROVE  /\ Members(pending') = {c \in Members(pending) : connected[c]}
           /\ NoDuplicates(pending')
<1>1. TypeOK /\ connected \in [Callbacks -> BOOLEAN]
    BY DEF TameInv, CallInv, TypeOK
<1> QED
    BY <1>1, UpdatePendingFacts DEF TameInv

LEMMA EvaluateAllDoneTame ==
    ASSUME TameInv, CallInv', EvaluateAllDone
    PROVE  TameInv'
<1> DEFINE f == [op |-> "evaluate_all", pos |-> 1, more |-> Top.more - 1]
<1>1. /\ Running("evaluate_all") /\ Top.pos > Len(pending)
      /\ pending' = UpdatePending(connected)
      /\ stack' = NextHandler(stack)
      /\ UNCHANGED <<completed, connected, waiting, waitlist, paused, loaded>>
    BY DEF EvaluateAllDone, flags, world
<1>2. /\ Top \in Frames /\ Top.op = "evaluate_all" /\ stack = <<Top>>
      /\ Top.pos \in Nat \ {0} /\ Connecting = {} /\ InBody = {}
      /\ Evaluated = Taken(pending, Top.pos) /\ Woken = Taken(waitlist, 1)
      /\ pending \in Seq(Callbacks) /\ waitlist \in Seq(Callbacks)
    BY <1>1, LoopFacts
<1>3. Evaluated = Members(pending) /\ Woken = {}
    BY <1>1, <1>2, TakenFacts
<1>4. f.op = "evaluate_all" /\ f.pos = 1
    OBVIOUS
<1>5. stack' = <<f>> \/ stack' = <<>>
    <2>1. Head(stack) = Top /\ Tail(stack) = <<>>
        BY <1>2, OneFrame
    <2>2. stack' = Push(f, <<>>) \/ stack' = <<>>
        BY <1>1, <2>1 DEF NextHandler
    <2> HIDE DEF f
    <2>3. Push(f, <<>>) = <<f>>
        BY DEF Push
    <2> QED
        BY <2>2, <2>3
<1> HIDE DEF f
<1>6. stack' = <<f>> => f \in Frames
    BY DEF CallInv, TypeOK
<1>7. /\ StackShape' /\ Connecting' = {} /\ InBody' = {}
      /\ PosOf(stack', "evaluate_all") = 1 /\ PosOf(stack', "target_ready") = 1
    <2>1. CASE stack' = <<f>>
        BY <1>4, <1>6, <2>1, ShapeOfOne, CallOnly DEF Connecting, InBody
    <2>2. CASE stack' = <<>>
        BY <2>2, ShapeOfNone, EmptyStack DEF Connecting, InBody
    <2> QED
        BY <1>5, <2>1, <2>2
<1>8. /\ Members(pending') = {c \in Members(pending) : connected[c]}
      /\ NoDuplicates(pending')
      /\ Members(waitlist') = Members(waitlist) /\ NoDuplicates(waitlist')
    BY <1>1, PendingUpdated DEF TameInv, Members, NoDuplicates
<1>9. Woken' = {}
    BY <1>1, <1>2, <1>7, TakenFacts DEF Woken
<1>10. PendingOK'
    BY <1>1, <1>8 DEF PendingOK, Members
<1>11. WaitlistOK'
    <2> SUFFICES ASSUME NEW d \in Members(waitlist)
                 PROVE  d \in Members(pending') /\ waiting[d]
        BY <1>1, <1>8, <1>9 DEF WaitlistOK, Members, CallInv, TypeOK
    <2>1. d \in Callbacks
        BY <1>2 DEF Members
    <2>2. d \in Members(pending) /\ waiting[d]
        BY <1>2, <1>3 DEF TameInv, WaitlistOK
    <2>3. connected[d]
        BY <2>1, <2>2 DEF TameInv, PendingOK, CallInv, FlagsAgree
    <2> QED
        BY <1>8, <2>2, <2>3
<1>12. WaitingListed'
    BY <1>1, <1>2, <1>7, <1>8 DEF TameInv, WaitingListed, Members
<1>13. CurrentOK'
    BY <1>7 DEF CurrentOK
<1>14. DueOK'
    <2>1. \A d \in Callbacks : Due(d)' = Due(d)
        BY <1>1 DEF Due, Ready
    <2>2. \A d \in Callbacks : ~(Due(d) /\ connected[d] /\ ~paused)
        BY <1>2, <1>3 DEF TameInv, DueOK, CallInv, FlagsAgree
    <2> QED
        BY <1>1, <1>7, <2>1, <2>2 DEF DueOK
<1> QED
    BY <1>7, <1>8, <1>10, <1>11, <1>12, <1>13, <1>14
    DEF TameInv, NoDuplicates

\* When target_ready() clears the waitlist nothing waits any more.
LEMMA TargetReadyDoneTame ==
    ASSUME TameInv, CallInv', TargetReadyDone
    PROVE  TameInv'
<1>1. /\ Running("target_ready") /\ Top.pos > Len(waitlist)
      /\ pending' = UpdatePending(connected) /\ waitlist' = <<>>
      /\ stack' = Tail(stack)
      /\ UNCHANGED <<completed, connected, waiting, paused, loaded>>
    BY DEF TargetReadyDone, flags, world
<1>2. /\ Top \in Frames /\ Top.op = "target_ready" /\ stack = <<Top>>
      /\ Top.pos \in Nat \ {0} /\ Connecting = {} /\ InBody = {}
      /\ Woken = Taken(waitlist, Top.pos)
      /\ pending \in Seq(Callbacks) /\ waitlist \in Seq(Callbacks)
    BY <1>1, LoopFacts
<1>3. Woken = Members(waitlist)
    BY <1>1, <1>2, TakenFacts
<1>4. stack' = <<>> /\ stack[Len(stack)].op = "target_ready"
    BY <1>1, <1>2, OneFrame
<1>5. StackShape' /\ Connecting' = {} /\ InBody' = {}
    BY <1>4, ShapeOfNone, EmptyStack DEF Connecting, InBody
<1>6. /\ Members(pending') = {c \in Members(pending) : connected[c]}
      /\ NoDuplicates(pending')
      /\ Members(waitlist') = {} /\ NoDuplicates(waitlist')
    BY <1>1, PendingUpdated DEF Members, NoDuplicates
<1>7. PendingOK'
    BY <1>1, <1>6 DEF PendingOK, Members
<1>8. WaitlistOK'
    BY <1>6 DEF WaitlistOK, Members
<1>9. WaitingListed'
    <2>1. \A d \in Callbacks : ~(waiting[d] /\ connected[d])
        BY <1>3 DEF TameInv, WaitingListed, WaitlistOK
    <2> QED
        BY <1>1, <1>5, <2>1 DEF WaitingListed
<1>10. CurrentOK'
    BY <1>5 DEF CurrentOK
<1>11. DueOK'
    <2>1. \A d \in Callbacks : Due(d)' = Due(d)
        BY <1>1 DEF Due, Ready
    <2>2. \A d \in Callbacks : ~(Due(d) /\ connected[d] /\ ~paused)
        BY <1>2, <1>4 DEF TameInv, DueOK
    <2> QED
        BY <1>1, <1>5, <2>1, <2>2 DEF DueOK
<1> QED
    BY <1>5, <1>6, <1>7, <1>8, <1>9, <1>10, <1>11 DEF TameInv, NoDuplicates

\* A body that returns to its call.
LEMMA BodiesTame ==
    ASSUME Tame, TameInv, CallInv',
           BodyDone \/ BodyDoneAgain \/ BodyRetry \/ BodyException
    PROVE  TameInv'
<1> DEFINE c == Top.cb
<1>1. Running("callback")
    BY DEF BodyDone, BodyDoneAgain, BodyRetry, BodyException
<1>2. PICK f \in Frames : f.op # "callback" /\ stack = <<Top, f>>
    BY <1>1, BodyAndCall
<1>3. /\ Top \in Frames /\ Top.op = "callback" /\ c \in Callbacks
    BY <1>1, BodyAndCall, FrameFields
<1>4. /\ Tail(stack) = <<f>> /\ stack[2] = f /\ stack[Len(stack)] = f
    BY <1>2, <1>3, TwoFrames
<1>5. InBody = {c}
    BY <1>2, <1>3, BodyOver DEF InBody
<1>6. Connecting = IF f.op = "connect_callback" THEN {f.cb} ELSE {}
    BY <1>2, <1>3, BodyOver DEF Connecting
<1>7. /\ PosOf(stack, "evaluate_all") = IF f.op = "evaluate_all" THEN f.pos ELSE 1
      /\ PosOf(stack, "target_ready") = IF f.op = "target_ready" THEN f.pos ELSE 1
    BY <1>2, <1>3, BodyOver
<1> HIDE DEF c
<1>8. ~completed[c] /\ (c \in Connecting \/ c \in Evaluated \/ c \in Woken)
    BY <1>5 DEF TameInv, CurrentOK
<1>9. ~BodyDoneAgain
    BY <1>8 DEF BodyDoneAgain, c
<1>10. ~BodyException
    BY <1>3 DEF BodyException, Tame, c
<1>11. pending \in Seq(Callbacks) /\ waitlist \in Seq(Callbacks)
    BY DEF TameInv, CallInv, TypeOK
<1>12. f.op = "connect_callback" => ~connected[c]
    <2>1. Taken(pending, 1) = {} /\ Taken(waitlist, 1) = {}
        BY <1>11, TakenFacts
    <2>2. f.op = "connect_callback" => Evaluated = {} /\ Woken = {}
        BY <1>7, <2>1 DEF Evaluated, Woken
    <2> QED
        BY <1>8, <2>2 DEF TameInv, CurrentOK
<1>13. /\ stack' = <<f>>
       /\ UNCHANGED <<waiting, waitlist, pending, paused, loaded>>
       /\ \/ /\ completed' = [completed EXCEPT ![c] = TRUE]
             /\ connected' = [connected EXCEPT ![c] = FALSE]
          \/ /\ UNCHANGED <<completed, connected>>
             /\ Outcomes[c] # {"done"}
    <2>1. CASE BodyDone
        <3>1. /\ completed' = [completed EXCEPT ![c] = TRUE]
              /\ connected' = [connected EXCEPT ![c] = FALSE]
              /\ pending' = IF connected[c] /\ f.op = "connect_callback"
                            THEN UpdatePending(connected') ELSE pending
            BY <1>4, <2>1 DEF BodyDone, Complete, c
        <3>2. pending' = pending
            BY <1>12, <3>1
        <3> QED
            BY <1>4, <2>1, <3>1, <3>2 DEF BodyDone, world
    <2>2. CASE BodyRetry
        <3>1. Outcomes[c] # {"done"}
            BY <2>2 DEF BodyRetry, c
        <3> QED
            BY <1>4, <2>2, <3>1 DEF BodyRetry, flags, lists, world
    <2> QED
        BY <1>9, <1>10, <2>1, <2>2
<1>14. /\ StackShape' /\ stack' # <<>> /\ stack'[Len(stack')] = f
    BY <1>2, <1>13, ShapeOfOne
<1>15. InBody' = {} /\ Connecting' = Connecting
    BY <1>2, <1>6, <1>13, CallOnly DEF InBody, Connecting
<1>16. /\ PosOf(stack', "evaluate_all") = PosOf(stack, "evaluate_all")
       /\ PosOf(stack', "target_ready") = PosOf(stack, "target_ready")
    BY <1>2, <1>7, <1>13, CallOnly
<1>17. /\ Evaluated' = Evaluated /\ Woken' = Woken
       /\ Members(pending)' = Members(pending)
       /\ Members(waitlist)' = Members(waitlist)
       /\ NoDuplicates(pending)' /\ NoDuplicates(waitlist)'
       /\ Members(pending) \subseteq Callbacks
    BY <1>11, <1>13, <1>16 DEF TameInv, Evaluated, Woken, Members, NoDuplicates
<1>18. /\ completed \in [Callbacks -> BOOLEAN] /\ connected \in [Callbacks -> BOOLEAN]
    BY DEF TameInv, CallInv, TypeOK
<1>19. \A d \in Callbacks :
           /\ d # c => completed'[d] = completed[d] /\ connected'[d] = connected[d]
           /\ connected'[d] => connected[d]
           /\ connected'[c] \/ ~connected[c] \/ completed'[c]
           /\ completed[d] => completed'[d]
    BY <1>3, <1>13, <1>18
<1>20. PendingOK'
    <2> SUFFICES ASSUME NEW d \in Members(pending)
                 PROVE  connected'[d] \/
                        (completed'[d] /\ (d \in Evaluated \/ d \in Woken))
        BY <1>17 DEF PendingOK
    <2>1. CASE d = c
        <3>1. c \notin Connecting
            BY <2>1 DEF TameInv, CurrentOK
        <3>2. connected[c] \/ completed[c]
            BY <2>1 DEF TameInv, PendingOK
        <3> QED
            BY <1>3, <1>8, <1>19, <2>1, <3>1, <3>2
    <2>2. CASE d # c
        BY <1>17, <1>19, <2>2 DEF TameInv, PendingOK
    <2> QED
        BY <2>1, <2>2
<1>21. WaitlistOK'
    BY <1>13, <1>15, <1>17 DEF TameInv, WaitlistOK
<1>22. WaitingListed'
    BY <1>13, <1>15, <1>17, <1>19 DEF TameInv, WaitingListed
<1>23. CurrentOK'
    <2>1. Connecting \subseteq Callbacks
        BY DEF Connecting, Subjects
    <2> QED
        BY <1>15, <1>17, <1>19, <2>1 DEF TameInv, CurrentOK
<1>24. DueOK'
    <2>1. \A d \in Callbacks : Due(d)' => Due(d) /\ d # c
        <3> SUFFICES ASSUME NEW d \in Callbacks, Due(d)'
                     PROVE  Due(d) /\ d # c
            OBVIOUS
        <3>1. Due(d)
            BY <1>13, <1>19 DEF Due, Ready
        <3>2. d # c
            BY <1>3, <1>13, <1>18 DEF Due
        <3> QED
            BY <3>1, <3>2
    <2>2. \A d \in Callbacks : Due(d) /\ d # c =>
              /\ connected[d] /\ ~paused => f.op = "evaluate_all" /\ d \notin Evaluated
              /\ d \notin Connecting
        BY <1>4, <1>5 DEF TameInv, DueOK
    <2> QED
        BY <1>13, <1>14, <1>15, <1>17, <1>19, <2>1, <2>2 DEF DueOK
<1> QED
    BY <1>14, <1>17, <1>20, <1>21, <1>22, <1>23, <1>24 DEF TameInv

LEMMA StutterTame ==
    ASSUME TameInv, CallInv', UNCHANGED vars
    PROVE  TameInv'
<1>1. UNCHANGED <<completed, connected, waiting, waitlist, pending, paused,
                  loaded, stack>>
    BY DEF vars
<1>2. /\ Connecting' = Connecting /\ InBody' = InBody /\ Evaluated' = Evaluated
      /\ Woken' = Woken /\ StackShape'
      /\ Members(pending)' = Members(pending)
      /\ Members(waitlist)' = Members(waitlist)
      /\ NoDuplicates(pending)' /\ NoDuplicates(waitlist)'
    BY <1>1 DEF TameInv, Connecting, InBody, Evaluated, Woken, StackShape,
                Members, NoDuplicates
<1>3. \A d \in Callbacks : Due(d)' = Due(d)
    BY <1>1 DEF Due, Ready
<1>4. PendingOK' /\ WaitlistOK' /\ WaitingListed' /\ CurrentOK'
    BY <1>1, <1>2 DEF TameInv, PendingOK, WaitlistOK, WaitingListed, CurrentOK
<1>5. DueOK'
    BY <1>1, <1>2, <1>3 DEF TameInv, DueOK
<1> QED
    BY <1>2, <1>4, <1>5 DEF TameInv

LEMMA NextTame == Tame /\ TameInv /\ [Next]_vars => TameInv'
<1> SUFFICES ASSUME Tame, TameInv, [Next]_vars PROVE TameInv'
    OBVIOUS
<1>1. CallInv'
    BY NextCallInv DEF TameInv
<1> QED
    BY <1>1, CallsTame, ConnectReturnTame, EvaluateAllStepTame,
       EvaluateAllDoneTame, TargetReadyStepTame, TargetReadyDoneTame,
       BodiesTame, StutterTame
    DEF Next, Steps

\* Only the end of a body completes an object, and it pops the stack.
LEMMA CompletionPops ==
    ASSUME TameInv, [Next]_vars
    PROVE  completed' = completed \/ (stack # <<>> /\ stack' = Tail(stack))
BY DEF Next, Calls, Steps, Construct, ConnectCallback, NewObjfile, Pause, Unpause,
       OpenTarget, ConnectReturn, EvaluateAllStep, EvaluateAllDone,
       TargetReadyStep, TargetReadyDone, BodyDone, BodyDoneAgain, BodyRetry,
       BodyException, Running, flags, vars

LEMMA StepNeverReruns ==
    ASSUME Tame, TameInv, [Next]_vars, NEW c \in Callbacks,
           Len(stack') > Len(stack),
           Head(stack') = [op |-> "callback", cb |-> c]
    PROVE  ~completed[c]
<1>1. TameInv'
    BY NextTame
<1>2. stack \in Seq(Frames) /\ stack' \in Seq(Frames)
    BY <1>1 DEF TameInv, CallInv, TypeOK
<1>3. 1 \in 1..Len(stack') /\ Head(stack') = stack'[1]
    BY <1>2
<1>4. c \in InBody'
    BY <1>3 DEF InBody, Subjects
<1>5. ~completed'[c]
    BY <1>1, <1>4 DEF TameInv, CurrentOK
<1>6. ~(stack # <<>> /\ stack' = Tail(stack))
    BY <1>2
<1> QED
    BY <1>5, <1>6, CompletionPops

-----------------------------------------------------------------------------

\* Each step of evaluate_all(), target_ready() and connect_callback() leaves
\* the rest of its list untouched when the bodies are tame.
THEOREM TameInvariant == Tame /\ Spec => []TameInv
<1> SUFFICES ASSUME Tame PROVE Spec => []TameInv
    OBVIOUS
<1>1. TameInv /\ [Next]_vars => TameInv'
    BY NextTame
<1> QED
    BY InitTame, <1>1, PTL DEF Spec

(***************************************************************************)
(* A callback is never entered again after it has completed, for any       *)
(* number of callbacks and object files, when the bodies are tame.         *)
(***************************************************************************)
THEOREM TameNeverRerun == Tame /\ Spec => NeverRerun
<1> SUFFICES ASSUME Tame PROVE Spec => NeverRerun
    OBVIOUS
<1>1. TameInv /\ [Next]_vars =>
          [\A c \in Callbacks :
             /\ Len(stack') > Len(stack)
             /\ Head(stack') = [op |-> "callback", cb |-> c]
             => ~completed[c]]_vars
    BY StepNeverReruns
<1>2. Spec => []TameInv
    BY TameInvariant
<1> QED
    BY <1>1, <1>2, PTL DEF Spec, NeverRerun

(***************************************************************************)
(* Between calls the pending list and the waitlist hold exactly the        *)
(* connected and the waiting callbacks.                                    *)
(***************************************************************************)
THEOREM TameListsAgree == Tame /\ Spec => []ListsAgree
<1> SUFFICES ASSUME Tame PROVE Spec => []ListsAgree
    OBVIOUS
<1>1. TameInv => ListsAgree
    <2> SUFFICES ASSUME TameInv, stack = <<>>
                 PROVE  /\ Members(pending) = {c \in Callbacks : connected[c]}
                        /\ Members(waitlist) =
                               {c \in Callbacks : connected[c] /\ waiting[c]}
        BY DEF ListsAgree, TameInv
    <2>1. Members(pending) \subseteq Callbacks /\ Members(waitlist) \subseteq Callbacks
        BY IdleFacts DEF Members
    <2> QED
        BY <2>1, IdleFacts
<1>2. Spec => []TameInv
    BY TameInvariant
<1> QED
    BY <1>1, <1>2, PTL

(***************************************************************************)
(* No wake-up is lost: between calls of a registry that is not paused, a   *)
(* connected callback that waits for nothing and always succeeds is one    *)
(* whose symbols have not been loaded.                                     *)
(***************************************************************************)
THEOREM TameNoMissedWakeup == Tame /\ Spec => []NoMissedWakeup
<1> SUFFICES ASSUME Tame PROVE Spec => []NoMissedWakeup
    OBVIOUS
<1>1. TameInv => NoMissedWakeup
    <2> SUFFICES ASSUME TameInv, stack = <<>>, ~paused, loaded # {},
                        NEW c \in Callbacks, connected[c], ~waiting[c],
                        Outcomes[c] = {"done"}
                 PROVE  ~Ready(c)
        BY DEF NoMissedWakeup
    <2>1. ~Due(c)
        BY IdleFacts
    <2>2. ~completed[c]
        BY DEF TameInv, CallInv, FlagsAgree
    <2> QED
        BY <2>1, <2>2 DEF Due
<1>2. Spec => []TameInv
    BY TameInvariant
<1> QED
    BY <1>1, <1>2, PTL
-----------------------------------------------------------------------------
(***************************************************************************)
(* The registry keeps its contract.  One lemma for each action shows which *)
(* step of CallbackContract it is; the phases of the objects are read off  *)
(* the flags and the stack by Phases.                                      *)
(***************************************************************************)

\* A step that moves one object, or none, to another phase.
LEMMA PhaseMoves ==
    ASSUME NEW c \in Callbacks, NEW p, Phase(c)' = p,
           \A d \in Callbacks : d # c => Phase(d)' = Phase(d)
    PROVE  Phases' = [Phases EXCEPT ![c] = p]
BY DEF Phases

LEMMA PhasesStay ==
    ASSUME \A d \in Callbacks : Phase(d)' = Phase(d)
    PROVE  Phases' = Phases
BY DEF Phases

LEMMA PhaseKept ==
    ASSUME InBody' = InBody, Connecting' = Connecting,
           UNCHANGED <<completed, connected, constructed>>
    PROVE  Phases' = Phases
BY DEF Phases, Phase

\* When no call is in progress the flags alone tell the phase.
LEMMA IdlePhases ==
    ASSUME TameInv, stack = <<>>
    PROVE  /\ ~Busy
           /\ \A c \in Callbacks :
                 /\ Phases[c] = Phase(c)
                 /\ Phase(c) = IF completed[c] THEN "completed"
                               ELSE IF connected[c] THEN "connected"
                               ELSE IF c \in constructed THEN "created"
                               ELSE "absent"
                 /\ completed[c] \/ connected[c] => c \in constructed
<1>1. Connecting = {} /\ InBody = {}
    BY IdleFacts
<1>2. \A c \in Callbacks : completed[c] \/ connected[c] => c \in constructed
    BY DEF TameInv, CallInv
<1> QED
    BY <1>1, <1>2 DEF Phases, Phase, Busy

LEMMA ConstructMaps ==
    ASSUME Tame, TameInv, NEW c \in Callbacks, Construct(c)
    PROVE  Contract!Create(c)
<1>1. /\ stack = <<>> /\ stack' = <<>> /\ c \notin constructed
      /\ constructed' = constructed \cup {c}
      /\ waiting' = [waiting EXCEPT ![c] = c \in WaitForTarget /\ ~target]
      /\ UNCHANGED <<completed, connected, paused, loaded, target>>
    BY OuterCalls DEF Construct
<1>2. Connecting = {} /\ InBody = {} /\ Connecting' = {} /\ InBody' = {}
    BY <1>1, EmptyStack DEF Connecting, InBody
<1>3. ~completed[c] /\ ~connected[c] /\ Phases[c] = "absent"
    BY <1>1, IdlePhases
<1>4. Phase(c)' = "created"
    BY <1>1, <1>2, <1>3 DEF Phase
<1>5. \A d \in Callbacks : d # c => Phase(d)' = Phase(d)
    BY <1>1, <1>2 DEF Phase
<1>6. Phases' = [Phases EXCEPT ![c] = "created"]
    BY <1>4, <1>5, PhaseMoves
<1>7. ~Busy /\ ~Busy'
    BY <1>1 DEF Busy
<1> QED
    BY <1>1, <1>3, <1>6, <1>7 DEF Contract!Create, Contract!Enter, Busy

LEMMA ConnectCallbackMaps ==
    ASSUME Tame, TameInv, NEW c \in Callbacks, ConnectCallback(c)
    PROVE  Contract!Connect(c)
<1> DEFINE f == [op |-> "connect_callback", cb |-> c]
           g == [op |-> "callback", cb |-> c]
           now == loaded # {} /\ ~waiting[c] /\ Ready(c)
<1>1. f \in Frames /\ g \in Frames
    BY DEF Frames, ConnectFrame, BodyFrame
<1>2. /\ f.op = "connect_callback" /\ f.cb = c
      /\ g.op = "callback" /\ g.cb = c
    OBVIOUS
<1> HIDE DEF f, g
<1>3. /\ stack = <<>> /\ ~completed[c] /\ ~connected[c] /\ c \in constructed
      /\ UNCHANGED <<completed, connected, waiting, constructed, paused,
                     loaded, target>>
    BY OuterCalls DEF ConnectCallback, flags, world
<1>4. Push(f, stack) = <<f>> /\ Push(g, <<f>>) = <<g, f>>
    BY <1>1, <1>3, PushOne, PushTwo
<1>5. stack' = IF now THEN <<g, f>> ELSE <<f>>
    BY <1>4 DEF ConnectCallback, Evaluate, f, g
<1>6. Connecting' = {c} /\ InBody' = (IF now THEN {c} ELSE {}) /\ stack' # <<>>
    <2>1. CASE now
        <3>1. stack' = <<g, f>>
            BY <1>5, <2>1
        <3> QED
            BY <1>1, <1>2, <2>1, <3>1, BodyOver, TwoFrames
            DEF Connecting, InBody
    <2>2. CASE ~now
        <3>1. stack' = <<f>>
            BY <1>5, <2>2
        <3> QED
            BY <1>1, <1>2, <2>2, <3>1, CallOnly, OneFrame
            DEF Connecting, InBody
    <2> QED
        BY <2>1, <2>2
<1> HIDE DEF now
<1>7. Connecting = {} /\ InBody = {}
    BY <1>3, IdleFacts
<1>8. Phases[c] = "created"
    BY <1>3, IdlePhases
<1>9. Phase(c)' = IF now THEN "running" ELSE "connected"
    BY <1>3, <1>6 DEF Phase
<1>10. \A d \in Callbacks : d # c => Phase(d)' = Phase(d)
    BY <1>3, <1>6, <1>7 DEF Phase
<1>11. Phases' = [Phases EXCEPT ![c] = IF now THEN "running" ELSE "connected"]
    BY <1>9, <1>10, PhaseMoves
<1>12. ~Busy /\ Busy' = TRUE
    BY <1>3, <1>6 DEF Busy
<1> QED
    BY <1>3, <1>8, <1>11, <1>12
    DEF Contract!Connect, Contract!Enter, Contract!Ready, Ready, now

\* A call that starts a loop, or returns at once, changes no phase.
LEMMA StartPhases ==
    ASSUME TameInv, stack = <<>>, NEW f \in Frames,
           f.op \in {"evaluate_all", "target_ready"},
           stack' = <<f>> \/ stack' = <<>>,
           UNCHANGED <<completed, connected, constructed>>
    PROVE  Phases' = Phases /\ ~Busy /\ (Busy' <=> stack' = <<f>>)
<1>1. Connecting = {} /\ InBody = {}
    BY IdleFacts
<1>2. Connecting' = {} /\ InBody' = {}
    BY CallOnly, EmptyStack DEF Connecting, InBody
<1>3. <<f>> # <<>>
    BY OneFrame
<1> QED
    BY <1>1, <1>2, <1>3, PhaseKept DEF Busy

LEMMA NewObjfileMaps ==
    ASSUME Tame, TameInv, NEW o \in Objfiles, NewObjfile(o)
    PROVE  Contract!Load(o)
<1> DEFINE f == [op |-> "evaluate_all", pos |-> 1,
                 more |-> Cardinality(constructed) - 1]
           quiet == paused \/ constructed = {}
<1>1. /\ stack = <<>> /\ o \notin loaded /\ loaded' = loaded \cup {o}
      /\ stack' = IF quiet THEN stack ELSE Push(f, stack)
      /\ UNCHANGED <<completed, connected, waiting, constructed, paused, target>>
    BY OuterCalls DEF NewObjfile, flags
<1>2. constructed # {} => f \in Frames /\ f.op = "evaluate_all"
    <2>1. IsFiniteSet(constructed)
        BY CallbacksAssumption, FS_Subset DEF TameInv, CallInv, TypeOK
    <2>2. Cardinality(constructed) \in Nat
        BY <2>1, FS_CardinalityType
    <2>3. constructed # {} => Cardinality(constructed) # 0
        BY <2>1, FS_EmptySet
    <2>4. constructed # {} => Cardinality(constructed) - 1 \in Nat
        BY <2>2, <2>3
    <2> QED
        BY <2>4 DEF Frames, EvaluateAllFrame
<1> HIDE DEF f
<1>3. (\E c \in Callbacks : Phases[c] # "absent") <=> constructed # {}
    <2>1. \A c \in Callbacks : Phases[c] # "absent" <=> c \in constructed
        BY <1>1, IdlePhases
    <2>2. constructed \subseteq Callbacks
        BY DEF TameInv, CallInv, TypeOK
    <2> QED
        BY <2>1, <2>2
<1>4. CASE quiet
    <2>1. stack' = <<>>
        BY <1>1, <1>4
    <2>2. Connecting = {} /\ InBody = {} /\ Connecting' = {} /\ InBody' = {}
        BY <1>1, <2>1, EmptyStack DEF Connecting, InBody
    <2>3. Phases' = Phases
        BY <1>1, <2>2, PhaseKept
    <2>4. ~Busy /\ Busy' = FALSE
        BY <1>1, <2>1 DEF Busy
    <2>5. ~(~paused /\ \E c \in Callbacks : Phases[c] # "absent")
        BY <1>3, <1>4
    <2> QED
        BY <1>1, <2>3, <2>4, <2>5 DEF Contract!Load
<1>5. CASE ~quiet
    <2>1. stack' = <<f>> /\ f \in Frames /\ f.op = "evaluate_all"
        BY <1>1, <1>2, <1>5, PushOne
    <2>2. Phases' = Phases /\ ~Busy /\ Busy' = TRUE
        BY <1>1, <2>1, StartPhases DEF Busy
    <2>3. ~paused /\ \E c \in Callbacks : Phases[c] # "absent"
        BY <1>3, <1>5
    <2> QED
        BY <1>1, <2>2, <2>3 DEF Contract!Load
<1> QED
    BY <1>4, <1>5

LEMMA PauseMaps ==
    ASSUME Tame, TameInv, Pause
    PROVE  Contract!Pause
<1>1. /\ stack = <<>> /\ stack' = <<>> /\ paused' = TRUE
      /\ UNCHANGED <<completed, connected, waiting, constructed, loaded, target>>
    BY OuterCalls DEF Pause, flags
<1>2. Connecting = {} /\ InBody = {} /\ Connecting' = {} /\ InBody' = {}
    BY <1>1, EmptyStack DEF Connecting, InBody
<1>3. Phases' = Phases
    BY <1>1, <1>2, PhaseKept
<1> QED
    BY <1>1, <1>3 DEF Contract!Pause, Busy

LEMMA UnpauseMaps ==
    ASSUME Tame, TameInv, Unpause
    PROVE  Contract!Unpause
<1> DEFINE f == [op |-> "evaluate_all", pos |-> 1, more |-> 0]
<1>1. f \in Frames /\ f.op = "evaluate_all"
    BY DEF Frames, EvaluateAllFrame
<1>2. /\ stack = <<>> /\ paused' = FALSE /\ stack' = Push(f, stack)
      /\ UNCHANGED <<completed, connected, waiting, constructed, loaded, target>>
    BY OuterCalls DEF Unpause, flags
<1> HIDE DEF f
<1>3. stack' = <<f>>
    BY <1>1, <1>2, PushOne
<1>4. Phases' = Phases /\ ~Busy /\ Busy' = TRUE
    BY <1>1, <1>2, <1>3, StartPhases DEF Busy
<1> QED
    BY <1>2, <1>4 DEF Contract!Unpause

LEMMA OpenTargetMaps ==
    ASSUME TameInv, OpenTarget
    PROVE  Contract!Open
<1> DEFINE f == [op |-> "target_ready", pos |-> 1]
<1>1. f \in Frames /\ f.op = "target_ready"
    BY DEF Frames, TargetReadyFrame
<1>2. /\ stack = <<>> /\ loaded # {} /\ target' = TRUE /\ stack' = Push(f, stack)
      /\ UNCHANGED <<completed, connected, waiting, constructed, paused, loaded>>
    BY DEF OpenTarget, flags
<1> HIDE DEF f
<1>3. stack' = <<f>>
    BY <1>1, <1>2, PushOne
<1>4. Phases' = Phases /\ ~Busy /\ Busy' = TRUE
    BY <1>1, <1>2, <1>3, StartPhases DEF Busy
<1> QED
    BY <1>2, <1>4 DEF Contract!Open

-----------------------------------------------------------------------------

\* A call that ends leaves no callback that should have been called.
LEMMA ReturnMaps ==
    ASSUME TameInv, TameInv', InBody = {}, stack # <<>>, stack' = <<>>,
           Phases' = Phases, UNCHANGED <<waiting, paused, loaded, target>>
    PROVE  Contract!Return
<1>1. Busy /\ Busy' = FALSE
    BY DEF Busy
<1>2. Contract!Alone
    BY DEF Contract!Alone, Phases, Phase
<1>3. ASSUME NEW c \in Callbacks, Phases[c] = "connected", ~waiting[c],
             Outcomes[c] = {"done"}, loaded # {}, Ready(c)
      PROVE  paused
    <2>1. /\ Phases'[c] = Phase(c)'
          /\ Phase(c)' = IF completed'[c] THEN "completed"
                         ELSE IF connected'[c] THEN "connected"
                         ELSE IF c \in constructed' THEN "created"
                         ELSE "absent"
        <3>1. Connecting' = {} /\ InBody' = {}
            BY EmptyStack DEF Connecting, InBody
        <3> QED
            BY <3>1 DEF Phases, Phase
    <2>2. ~completed'[c] /\ connected'[c]
        BY <1>3, <2>1
    <2>3. Due(c)'
        BY <1>3, <2>2 DEF Due, Ready
    <2>4. ~paused' => c \in InBody'
        BY <2>2, <2>3 DEF TameInv, DueOK
    <2>5. InBody' = {}
        BY EmptyStack DEF InBody
    <2> QED
        BY <2>4, <2>5
<1>4. paused \/ ~Contract!Unserved
    BY <1>3 DEF Contract!Unserved, Contract!Ready, Ready
<1> QED
    BY <1>1, <1>2, <1>4 DEF Contract!Return

LEMMA ConnectReturnMaps ==
    ASSUME TameInv, TameInv', ConnectReturn
    PROVE  Contract!Return
<1> DEFINE c == Top.cb
<1>1. Top \in Frames /\ Top.op = "connect_callback" /\ stack = <<Top>>
    BY CallOnTop DEF ConnectReturn
<1>2. c \in Callbacks
    BY <1>1, FrameFields
<1>3. /\ IF completed[c] THEN connected' = connected
         ELSE connected' = [connected EXCEPT ![c] = TRUE]
      /\ UNCHANGED <<completed, waiting, paused, loaded, target, constructed>>
    BY DEF ConnectReturn, world
<1>4. stack' = <<>> /\ stack # <<>>
    BY <1>1, OneFrame DEF ConnectReturn
<1>5. Connecting = {c} /\ InBody = {} /\ Connecting' = {} /\ InBody' = {}
    BY <1>1, <1>4, CallOnly, EmptyStack DEF Connecting, InBody
<1> HIDE DEF c
<1>6. connected \in [Callbacks -> BOOLEAN]
    BY DEF TameInv, CallInv, TypeOK
<1>7. \A d \in Callbacks : Phase(d)' = Phase(d)
    BY <1>2, <1>3, <1>5, <1>6 DEF Phase
<1> QED
    BY <1>3, <1>4, <1>5, <1>7, PhasesStay, ReturnMaps

LEMMA EvaluateAllStepMaps ==
    ASSUME TameInv, CallsOK, EvaluateAllStep
    PROVE  (\E c \in Callbacks : Contract!Call(c)) \/ UNCHANGED Contract!vars
<1>1. Running("evaluate_all") /\ Top.pos <= Len(pending)
    BY DEF EvaluateAllStep
<1>2. /\ Top.pos \in Nat \ {0} /\ Connecting = {} /\ InBody = {}
      /\ Evaluated = Taken(pending, Top.pos) /\ Woken = Taken(waitlist, 1)
      /\ pending \in Seq(Callbacks) /\ waitlist \in Seq(Callbacks)
      /\ stack = <<Top>> /\ Top.op = "evaluate_all" /\ Top \in Frames
    BY <1>1, LoopFacts
<1>3. PICK c \in Callbacks : /\ c = pending[Top.pos] /\ c \in Members(pending)
                             /\ c \notin Evaluated /\ Woken = {}
    BY <1>1, <1>2, TakenFacts DEF TameInv
<1>4. /\ stack' = Evaluate(c, waiting[c], Advance(stack))
      /\ UNCHANGED <<completed, connected, waiting, waitlist, pending, paused,
                     loaded, target, constructed>>
    BY <1>3 DEF EvaluateAllStep, flags, lists, world
<1>5. waiting[c] \in BOOLEAN
    BY <1>3 DEF TameInv, CallInv, TypeOK
<1>6. /\ Connecting' = {} /\ stack' # <<>>
      /\ InBody' = IF ~waiting[c] /\ Ready(c) THEN {c} ELSE {}
    BY <1>1, <1>2, <1>3, <1>4, <1>5, LoopStep
<1>7. connected[c] /\ ~completed[c]
    BY <1>3 DEF TameInv, PendingOK, CallInv, FlagsAgree
<1>8. Busy /\ Busy' /\ Busy' = Busy /\ ~paused
    BY <1>2, <1>6, OneFrame DEF Busy, CallsOK
<1>9. CASE ~waiting[c] /\ Ready(c)
    <2>1. Phase(c)' = "running" /\ Phases[c] = "connected"
        BY <1>2, <1>3, <1>6, <1>7, <1>9 DEF Phase, Phases
    <2>2. \A d \in Callbacks : d # c => Phase(d)' = Phase(d)
        BY <1>2, <1>4, <1>6, <1>9 DEF Phase
    <2>3. Phases' = [Phases EXCEPT ![c] = "running"]
        BY <1>3, <2>1, <2>2, PhaseMoves
    <2>4. Contract!Alone
        BY <1>2 DEF Contract!Alone, Phases, Phase
    <2>5. Contract!Call(c)
        BY <1>4, <1>8, <1>9, <2>1, <2>3, <2>4
        DEF Contract!Call, Contract!Enter, Contract!Ready, Ready
    <2> QED
        BY <1>3, <2>5
<1>10. CASE ~(~waiting[c] /\ Ready(c))
    <2>1. Phases' = Phases
        BY <1>2, <1>4, <1>6, <1>10, PhaseKept
    <2> QED
        BY <1>4, <1>8, <2>1 DEF Contract!vars
<1> QED
    BY <1>9, <1>10

LEMMA EvaluateAllDoneMaps ==
    ASSUME TameInv, TameInv', EvaluateAllDone
    PROVE  Contract!Return \/ UNCHANGED Contract!vars
<1> DEFINE f == [op |-> "evaluate_all", pos |-> 1, more |-> Top.more - 1]
<1>1. /\ Running("evaluate_all") /\ stack' = NextHandler(stack)
      /\ UNCHANGED <<completed, connected, waiting, paused, loaded, target,
                     constructed>>
    BY DEF EvaluateAllDone, flags, world
<1>2. /\ Top \in Frames /\ Top.op = "evaluate_all" /\ stack = <<Top>>
      /\ Connecting = {} /\ InBody = {}
    BY <1>1, LoopFacts
<1>3. f.op = "evaluate_all"
    OBVIOUS
<1>4. stack' = <<f>> \/ stack' = <<>>
    <2>1. Head(stack) = Top /\ Tail(stack) = <<>>
        BY <1>2, OneFrame
    <2>2. stack' = Push(f, <<>>) \/ stack' = <<>>
        BY <1>1, <2>1 DEF NextHandler
    <2> HIDE DEF f
    <2>3. Push(f, <<>>) = <<f>>
        BY DEF Push
    <2> QED
        BY <2>2, <2>3
<1> HIDE DEF f
<1>5. stack' = <<f>> => f \in Frames
    BY DEF TameInv, CallInv, TypeOK
<1>6. Connecting' = {} /\ InBody' = {}
    <2>1. CASE stack' = <<f>>
        BY <1>3, <1>5, <2>1, CallOnly DEF Connecting, InBody
    <2>2. CASE stack' = <<>>
        BY <2>2, EmptyStack DEF Connecting, InBody
    <2> QED
        BY <1>4, <2>1, <2>2
<1>7. Phases' = Phases /\ stack # <<>>
    BY <1>1, <1>2, <1>6, PhaseKept, OneFrame
<1>8. CASE stack' = <<>>
    BY <1>1, <1>2, <1>7, <1>8, ReturnMaps
<1>9. CASE stack' = <<f>>
    <2>1. Busy' = Busy
        BY <1>5, <1>7, <1>9, OneFrame DEF Busy
    <2> QED
        BY <1>1, <1>7, <2>1 DEF Contract!vars
<1> QED
    BY <1>4, <1>8, <1>9

LEMMA TargetReadyStepMaps ==
    ASSUME TameInv, CallsOK, TargetReadyStep
    PROVE  \E c \in Callbacks : Contract!Wake(c)
<1>1. Running("target_ready") /\ Top.pos <= Len(waitlist)
    BY DEF TargetReadyStep
<1>2. /\ Top.pos \in Nat \ {0} /\ Connecting = {} /\ InBody = {}
      /\ Evaluated = Taken(pending, 1) /\ Woken = Taken(waitlist, Top.pos)
      /\ pending \in Seq(Callbacks) /\ waitlist \in Seq(Callbacks)
      /\ stack = <<Top>> /\ Top.op = "target_ready" /\ Top \in Frames
    BY <1>1, LoopFacts
<1>3. PICK c \in Callbacks : /\ c = waitlist[Top.pos] /\ c \in Members(waitlist)
                             /\ c \notin Woken /\ Evaluated = {}
    BY <1>1, <1>2, TakenFacts DEF TameInv
<1>4. /\ stack' = Evaluate(c, FALSE, Advance(stack))
      /\ waiting' = [waiting EXCEPT ![c] = FALSE]
      /\ UNCHANGED <<completed, connected, waitlist, pending, paused, loaded,
                     target, constructed>>
    BY <1>3 DEF TargetReadyStep, lists, world
<1>5. /\ Connecting' = {} /\ stack' # <<>>
      /\ InBody' = IF Ready(c) THEN {c} ELSE {}
    BY <1>1, <1>2, <1>3, <1>4, LoopStep
<1>6. waiting[c] /\ c \in Members(pending)
    BY <1>2, <1>3 DEF TameInv, WaitlistOK
<1>7. connected[c] /\ ~completed[c]
    BY <1>3, <1>6 DEF TameInv, PendingOK, CallInv, FlagsAgree
<1>8. Busy /\ Busy' = Busy /\ target
    BY <1>2, <1>5, OneFrame DEF Busy, CallsOK
<1>9. /\ Phases[c] = "connected"
      /\ Phase(c)' = IF Ready(c) THEN "running" ELSE "connected"
    BY <1>2, <1>3, <1>4, <1>5, <1>7 DEF Phase, Phases
<1>10. \A d \in Callbacks : d # c => Phase(d)' = Phase(d)
    BY <1>2, <1>4, <1>5 DEF Phase
<1>11. Phases' = [Phases EXCEPT ![c] = IF Ready(c) THEN "running" ELSE "connected"]
    BY <1>3, <1>9, <1>10, PhaseMoves
<1>12. Contract!Alone
    BY <1>2 DEF Contract!Alone, Phases, Phase
<1>13. Contract!Wake(c)
    BY <1>4, <1>6, <1>8, <1>9, <1>11, <1>12
    DEF Contract!Wake, Contract!Enter, Contract!Ready, Ready
<1> QED
    BY <1>3, <1>13

LEMMA TargetReadyDoneMaps ==
    ASSUME TameInv, TameInv', TargetReadyDone
    PROVE  Contract!Return
<1>1. /\ Running("target_ready") /\ stack' = Tail(stack)
      /\ UNCHANGED <<completed, connected, waiting, paused, loaded, target,
                     constructed>>
    BY DEF TargetReadyDone, flags, world
<1>2. /\ Top \in Frames /\ stack = <<Top>> /\ Connecting = {} /\ InBody = {}
    BY <1>1, LoopFacts
<1>3. stack' = <<>> /\ stack # <<>>
    BY <1>1, <1>2, OneFrame
<1>4. Connecting' = {} /\ InBody' = {}
    BY <1>3, EmptyStack DEF Connecting, InBody
<1> QED
    BY <1>1, <1>2, <1>3, <1>4, PhaseKept, ReturnMaps

LEMMA BodiesMap ==
    ASSUME Tame, TameInv,
           BodyDone \/ BodyDoneAgain \/ BodyRetry \/ BodyException
    PROVE  \E c \in Callbacks : Contract!Finish(c) \/ Contract!Retry(c)
<1>1. Running("callback")
    BY DEF BodyDone, BodyDoneAgain, BodyRetry, BodyException
<1>2. PICK f \in Frames : f.op # "callback" /\ stack = <<Top, f>>
    BY <1>1, BodyAndCall
<1>3. PICK c \in Callbacks : Top \in Frames /\ Top.op = "callback" /\ c = Top.cb
    BY <1>1, BodyAndCall, FrameFields
<1>4. Tail(stack) = <<f>> /\ stack # <<>>
    BY <1>2, <1>3, TwoFrames
<1>5. InBody = {c} /\ Connecting = IF f.op = "connect_callback" THEN {f.cb} ELSE {}
    BY <1>2, <1>3, BodyOver DEF InBody, Connecting
<1>6. /\ PosOf(stack, "evaluate_all") = IF f.op = "evaluate_all" THEN f.pos ELSE 1
      /\ PosOf(stack, "target_ready") = IF f.op = "target_ready" THEN f.pos ELSE 1
    BY <1>2, <1>3, BodyOver
<1>7. ~completed[c] /\ (c \in Connecting \/ c \in Evaluated \/ c \in Woken)
    BY <1>5 DEF TameInv, CurrentOK
<1>8. ~BodyDoneAgain /\ ~BodyException
    BY <1>3, <1>7 DEF BodyDoneAgain, BodyException, Tame
<1>9. c \in Connecting \/ connected[c]
    <2>1. pending \in Seq(Callbacks) /\ waitlist \in Seq(Callbacks)
        BY DEF TameInv, CallInv, TypeOK
    <2>2. /\ (f.op = "evaluate_all" => f.pos \in Nat \ {0})
          /\ (f.op = "target_ready" => f.pos \in Nat \ {0})
        BY <1>2, FrameFields DEF EvaluateAllFrame, TargetReadyFrame
    <2>3. Evaluated \subseteq Members(pending) /\ Woken \subseteq Members(waitlist)
        BY <1>6, <2>1, <2>2, TakenFacts DEF Evaluated, Woken
    <2>4. c \in Connecting \/ c \in Members(pending)
        BY <1>7, <2>3 DEF TameInv, WaitlistOK
    <2> QED
        BY <1>7, <2>4 DEF TameInv, PendingOK
<1>10. stack' = <<f>> /\ UNCHANGED <<waiting, paused, loaded, target, constructed>>
    BY <1>4, <1>8 DEF BodyDone, BodyRetry, flags, lists, world
<1>11. InBody' = {} /\ Connecting' = Connecting /\ Busy /\ Busy' = Busy
    BY <1>2, <1>4, <1>5, <1>10, CallOnly, OneFrame DEF InBody, Connecting, Busy
<1>12. Phases[c] = "running"
    BY <1>3, <1>5 DEF Phases, Phase
<1>13. /\ completed \in [Callbacks -> BOOLEAN]
       /\ connected \in [Callbacks -> BOOLEAN]
    BY DEF TameInv, CallInv, TypeOK
<1>14. CASE BodyDone
    <2>1. /\ completed' = [completed EXCEPT ![c] = TRUE]
          /\ connected' = [connected EXCEPT ![c] = FALSE]
          /\ "done" \in Outcomes[c]
        BY <1>3, <1>14 DEF BodyDone, Complete
    <2>2. Phase(c)' = "completed"
        BY <1>3, <1>11, <1>13, <2>1 DEF Phase
    <2>3. \A d \in Callbacks : d # c => Phase(d)' = Phase(d)
        BY <1>3, <1>5, <1>10, <1>11, <1>13, <2>1 DEF Phase
    <2>4. Phases' = [Phases EXCEPT ![c] = "completed"]
        BY <1>3, <2>2, <2>3, PhaseMoves
    <2>5. Contract!Finish(c)
        BY <1>10, <1>11, <1>12, <2>1, <2>4 DEF Contract!Finish, Contract!Enter
    <2> QED
        BY <1>3, <2>5
<1>15. CASE BodyRetry
    <2>1. UNCHANGED <<completed, connected>> /\ Outcomes[c] # {"done"}
        BY <1>3, <1>15 DEF BodyRetry, flags
    <2>2. Phase(c)' = "connected"
        BY <1>7, <1>9, <1>11, <2>1 DEF Phase
    <2>3. \A d \in Callbacks : d # c => Phase(d)' = Phase(d)
        BY <1>5, <1>10, <1>11, <2>1 DEF Phase
    <2>4. Phases' = [Phases EXCEPT ![c] = "connected"]
        BY <1>3, <2>2, <2>3, PhaseMoves
    <2>5. Contract!Retry(c)
        BY <1>10, <1>11, <1>12, <2>1, <2>4 DEF Contract!Retry, Contract!Enter
    <2> QED
        BY <1>3, <2>5
<1> QED
    BY <1>8, <1>14, <1>15

-----------------------------------------------------------------------------

LEMMA NextCallsOK ==
    ASSUME Tame, TameInv, TameInv', CallsOK, [Next]_vars
    PROVE  CallsOK'
<1>1. CASE UNCHANGED vars
    BY <1>1 DEF vars, CallsOK
<1>2. CASE Calls
    <2>1. CASE \E c \in Callbacks : Construct(c)
        BY <2>1, OuterCalls DEF Construct, CallsOK
    <2>2. CASE \E c \in Callbacks : ConnectCallback(c)
        <3>1. PICK c \in Callbacks : ConnectCallback(c)
            BY <2>2
        <3> DEFINE f == [op |-> "connect_callback", cb |-> c]
                   g == [op |-> "callback", cb |-> c]
        <3>2. /\ f \in Frames /\ g \in Frames
              /\ f.op = "connect_callback" /\ g.op = "callback"
            BY DEF Frames, ConnectFrame, BodyFrame
        <3> HIDE DEF f, g
        <3>3. Push(f, stack) = <<f>> /\ Push(g, <<f>>) = <<g, f>>
            BY <3>1, <3>2, OuterCalls, PushOne, PushTwo DEF ConnectCallback
        <3>4. stack' = <<g, f>> \/ stack' = <<f>>
            BY <3>1, <3>3 DEF ConnectCallback, Evaluate, f, g
        <3>5. stack'[Len(stack')] = f
            BY <3>2, <3>4, ShapeOfOne, ShapeOfTwo
        <3> QED
            BY <3>2, <3>5 DEF CallsOK
    <2>3. CASE \E o \in Objfiles : NewObjfile(o)
        <3>1. /\ stack = <<>> /\ paused' = paused
              /\ \/ stack' = stack
                 \/ /\ ~paused
                    /\ stack' = Push([op |-> "evaluate_all", pos |-> 1,
                                      more |-> Cardinality(constructed) - 1], stack)
            BY <2>3, OuterCalls DEF NewObjfile
        <3> DEFINE f == [op |-> "evaluate_all", pos |-> 1,
                         more |-> Cardinality(constructed) - 1]
        <3>2. f.op = "evaluate_all"
            OBVIOUS
        <3> HIDE DEF f
        <3>3. Push(f, <<>>) = <<f>>
            BY DEF Push
        <3>4. stack' = <<>> \/ (~paused' /\ stack' = <<f>>)
            BY <3>1, <3>3 DEF f
        <3> QED
            BY <3>2, <3>4 DEF CallsOK
    <2>4. CASE Pause
        BY <2>4, OuterCalls DEF Pause, CallsOK
    <2>5. CASE Unpause
        <3> DEFINE f == [op |-> "evaluate_all", pos |-> 1, more |-> 0]
        <3>1. f.op = "evaluate_all"
            OBVIOUS
        <3>2. stack = <<>> /\ ~paused' /\ stack' = Push(f, stack)
            BY <2>5, OuterCalls DEF Unpause
        <3> HIDE DEF f
        <3>3. stack' = <<f>>
            BY <3>2 DEF Push
        <3> QED
            BY <3>1, <3>2, <3>3 DEF CallsOK
    <2>6. CASE OpenTarget
        <3> DEFINE f == [op |-> "target_ready", pos |-> 1]
        <3>1. f.op = "target_ready"
            OBVIOUS
        <3>2. stack = <<>> /\ target' /\ stack' = Push(f, stack)
            BY <2>6 DEF OpenTarget
        <3> HIDE DEF f
        <3>3. stack' = <<f>>
            BY <3>2 DEF Push
        <3> QED
            BY <3>1, <3>2, <3>3 DEF CallsOK
    <2> QED
        BY <1>2, <2>1, <2>2, <2>3, <2>4, <2>5, <2>6 DEF Calls
<1>3. CASE ConnectReturn \/ TargetReadyDone
    <2>1. Running("connect_callback") \/ Running("target_ready")
        BY <1>3 DEF ConnectReturn, TargetReadyDone
    <2>2. stack' = <<>>
        BY <1>3, <2>1, CallOnTop, OneFrame DEF ConnectReturn, TargetReadyDone
    <2> QED
        BY <2>2 DEF CallsOK
<1>4. CASE EvaluateAllStep \/ TargetReadyStep
    <2>1. PICK op \in {"evaluate_all", "target_ready"} :
              /\ Running(op)
              /\ op = "evaluate_all" => EvaluateAllStep
              /\ op = "target_ready" => TargetReadyStep
        BY <1>4 DEF EvaluateAllStep, TargetReadyStep
    <2>2. /\ Top.pos \in Nat \ {0} /\ pending \in Seq(Callbacks)
          /\ waitlist \in Seq(Callbacks) /\ stack = <<Top>> /\ Top.op = op
          /\ Top \in Frames
        BY <2>1, LoopFacts
    <2>3. PICK c \in Callbacks, w \in BOOLEAN :
              /\ stack' = Evaluate(c, w, Advance(stack))
              /\ UNCHANGED <<pending, waitlist, paused, target>>
        <3>1. CASE op = "evaluate_all"
            <4>1. /\ pending[Top.pos] \in Callbacks
                  /\ waiting[pending[Top.pos]] \in BOOLEAN
                BY <2>1, <2>2, <3>1 DEF EvaluateAllStep, TameInv, CallInv, TypeOK
            <4> QED
                BY <2>1, <3>1, <4>1 DEF EvaluateAllStep, lists, world
        <3>2. CASE op = "target_ready"
            <4>1. waitlist[Top.pos] \in Callbacks
                BY <2>1, <2>2, <3>2 DEF TargetReadyStep
            <4> QED
                BY <2>1, <3>2, <4>1 DEF TargetReadyStep, lists, world
        <3> QED
            BY <3>1, <3>2
    <2>4. stack'[Len(stack')].op = op
        BY <2>1, <2>3, LoopStep
    <2>5. stack # <<>> /\ stack[Len(stack)].op = op
        BY <2>2, OneFrame
    <2> QED
        BY <2>3, <2>4, <2>5 DEF CallsOK
<1>5. CASE EvaluateAllDone
    <2>1. Running("evaluate_all") /\ stack' = NextHandler(stack) /\ paused' = paused
        BY <1>5 DEF EvaluateAllDone, world
    <2>2. Top \in Frames /\ stack = <<Top>> /\ Top.op = "evaluate_all"
        BY <2>1, LoopFacts
    <2>3. /\ Head(stack) = Top /\ Tail(stack) = <<>> /\ ~paused
        BY <2>2, OneFrame DEF CallsOK
    <2> DEFINE f == [op |-> "evaluate_all", pos |-> 1, more |-> Top.more - 1]
    <2>4. f.op = "evaluate_all"
        OBVIOUS
    <2>5. stack' = Push(f, <<>>) \/ stack' = <<>>
        BY <2>1, <2>3 DEF NextHandler
    <2> HIDE DEF f
    <2>6. stack' = <<f>> \/ stack' = <<>>
        BY <2>5 DEF Push
    <2> QED
        BY <2>1, <2>3, <2>4, <2>6 DEF CallsOK
<1>6. CASE BodyDone \/ BodyDoneAgain \/ BodyRetry \/ BodyException
    <2>1. Running("callback")
        BY <1>6 DEF BodyDone, BodyDoneAgain, BodyRetry, BodyException
    <2>2. PICK f \in Frames : f.op # "callback" /\ stack = <<Top, f>>
        BY <2>1, BodyAndCall
    <2>3. PICK c \in Callbacks : Top \in Frames /\ Top.op = "callback" /\ c = Top.cb
        BY <2>1, BodyAndCall, FrameFields
    <2>4. InBody = {c}
        BY <2>2, <2>3, BodyOver DEF InBody
    <2>5. ~BodyDoneAgain /\ ~BodyException
        BY <2>3, <2>4 DEF BodyDoneAgain, BodyException, Tame, TameInv, CurrentOK
    <2>6. stack' = Tail(stack) /\ UNCHANGED <<paused, target>>
        BY <1>6, <2>5 DEF BodyDone, BodyRetry, world
    <2>7. stack' = <<f>> /\ stack # <<>> /\ stack[Len(stack)] = f
        BY <2>2, <2>3, <2>6, TwoFrames
    <2> QED
        BY <2>2, <2>6, <2>7, OneFrame DEF CallsOK
<1> QED
    BY <1>1, <1>2, <1>3, <1>4, <1>5, <1>6 DEF Next, Steps

LEMMA InitMaps == Init => Contract!Init
<1> SUFFICES ASSUME Init PROVE Contract!Init
    OBVIOUS
<1>1. TameInv /\ stack = <<>>
    BY InitTame DEF Init
<1>2. \A c \in Callbacks : Phase(c) = "absent"
    BY <1>1, IdlePhases DEF Init
<1>3. Phases = [c \in Callbacks |-> "absent"] /\ Busy = FALSE
    BY <1>1, <1>2 DEF Phases, Busy
<1> QED
    BY <1>3 DEF Contract!Init, Init

LEMMA StepMaps ==
    ASSUME Tame, TameInv, TameInv', CallsOK, [Next]_vars
    PROVE  [Contract!Next]_(Contract!vars)
<1>1. CASE UNCHANGED vars
    <2>1. InBody' = InBody /\ Connecting' = Connecting /\ Busy' = Busy
        BY <1>1 DEF vars, InBody, Connecting, Busy
    <2>2. Phases' = Phases
        BY <1>1, <2>1, PhaseKept DEF vars
    <2> QED
        BY <1>1, <2>1, <2>2 DEF vars, Contract!vars
<1>2. CASE Calls
    BY <1>2, ConstructMaps, ConnectCallbackMaps, NewObjfileMaps, PauseMaps,
       UnpauseMaps, OpenTargetMaps DEF Calls, Contract!Next
<1>3. CASE ConnectReturn \/ TargetReadyDone \/ EvaluateAllDone
    BY <1>3, ConnectReturnMaps, TargetReadyDoneMaps, EvaluateAllDoneMaps
    DEF Contract!Next
<1>4. CASE EvaluateAllStep \/ TargetReadyStep
    BY <1>4, EvaluateAllStepMaps, TargetReadyStepMaps DEF Contract!Next
<1>5. CASE BodyDone \/ BodyDoneAgain \/ BodyRetry \/ BodyException
    BY <1>5, BodiesMap DEF Contract!Next
<1> QED
    BY <1>1, <1>2, <1>3, <1>4, <1>5 DEF Next, Steps

\* evaluate_all() is in progress only while the registry is not paused and
\* target_ready() only with a target, for any number of tame callbacks.
THEOREM TameContractInvariant == Tame /\ Spec => []ContractInv
<1> SUFFICES ASSUME Tame PROVE Spec => []ContractInv
    OBVIOUS
<1>1. Init => CallsOK
    BY DEF Init, CallsOK
<1>2. ContractInv /\ [Next]_vars => ContractInv'
    BY NextTame, NextCallsOK DEF ContractInv
<1>3. Init => ContractInv
    BY <1>1, InitTame DEF ContractInv
<1> QED
    BY <1>2, <1>3, PTL DEF Spec

(***************************************************************************)
(* The registry implements its contract, for any number of callbacks and   *)
(* object files, when the bodies are tame: every step of the lists, the    *)
(* loops and the call stack is a step of CallbackContract or changes       *)
(* nothing that it mentions.                                               *)
(***************************************************************************)
THEOREM TameKeepsContract == Tame /\ Spec => KeepsContract
<1> SUFFICES ASSUME Tame PROVE Spec => KeepsContract
    OBVIOUS
<1>1. ContractInv /\ ContractInv' /\ [Next]_vars => [Contract!Next]_(Contract!vars)
    BY StepMaps DEF ContractInv
<1>2. Spec => []ContractInv
    BY TameContractInvariant
<1> QED
    BY <1>1, <1>2, InitMaps, PTL DEF Spec, KeepsContract, Contract!Spec
-----------------------------------------------------------------------------
(***************************************************************************)
(* crash/infra/lookup.py: DelayedLookup for every collection: any number   *)
(* of declarations of any class, however they share names and attribute    *)
(* names, and any overrides.                                               *)
(***************************************************************************)
-----------------------------------------------------------------------------
(* The dictionary `attrs' of a collection.                                 *)

\* Every key is filed for a declaration of the collection.
LEMMA AttrsInEntries ==
    ASSUME cls \in DOMAIN Specs
    PROVE  /\ Len(Specs[cls]) \in Nat
           /\ \A k \in Keys : attrs[k] \in Entries
           /\ \A i \in Entries : Name(i) \in Keys
<1>1. Len(Specs[cls]) \in Nat
    BY SpecsAssumption DEF SpecsOK
<1>2. ASSUME NEW k \in Keys PROVE attrs[k] \in Entries
    <2> DEFINE S == {i \in 1..Len(Specs[cls]) : k \in FiledUnder(cls, i)}
    <2>1. S \in SUBSET (0..Len(Specs[cls]))
        BY <1>1
    <2>2. S # {}
        BY DEF Keys, KeysOf
    <2>3. attrs[k] = Max(S)
        BY DEF attrs, AttrsOf, Keys
    <2>4. Max(S) \in S
        <3> HIDE DEF S
        <3>1. \E x \in S : \A y \in S : x >= y
            BY <1>1, <2>1, <2>2, GreatestNatural
        <3> QED
            BY <3>1 DEF Max
    <2> QED
        BY <2>3, <2>4 DEF Entries
<1>3. ASSUME NEW i \in Entries PROVE Name(i) \in Keys
    BY DEF Name, Keys, KeysOf, FiledUnder, Entries
<1> QED
    BY <1>1, <1>2, <1>3

\* The names of a collection.
LEMMA ResolvedType ==
    ASSUME cls \in DOMAIN Specs, NEW i \in Entries
    PROVE  Name(i) \in STRING \X STRING /\ ResolvedOf[cls][i].pointer \in BOOLEAN
<1>1. Specs[cls][i] \in Declarations
    BY SpecsAssumption DEF SpecsOK, Entries
<1>2. ResolvedOf[cls][i] =
          IF cls = "DelayedType" THEN resolve_type(Specs[cls][i])
          ELSE [name |-> <<Specs[cls][i].tag, Specs[cls][i].id>>,
                attrname |-> <<Specs[cls][i].tag, Specs[cls][i].id>>,
                pointer |-> FALSE]
    BY DEF ResolvedOf, Entries
<1>3. /\ Specs[cls][i].tag \in STRING /\ Specs[cls][i].id \in STRING
      /\ Specs[cls][i].pointer \in BOOLEAN
    BY <1>1 DEF Declarations
<1>4. CASE cls = "DelayedType"
    <2>1. ResolvedOf[cls][i] = resolve_type(Specs[cls][i])
        BY <1>2, <1>4
    <2> DEFINE s == Specs[cls][i]
               attrname == <<IF s.tag = "struct" THEN "" ELSE s.tag, s.id,
                             IF s.pointer THEN "_p_type" ELSE "_type">>
    <2>2. ResolvedOf[cls][i] = [name |-> <<s.tag, s.id>>, attrname |-> attrname,
                                pointer |-> s.pointer]
        BY <2>1, Zenon DEF resolve_type
    <2> HIDE DEF attrname
    <2>3. ResolvedOf[cls][i].name = <<s.tag, s.id>>
        BY <2>2
    <2>4. ResolvedOf[cls][i].pointer = s.pointer
        BY <2>2
    <2>5. ResolvedOf[cls][i].pointer \in BOOLEAN
        BY <2>4, <1>3, Zenon
    <2>6. Name(i) \in STRING \X STRING
        BY <2>3, <1>3 DEF Name
    <2> QED
        BY <2>5, <2>6
<1>5. CASE cls # "DelayedType"
    <2>1. /\ ResolvedOf[cls][i].name = <<Specs[cls][i].tag, Specs[cls][i].id>>
          /\ ResolvedOf[cls][i].pointer = FALSE
        BY <1>2, <1>5
    <2>2. Name(i) \in STRING \X STRING
        BY <2>1, <1>3 DEF Name
    <2>3. ResolvedOf[cls][i].pointer \in BOOLEAN
        BY <2>1, Zenon
    <2> QED
        BY <2>2, <2>3
<1> QED
    BY <1>4, <1>5

\* What is found or supplied is told from None, and from each other.
LEMMA ValuesDiffer ==
    ASSUME NEW i, NEW n, NEW a
    PROVE  /\ Found(i) # None /\ Found(i).from = "gdb"
           /\ Supplied(n, a) # None /\ Supplied(n, a).from = a
<1>1. DOMAIN None = {"none"}
    BY DEF None
<1>2. DOMAIN Found(i) = {"of", "pointer", "from"}
    BY DEF Found
<1>3. DOMAIN Supplied(n, a) = {"of", "pointer", "from"}
    BY DEF Supplied
<1>4. {"none"} # {"of", "pointer", "from"}
    OBVIOUS
<1>5. Found(i).from = "gdb" /\ Supplied(n, a).from = a
    BY DEF Found, Supplied
<1> QED
    BY <1>1, <1>2, <1>3, <1>4, <1>5

-----------------------------------------------------------------------------
(***************************************************************************)
(* The inductive invariant.  The properties say nothing of where a value   *)
(* comes from; LookupInv adds that only a callback that has completed and  *)
(* override() write one, so that a value found once is not found again,    *)
(* and that what they write is never None.                                 *)
(***************************************************************************)
LookupValues == {None} \cup [of : STRING \X STRING, pointer : BOOLEAN,
                       from : {"gdb"} \cup Alternatives]
LookupTypeOK ==
    /\ cls \in DOMAIN Specs
    /\ value \in [Entries -> LookupValues]
    /\ cached \in [Keys -> LookupValues]
    /\ done \subseteq Entries /\ overridden \subseteq Entries
Sourced == \A i \in Entries : value[i] # None => i \in done \cup overridden
LookupInv == LookupTypeOK /\ Sourced /\ StaleOnlyIfOverridden

LEMMA InitLookup == LookupInit => LookupInv
<1> SUFFICES ASSUME LookupInit PROVE LookupInv
    OBVIOUS
<1>1. value = [i \in Entries |-> None] /\ cached = [k \in Keys |-> None]
    BY DEF LookupInit
<1>2. LookupTypeOK
    BY <1>1 DEF LookupInit, LookupTypeOK, LookupValues
<1>3. Sourced /\ StaleOnlyIfOverridden
    BY <1>1 DEF LookupInit, Sourced, StaleOnlyIfOverridden
<1> QED
    BY <1>2, <1>3 DEF LookupInv

\* The shape of a collection does not change.
LEMMA WorldFixed ==
    ASSUME cls' = cls
    PROVE  /\ Entries' = Entries /\ Keys' = Keys /\ attrs' = attrs
           /\ Names' = Names
           /\ \A i : Name(i)' = Name(i) /\ Found(i)' = Found(i)
    BY DEF Entries, Keys, attrs, Names, Name, Found

(***************************************************************************)
(* What a step may do to the values: change those of the entries W, which  *)
(* it marks as completed or overridden, to something else than None.  Both *)
(* a callback and an override are such a step.                             *)
(***************************************************************************)
Writes(W) ==
    /\ value' \in [Entries -> LookupValues]
    /\ \A i \in Entries : i \in W \/ value'[i] = value[i]
    /\ \A i \in Entries : i \in W => value'[i] # None
    /\ cls' = cls /\ cached' = cached

LEMMA WritesKeeps ==
    ASSUME LookupInv, NEW W \in SUBSET Entries, Writes(W),
           done \subseteq done', done' \subseteq Entries,
           overridden \subseteq overridden', overridden' \subseteq Entries,
           W \subseteq done' \cup overridden',
           W \cap done \subseteq overridden'
    PROVE  LookupInv'
<1>1. /\ Entries' = Entries /\ Keys' = Keys /\ attrs' = attrs
    BY WorldFixed DEF Writes
<1>2. LookupTypeOK'
    BY <1>1 DEF LookupInv, LookupTypeOK, Writes
<1>3. Sourced'
    BY <1>1 DEF LookupInv, Sourced, Writes
<1>4. ASSUME NEW k \in Keys, cached[k] # None, cached[k] # value'[attrs[k]]
      PROVE  attrs[k] \in overridden'
    <2>1. attrs[k] \in Entries
        BY AttrsInEntries DEF LookupInv, LookupTypeOK
    <2>2. CASE attrs[k] \in overridden
        BY <2>2
    <2>3. CASE attrs[k] \notin overridden
        <3>1. cached[k] = value[attrs[k]]
            BY <1>4, <2>3 DEF LookupInv, StaleOnlyIfOverridden, get
        <3>2. attrs[k] \in done /\ attrs[k] \in W
            BY <1>4, <2>1, <2>3, <3>1 DEF LookupInv, Sourced, Writes
        <3> QED
            BY <3>2
    <2> QED
        BY <2>2, <2>3
<1>5. StaleOnlyIfOverridden'
    BY <1>1, <1>4 DEF StaleOnlyIfOverridden, get, Writes
<1> QED
    BY <1>2, <1>3, <1>5 DEF LookupInv

LEMMA ResolveLookup ==
    ASSUME LookupInv, NEW i \in Entries, Resolve(i)
    PROVE  /\ LookupInv'
           /\ \A j \in Entries : value[j] # None => value'[j] # None
<1>1. cls \in DOMAIN Specs /\ value \in [Entries -> LookupValues]
    BY DEF LookupInv, LookupTypeOK
<1>2. Found(i) \in LookupValues /\ Found(i) # None
    <2>1. Name(i) \in STRING \X STRING /\ ResolvedOf[cls][i].pointer \in BOOLEAN
        BY <1>1, ResolvedType
    <2> QED
        BY <2>1, ValuesDiffer DEF Found, LookupValues
<1>3. /\ value' \in [Entries -> LookupValues]
      /\ \A j \in Entries : j # i => value'[j] = value[j]
      /\ value'[i] # None
    BY <1>1, <1>2 DEF Resolve
<1>4. Writes({i})
    BY <1>3 DEF Resolve, Writes, lookupWorld
<1>5. done' = done \cup {i} /\ i \notin done /\ overridden' = overridden
    BY DEF Resolve
<1>6. done \subseteq Entries /\ overridden \subseteq Entries
    BY DEF LookupInv, LookupTypeOK
<1>8. LookupInv'
    BY <1>4, <1>5, <1>6, WritesKeeps
<1> QED
    BY <1>3, <1>8

LEMMA OverrideLookup ==
    ASSUME LookupInv, NEW s \in OverrideSpecs[cls], NEW a \in Alternatives,
           Override(s, a)
    PROVE  /\ LookupInv'
           /\ \A j \in Entries : value[j] # None => value'[j] # None
<1> DEFINE W == {attrs[k] : k \in OverrideKeys(s)}
           v == Supplied(<<s.tag, s.id>>, a)
<1>1. cls \in DOMAIN Specs /\ value \in [Entries -> LookupValues]
    BY DEF LookupInv, LookupTypeOK
<1>2. W \in SUBSET Entries
    BY <1>1, AttrsInEntries DEF OverrideKeys
<1>3. v \in LookupValues /\ v # None /\ v.from # "gdb"
    <2>1. s \in Declarations
        BY <1>1, SpecsAssumption DEF SpecsOK
    <2>2. <<s.tag, s.id>> \in STRING \X STRING
        BY <2>1 DEF Declarations
    <2>3. v \in LookupValues
        BY <2>2 DEF Supplied, LookupValues
    <2> QED
        BY <2>3, ValuesDiffer, AlternativesAssumption
<1> HIDE DEF v
<1>4. /\ value' = [i \in Entries |-> IF i \in W THEN v ELSE value[i]]
      /\ overridden' = overridden \cup W
      /\ done' = done /\ cls' = cls /\ cached' = cached
    BY DEF Override, lookupWorld, v
<1> HIDE DEF W
<1>5. Writes(W)
    BY <1>1, <1>3, <1>4 DEF Writes
<1>6. done \subseteq Entries /\ overridden \subseteq Entries
    BY DEF LookupInv, LookupTypeOK
<1>8. LookupInv'
    BY <1>2, <1>4, <1>5, <1>6, WritesKeeps
<1> QED
    BY <1>3, <1>4, <1>8

\* A read, by item or by attribute, leaves behind what it returns.
LEMMA ReadLookup ==
    ASSUME LookupInv, NEW k \in Keys, GetItem(k) \/ GetAttr(k)
    PROVE  LookupInv' /\ value' = value
<1>1. /\ cached' = [cached EXCEPT ![k] = value[attrs[k]]]
      /\ cls' = cls /\ value' = value /\ done' = done /\ overridden' = overridden
    BY DEF GetItem, GetAttr, SetAttribute, get, lookupWorld
<1>2. /\ Entries' = Entries /\ Keys' = Keys /\ attrs' = attrs
    BY <1>1, WorldFixed
<1>3. value[attrs[k]] \in LookupValues
    BY AttrsInEntries DEF LookupInv, LookupTypeOK
<1>4. LookupTypeOK' /\ Sourced'
    BY <1>1, <1>2, <1>3 DEF LookupInv, LookupTypeOK, Sourced
<1>5. StaleOnlyIfOverridden'
    BY <1>1, <1>2 DEF LookupInv, LookupTypeOK, StaleOnlyIfOverridden, get
<1> QED
    BY <1>1, <1>4, <1>5 DEF LookupInv

\* Steps that leave the values, the attributes and the histories alone.
LEMMA IdleLookup ==
    ASSUME LookupInv, UNCHANGED <<cls, value, done, cached, overridden>>
    PROVE  LookupInv' /\ value' = value
<1>1. /\ Entries' = Entries /\ Keys' = Keys /\ attrs' = attrs
    BY WorldFixed
<1> QED
    BY <1>1 DEF LookupInv, LookupTypeOK, Sourced, StaleOnlyIfOverridden, get

LEMMA NextLookup ==
    ASSUME LookupInv, [LookupNext]_lookupVars
    PROVE  /\ LookupInv'
           /\ cls' = cls
           /\ \A i \in Entries : value[i] # None => value'[i] # None
<1>1. ASSUME \/ \E S \in SUBSET Names : Load(S)
             \/ TargetReady \/ Hold \/ Resume
             \/ \E i \in Entries : ResolveFault(i) \/ NotFound(i)
             \/ UNCHANGED lookupVars
      PROVE  UNCHANGED <<cls, value, done, cached, overridden>>
    BY <1>1 DEF Load, TargetReady, Hold, Resume, ResolveFault, NotFound, lookupWorld, lookupVars
<1>4. CASE \/ \E S \in SUBSET Names : Load(S)
           \/ TargetReady \/ Hold \/ Resume
           \/ \E i \in Entries : ResolveFault(i) \/ NotFound(i)
           \/ UNCHANGED lookupVars
    BY <1>1, <1>4, IdleLookup
<1>5. CASE \E i \in Entries : Resolve(i)
    BY <1>5, ResolveLookup DEF Resolve, lookupWorld
<1>6. CASE \E k \in Keys : GetItem(k) \/ GetAttr(k)
    BY <1>6, ReadLookup DEF GetItem, GetAttr, lookupWorld
<1>7. CASE \E s \in OverrideSpecs[cls], a \in Alternatives : Override(s, a)
    BY <1>7, OverrideLookup DEF Override, lookupWorld
<1> QED
    BY <1>4, <1>5, <1>6, <1>7 DEF LookupNext, Turn

-----------------------------------------------------------------------------
(***************************************************************************)
(* The inductive invariant of lookup.py and symbols.py holds in every      *)
(* reachable state.                                                        *)
(***************************************************************************)
THEOREM LookupInvariant == LookupSpec => []LookupInv
<1>1. LookupInit => LookupInv
    BY InitLookup
<1>2. LookupInv /\ [LookupNext]_lookupVars => LookupInv'
    BY NextLookup
<1> QED
    BY <1>1, <1>2, PTL DEF LookupSpec

(***************************************************************************)
(* An attribute that get() left behind differs from the value it was read  *)
(* from only if that was overridden since.                                 *)
(***************************************************************************)
THEOREM NeverStale == LookupSpec => []StaleOnlyIfOverridden
<1>1. LookupInv => StaleOnlyIfOverridden
    BY DEF LookupInv
<1> QED
    BY <1>1, LookupInvariant, PTL

(***************************************************************************)
(* A name that could be read once can be read for good.                    *)
(***************************************************************************)
THEOREM NamesStayReadable == LookupSpec => ReadableStays
<1>1. LookupInv /\ [LookupNext]_lookupVars => [\A k \in Keys : Readable(k) => Readable(k)']_lookupVars
    <2> SUFFICES ASSUME LookupInv, [LookupNext]_lookupVars, NEW k \in Keys, Readable(k)
                 PROVE  Readable(k)'
        OBVIOUS
    <2>1. attrs' = attrs /\ attrs[k] \in Entries
        BY NextLookup, WorldFixed, AttrsInEntries DEF LookupInv, LookupTypeOK
    <2> QED
        BY <2>1, NextLookup DEF Readable, ItemRead, get
<1> QED
    BY <1>1, LookupInvariant, PTL DEF LookupSpec, ReadableStays

-----------------------------------------------------------------------------
(* The calls of the registry, seen from a collection.                        *)

LEMMA CollectionFixed ==
    ASSUME UNCHANGED <<cls, unreadable, wait_for_target, targetOpen, heldBack, available>>,
           NoneForgotten, done \cup due \subseteq done' \cup due'
    PROVE  NoneForgotten'
BY WorldFixed DEF NoneForgotten, Served

\* Everything is evaluated.
LEMMA AllWaiting ==
    ASSUME cls' = cls, done' = done, due' = Waiting
    PROVE  NoneForgotten'
<1>1. Entries' = Entries
    BY WorldFixed
<1> QED
    BY <1>1 DEF NoneForgotten, Waiting

LEMMA NextForgotten ==
    ASSUME NoneForgotten, [LookupNext]_lookupVars
    PROVE  NoneForgotten'
<1>1. ASSUME NEW S \in SUBSET Names, Load(S) PROVE NoneForgotten'
    <2>1. cls' = cls /\ done' = done /\ targetOpen' = targetOpen /\ heldBack' = heldBack
          /\ wait_for_target' = wait_for_target
        BY <1>1 DEF Load, lookupWorld
    <2>2. CASE Served /\ ~heldBack
        BY <1>1, <2>1, <2>2, AllWaiting DEF Load
    <2>3. CASE ~(Served /\ ~heldBack)
        BY <2>1, <2>3 DEF NoneForgotten, Served
    <2> QED
        BY <2>2, <2>3
<1>2. CASE TargetReady
    <2>1. /\ cls' = cls /\ done' = done /\ heldBack' = heldBack /\ due = {}
          /\ wait_for_target' = wait_for_target /\ unreadable' = unreadable
          /\ available' = available /\ due' = IF wait_for_target THEN Waiting ELSE {}
        BY <1>2 DEF TargetReady, lookupWorld
    <2>2. CASE wait_for_target
        BY <2>1, <2>2, AllWaiting
    <2>3. CASE ~wait_for_target
        BY <2>1, <2>3, WorldFixed DEF NoneForgotten, Served
    <2> QED
        BY <2>2, <2>3
<1>3. CASE Hold
    <2>1. heldBack' = TRUE
        BY <1>3 DEF Hold
    <2> QED
        BY <2>1 DEF NoneForgotten
<1>4. CASE Resume
    <2>1. /\ cls' = cls /\ done' = done /\ targetOpen' = targetOpen
          /\ wait_for_target' = wait_for_target /\ due' = IF Served THEN Waiting ELSE {}
        BY <1>4 DEF Resume, lookupWorld
    <2>2. CASE Served
        BY <2>1, <2>2, AllWaiting
    <2>3. CASE ~Served
        BY <2>1, <2>3 DEF NoneForgotten, Served
    <2> QED
        BY <2>2, <2>3
<1>5. ASSUME NEW i \in Entries, Resolve(i) PROVE NoneForgotten'
    <2>1. /\ UNCHANGED <<cls, unreadable, wait_for_target, targetOpen, heldBack, available>>
          /\ done' = done \cup {i} /\ due' = due \ {i}
        BY <1>5 DEF Resolve, Passed, lookupWorld
    <2> QED
        BY <2>1, CollectionFixed
<1>6. ASSUME NEW i \in Entries, ResolveFault(i) \/ NotFound(i) PROVE NoneForgotten'
    <2>1. /\ UNCHANGED <<cls, unreadable, wait_for_target, targetOpen, heldBack, available>>
          /\ done' = done /\ due' = due \ {i} /\ Name(i) \notin available \ unreadable
        BY <1>6 DEF ResolveFault, NotFound, Passed, lookupWorld
    <2> QED
        BY <2>1, WorldFixed DEF NoneForgotten, Served
<1>7. CASE \/ \E k \in Keys : GetItem(k) \/ GetAttr(k)
           \/ \E s \in OverrideSpecs[cls], a \in Alternatives : Override(s, a)
           \/ UNCHANGED lookupVars
    <2>1. /\ UNCHANGED <<cls, unreadable, wait_for_target, targetOpen, heldBack, available>>
          /\ done' = done /\ due' = due
        BY <1>7 DEF GetItem, GetAttr, Override, registry, lookupWorld, lookupVars
    <2> QED
        BY <2>1, CollectionFixed
<1> QED
    BY <1>1, <1>2, <1>3, <1>4, <1>5, <1>6, <1>7 DEF LookupNext, Turn

(***************************************************************************)
(* Whatever is loaded, opened and paused in which order, the registry does *)
(* not leave a declaration of a collection behind that could be resolved:  *)
(* the safety half of BecomesReadable.                                     *)
(***************************************************************************)
THEOREM NoLookupForgotten == LookupSpec => []NoneForgotten
<1>1. LookupInit => NoneForgotten
    BY DEF LookupInit, NoneForgotten
<1>2. NoneForgotten /\ [LookupNext]_lookupVars => NoneForgotten'
    BY NextForgotten
<1> QED
    BY <1>1, <1>2, PTL DEF LookupSpec
=============================================================================
