----------------------- MODULE ProviderRequestsProofs ------------------------
(***************************************************************************)
(* What the provider reads is what the client means, for every client id,  *)
(* secret and redirect URI and every authorization endpoint: escaping and  *)
(* form encoding are undone by the provider's reading, by induction on the *)
(* length of the text and of the form, and no step changes a request once  *)
(* it is built.                                                            *)
(***************************************************************************)
EXTENDS ProviderRequests, SequenceTheorems, WellFoundedInduction, TLAPS

-----------------------------------------------------------------------------
(* Induction, from the well-foundedness of < on the natural numbers.        *)

\* Numbers below a number run out.
LEMMA LessThanWellFounded ==
    IsWellFoundedOn({pair \in Nat \X Nat : pair[1] < pair[2]}, Nat)
<1>1. OpToRel(<, Nat) = {pair \in Nat \X Nat : pair[1] < pair[2]}
  BY DEF OpToRel
<1> QED
  BY <1>1, NatLessThanWellFounded, Zenon

\* A set of numbers that is not empty has a least one.
LEMMA LeastElement ==
    ASSUME NEW T \in SUBSET Nat, T # {}
    PROVE  \E n \in T : \A m \in T : n <= m
<1> DEFINE R == {pair \in Nat \X Nat : pair[1] < pair[2]}
<1>1. PICK n \in T : \A m \in T : ~ (<<m, n>> \in R)
  BY LessThanWellFounded, WFMin
<1>2. ASSUME NEW m \in T PROVE n <= m
  <2>1. m \in Nat /\ n \in Nat
    OBVIOUS
  <2>2. <<m, n>> \notin R
    BY <1>1
  <2>3. ~ (m < n)
    BY <2>1, <2>2
  <2> QED
    BY <2>1, <2>3
<1> QED
  BY <1>2

\* A set that holds 0, and with every number the next one, holds them all.
LEMMA Induction ==
    ASSUME NEW S, 0 \in S, \A n \in Nat : n \in S => n + 1 \in S
    PROVE  Nat \subseteq S
<1> SUFFICES ASSUME Nat \ S # {} PROVE FALSE
  OBVIOUS
<1>1. PICK n \in Nat \ S : \A m \in Nat \ S : n <= m
  BY LeastElement
<1>2. n # 0 /\ n - 1 \in Nat
  BY <1>1
<1>3. n - 1 \in S
  BY <1>1, <1>2
<1> QED
  BY <1>1, <1>2, <1>3

\* A set that holds the empty sequence, and with every sequence its longer
\* ones, holds them all.
LEMMA SequenceInduction ==
    ASSUME NEW T, NEW S, <<>> \in S,
           \A s \in Seq(T) : \A e \in T : s \in S => Append(s, e) \in S
    PROVE  Seq(T) \subseteq S
<1> DEFINE L == {n \in Nat : \A s \in Seq(T) : Len(s) = n => s \in S}
<1>1. 0 \in L
  <2>1. ASSUME NEW s \in Seq(T), Len(s) = 0 PROVE s \in S
    BY <2>1, EmptySeq
  <2> QED
    BY <2>1
<1>2. ASSUME NEW n \in Nat, n \in L PROVE n + 1 \in L
  <2>1. ASSUME NEW s \in Seq(T), Len(s) = n + 1 PROVE s \in S
    <3>1. s # <<>>
      BY <2>1, EmptySeq
    <3>2. PICK u \in Seq(T), e \in T : s = Append(u, e)
      BY <3>1, SequenceEmptyOrAppend
    <3>3. Len(u) = n
      BY <2>1, <3>2, LenProperties
    <3> QED
      BY <1>2, <3>2, <3>3
  <2> QED
    BY <2>1
<1> HIDE DEF L
<1>3. Nat \subseteq L
  BY <1>1, <1>2, Induction
<1> QED
  BY <1>3, LenProperties DEF L

-----------------------------------------------------------------------------
(* Folds.  Joined and Reading are recursive functions over positions.       *)

\* A fold over the first numbers.
IsStep(step, N, S) == step \in [S \X (1 .. N) -> S]

IsFold(f, N, S, base, step) ==
    /\ f \in [0 .. N -> S]
    /\ f[0] = base
    /\ \A n \in 1 .. N : f[n] = step[<<f[n - 1], n>>]

LEMMA FoldExists ==
    ASSUME NEW N \in Nat, NEW S, NEW base \in S, NEW step, IsStep(step, N, S)
    PROVE  \E f : IsFold(f, N, S, base, step)
<1> DEFINE Reached == {k \in Nat : k <= N => \E f : IsFold(f, k, S, base, step)}
<1>1. 0 \in Reached
  <2> DEFINE f == [n \in 0 .. 0 |-> base]
  <2>1. IsFold(f, 0, S, base, step)
    BY DEF IsFold
  <2> QED
    BY <2>1
<1>2. ASSUME NEW k \in Nat, k \in Reached PROVE k + 1 \in Reached
  <2> SUFFICES ASSUME k + 1 <= N PROVE \E g : IsFold(g, k + 1, S, base, step)
    OBVIOUS
  <2>1. PICK f : IsFold(f, k, S, base, step)
    BY <1>2
  <2> DEFINE g == [n \in 0 .. k + 1 |-> IF n = k + 1 THEN step[<<f[k], n>>]
                                        ELSE f[n]]
  <2>2. step[<<f[k], k + 1>>] \in S
    BY <2>1, k + 1 \in 1 .. N, f[k] \in S DEF IsFold, IsStep
  <2>3. g \in [0 .. k + 1 -> S] /\ g[0] = base
    BY <2>1, <2>2 DEF IsFold
  <2>4. ASSUME NEW n \in 1 .. k + 1 PROVE g[n] = step[<<g[n - 1], n>>]
    <3>1. g[n - 1] = f[n - 1]
      OBVIOUS
    <3>2. CASE n = k + 1
      BY <3>1, <3>2
    <3>3. CASE n \in 1 .. k
      BY <2>1, <3>1, <3>3 DEF IsFold
    <3> QED
      BY <3>2, <3>3
  <2>5. IsFold(g, k + 1, S, base, step)
    BY <2>3, <2>4 DEF IsFold
  <2> QED
    BY <2>5
<1> HIDE DEF Reached
<1>3. Nat \subseteq Reached
  BY <1>1, <1>2, Induction
<1>4. N \in Reached
  BY <1>3
<1> QED
  BY <1>4 DEF Reached

\* Joined is such a fold.
LEMMA JoinedSteps ==
    ASSUME NEW T, NEW pieces \in Seq(Seq(T)), NEW between \in Seq(T)
    PROVE  \E f \in [0 .. Len(pieces) -> Seq(T)] :
               /\ f[0] = <<>>
               /\ \A n \in 1 .. Len(pieces) :
                      f[n] = f[n - 1] \o (IF n = 1 THEN <<>> ELSE between)
                                      \o pieces[n]
               /\ Joined(pieces, between) = f[Len(pieces)]
<1> DEFINE N == Len(pieces)
           Fold(f) == [n \in 0 .. N |->
                         IF n = 0 THEN <<>>
                         ELSE f[n - 1] \o (IF n = 1 THEN <<>> ELSE between)
                                       \o pieces[n]]
           Step == [x \in Seq(T) \X (1 .. N) |->
                      x[1] \o (IF x[2] = 1 THEN <<>> ELSE between)
                           \o pieces[x[2]]]
           f == CHOOSE g : g = Fold(g)
<1>1. N \in Nat /\ <<>> \in Seq(T)
  BY EmptySeq, LenProperties
<1>2. IsStep(Step, N, Seq(T))
  <2>1. ASSUME NEW x \in Seq(T) \X (1 .. N)
        PROVE  x[1] \o (IF x[2] = 1 THEN <<>> ELSE between) \o pieces[x[2]]
                   \in Seq(T)
    <3>1. x[1] \in Seq(T) /\ x[2] \in 1 .. N
      OBVIOUS
    <3>2. pieces[x[2]] \in Seq(T)
      BY <3>1, ElementOfSeq
    <3>3. CASE x[2] = 1
      <4>1. x[1] \o <<>> \in Seq(T)
        BY <1>1, <3>1, ConcatProperties
      <4> QED
        BY <3>2, <3>3, <4>1, ConcatProperties
    <3>4. CASE x[2] # 1
      <4>1. x[1] \o between \in Seq(T)
        BY <3>1, ConcatProperties
      <4> QED
        BY <3>2, <3>4, <4>1, ConcatProperties
    <3> QED
      BY <3>3, <3>4
  <2> QED
    BY <2>1 DEF IsStep
<1>3. PICK g : IsFold(g, N, Seq(T), <<>>, Step)
  <2> HIDE DEF Step, N
  <2> QED
    BY <1>1, <1>2, FoldExists
<1>4. g = Fold(g)
  <2>1. ASSUME NEW n \in 0 .. N PROVE g[n] = Fold(g)[n]
    <3>1. CASE n = 0
      BY <1>3, <3>1 DEF IsFold
    <3>2. CASE n # 0
      <4>1. n \in 1 .. N /\ n - 1 \in 0 .. N
        BY <1>1, <3>2
      <4>2. <<g[n - 1], n>> \in Seq(T) \X (1 .. N)
        BY <1>3, <4>1 DEF IsFold
      <4>3. g[n] = Step[<<g[n - 1], n>>]
        BY <1>3, <4>1 DEF IsFold
      <4> QED
        BY <3>2, <4>2, <4>3
    <3> QED
      BY <3>1, <3>2
  <2> QED
    BY <1>3, <2>1 DEF IsFold
<1>5. f = Fold(f)
  <2> HIDE DEF Fold
  <2> QED
    BY <1>4
<1>6. Joined(pieces, between) = f[N]
  BY DEF Joined
<1> HIDE DEF f
<1>7. f = g
  <2> DEFINE Same == {k \in Nat : k <= N => f[k] = g[k]}
  <2>1. 0 \in Same
    BY <1>1, <1>4, <1>5
  <2>2. ASSUME NEW k \in Nat, k \in Same PROVE k + 1 \in Same
    <3> SUFFICES ASSUME k + 1 <= N PROVE f[k + 1] = g[k + 1]
      OBVIOUS
    <3>1. f[k] = g[k] /\ k + 1 \in 0 .. N /\ k + 1 # 0 /\ (k + 1) - 1 = k
      BY <1>1, <2>2
    <3>2. f[k + 1] = f[k] \o (IF k + 1 = 1 THEN <<>> ELSE between) \o pieces[k + 1]
      BY <1>5, <3>1, Zenon
    <3>3. g[k + 1] = g[k] \o (IF k + 1 = 1 THEN <<>> ELSE between) \o pieces[k + 1]
      BY <1>4, <3>1, Zenon
    <3> QED
      BY <3>1, <3>2, <3>3
  <2> HIDE DEF Same
  <2>3. Nat \subseteq Same
    BY <2>1, <2>2, Induction
  <2>4. \A k \in 0 .. N : f[k] = g[k]
    BY <1>1, <2>3 DEF Same
  <2>5. DOMAIN f = 0 .. N /\ f = [k \in 0 .. N |-> f[k]]
    BY <1>5
  <2>6. g = [k \in 0 .. N |-> g[k]]
    BY <1>3 DEF IsFold
  <2> QED
    BY <2>4, <2>5, <2>6
<1>8. /\ f \in [0 .. N -> Seq(T)]
      /\ f[0] = <<>>
      /\ \A n \in 1 .. N : f[n] = f[n - 1] \o (IF n = 1 THEN <<>> ELSE between)
                                           \o pieces[n]
  <2>1. f \in [0 .. N -> Seq(T)]
    BY <1>3, <1>7 DEF IsFold
  <2>2. f[0] = <<>>
    BY <1>1, <1>5
  <2>3. ASSUME NEW n \in 1 .. N
        PROVE  f[n] = f[n - 1] \o (IF n = 1 THEN <<>> ELSE between) \o pieces[n]
    <3>1. n \in 0 .. N /\ n # 0
      BY <1>1
    <3> QED
      BY <1>5, <3>1, Zenon
  <2> QED
    BY <2>1, <2>2, <2>3
<1> QED
  BY <1>6, <1>8

\* Joined, one piece after another.
LEMMA JoinedEmpty ==
    ASSUME NEW T, NEW between \in Seq(T)
    PROVE  Joined(<<>>, between) = <<>>
<1> DEFINE pieces == <<>>
<1>1. pieces \in Seq(Seq(T))
  BY EmptySeq
<1>3. Len(pieces) = 0
  BY EmptySeq
<1> HIDE DEF pieces
<1>2. PICK f \in [0 .. Len(pieces) -> Seq(T)] :
          /\ f[0] = <<>>
          /\ \A n \in 1 .. Len(pieces) :
                 f[n] = f[n - 1] \o (IF n = 1 THEN <<>> ELSE between)
                                 \o pieces[n]
          /\ Joined(pieces, between) = f[Len(pieces)]
  BY <1>1, JoinedSteps
<1> QED
  BY <1>2, <1>3 DEF pieces

LEMMA JoinedAppend ==
    ASSUME NEW T, NEW pieces \in Seq(Seq(T)), NEW piece \in Seq(T),
           NEW between \in Seq(T)
    PROVE  /\ Joined(pieces, between) \in Seq(T)
           /\ Joined(Append(pieces, piece), between)
                  = Joined(pieces, between)
                    \o (IF pieces = <<>> THEN <<>> ELSE between) \o piece
<1> DEFINE more == Append(pieces, piece)
           N == Len(pieces)
<1>1. /\ more \in Seq(Seq(T)) /\ Len(more) = N + 1 /\ N \in Nat
      /\ more[N + 1] = piece
      /\ \A i \in 1 .. N : more[i] = pieces[i]
  BY AppendProperties, LenProperties
<1>2. PICK f \in [0 .. N -> Seq(T)] :
          /\ f[0] = <<>>
          /\ \A n \in 1 .. N :
                 f[n] = f[n - 1] \o (IF n = 1 THEN <<>> ELSE between) \o pieces[n]
          /\ Joined(pieces, between) = f[N]
  BY JoinedSteps
<1> HIDE DEF more
<1>3. PICK g \in [0 .. N + 1 -> Seq(T)] :
          /\ g[0] = <<>>
          /\ \A n \in 1 .. N + 1 :
                 g[n] = g[n - 1] \o (IF n = 1 THEN <<>> ELSE between) \o more[n]
          /\ Joined(more, between) = g[N + 1]
  <2>1. \E g \in [0 .. Len(more) -> Seq(T)] :
          /\ g[0] = <<>>
          /\ \A n \in 1 .. Len(more) :
                 g[n] = g[n - 1] \o (IF n = 1 THEN <<>> ELSE between) \o more[n]
          /\ Joined(more, between) = g[Len(more)]
    BY <1>1, JoinedSteps
  <2> QED
    BY <1>1, <2>1
<1>4. f[N] = g[N]
  <2> DEFINE Same == {k \in Nat : k <= N => f[k] = g[k]}
  <2>1. 0 \in Same
    BY <1>2, <1>3
  <2>2. ASSUME NEW k \in Nat, k \in Same PROVE k + 1 \in Same
    <3> SUFFICES ASSUME k + 1 <= N PROVE f[k + 1] = g[k + 1]
      OBVIOUS
    <3>1. f[k] = g[k] /\ k + 1 \in 1 .. N /\ k + 1 \in 1 .. N + 1 /\ (k + 1) - 1 = k
      BY <1>1, <2>2
    <3>2. f[k + 1] = f[k] \o (IF k + 1 = 1 THEN <<>> ELSE between) \o pieces[k + 1]
      BY <1>2, <3>1
    <3>3. g[k + 1] = g[k] \o (IF k + 1 = 1 THEN <<>> ELSE between) \o more[k + 1]
      BY <1>3, <3>1
    <3> QED
      BY <1>1, <3>1, <3>2, <3>3
  <2> HIDE DEF Same
  <2>3. Nat \subseteq Same
    BY <2>1, <2>2, Induction
  <2>4. N \in Same /\ N <= N
    BY <1>1, <2>3
  <2> QED
    BY <2>4 DEF Same
<1>5. N + 1 = 1 <=> pieces = <<>>
  BY <1>1, EmptySeq
<1>6. g[N + 1] = g[N] \o (IF N + 1 = 1 THEN <<>> ELSE between) \o more[N + 1]
  <2>1. N + 1 \in 1 .. N + 1 /\ (N + 1) - 1 = N
    BY <1>1
  <2> QED
    BY <1>3, <2>1
<1>7. f[N] \in Seq(T)
  <2>1. N \in 0 .. N
    BY <1>1
  <2> QED
    BY <1>2, <2>1
<1> QED
  BY <1>1, <1>2, <1>3, <1>4, <1>5, <1>6, <1>7 DEF more

-----------------------------------------------------------------------------
(* Reading characters.                                                     *)

\* All characters.  (The provers do not know that a literal is in STRING.)
Chars ==
    STRING \cup {" ", ":", "%", "+", "&", "=", "?", "#",
                 "3A", "25", "2B", "26", "3D", "3F", "23",
                 "client_id", "client_secret", "nonce", "redirect_uri",
                 "response_type", "scope", "state", "code", "grant_type",
                 "nonce value", "state value", "code value",
                 "openid", "email", "profile", "authorization_code"}

\* The states of reading.
States == [text : Seq(Chars), escape : BOOLEAN, valid : BOOLEAN]

\* A character more leaves a state of reading.
LEMMA ReadTypes ==
    ASSUME NEW state \in States, NEW c \in Chars
    PROVE  Read(state, c) \in States
<1>1. state.text \in Seq(Chars)
  BY DEF States
<1>2. CASE state.escape /\ \E d \in DOMAIN Code : Code[d] = c
  <2> DEFINE d == CHOOSE d \in DOMAIN Code : Code[d] = c
  <2>1. d \in Chars
    <3>1. d \in DOMAIN Code
      BY <1>2
    <3>2. DOMAIN Code \subseteq Chars
      BY DEF Code, Chars
    <3> QED
      BY <3>1, <3>2
  <2> HIDE DEF d
  <2>2. Append(state.text, d) \in Seq(Chars)
    BY <1>1, <2>1, AppendProperties
  <2>3. Read(state, c) = [state EXCEPT !.escape = FALSE,
                                       !.text = Append(state.text, d)]
    BY <1>2 DEF Read, d
  <2> QED
    BY <2>2, <2>3 DEF States
<1>3. CASE ~ (state.escape /\ \E d \in DOMAIN Code : Code[d] = c)
  <2>1. \A e \in Chars : Append(state.text, e) \in Seq(Chars)
    BY <1>1, AppendProperties
  <2>2. (IF c = "+" THEN " " ELSE c) \in Chars
    <3>1. " " \in Chars
      BY DEF Chars
    <3> QED
      BY <3>1
  <2>3. Append(state.text, IF c = "+" THEN " " ELSE c) \in Seq(Chars)
    BY <2>1, <2>2
  <2> QED
    BY <1>3, <2>3 DEF Read, States
<1> QED
  BY <1>2, <1>3

\* Reading is such a fold.
LEMMA ReadingSteps ==
    ASSUME NEW wire \in Seq(Chars)
    PROVE  \E f \in [0 .. Len(wire) -> States] :
               /\ f[0] = Unread
               /\ \A n \in 1 .. Len(wire) : f[n] = Read(f[n - 1], wire[n])
               /\ Reading(wire) = f[Len(wire)]
<1> DEFINE N == Len(wire)
           Fold(f) == [n \in 0 .. N |-> IF n = 0 THEN Unread
                                        ELSE Read(f[n - 1], wire[n])]
           Step == [x \in States \X (1 .. N) |-> Read(x[1], wire[x[2]])]
           f == CHOOSE g : g = Fold(g)
<1>1. N \in Nat /\ Unread \in States
  BY EmptySeq, LenProperties DEF Unread, States
<1>2. IsStep(Step, N, States)
  <2>1. ASSUME NEW x \in States \X (1 .. N)
        PROVE  Read(x[1], wire[x[2]]) \in States
    <3>1. x[1] \in States /\ x[2] \in 1 .. N
      OBVIOUS
    <3>2. wire[x[2]] \in Chars
      BY <3>1, ElementOfSeq
    <3> QED
      BY <3>1, <3>2, ReadTypes
  <2> QED
    BY <2>1 DEF IsStep
<1>3. PICK g : IsFold(g, N, States, Unread, Step)
  <2> HIDE DEF Step, N
  <2> QED
    BY <1>1, <1>2, FoldExists
<1>4. g = Fold(g)
  <2>1. ASSUME NEW n \in 0 .. N PROVE g[n] = Fold(g)[n]
    <3>1. CASE n = 0
      BY <1>3, <3>1 DEF IsFold
    <3>2. CASE n # 0
      <4>1. n \in 1 .. N /\ n - 1 \in 0 .. N
        BY <1>1, <3>2
      <4>2. <<g[n - 1], n>> \in States \X (1 .. N)
        BY <1>3, <4>1 DEF IsFold
      <4>3. g[n] = Step[<<g[n - 1], n>>]
        BY <1>3, <4>1 DEF IsFold
      <4> QED
        BY <3>2, <4>2, <4>3
    <3> QED
      BY <3>1, <3>2
  <2> QED
    BY <1>3, <2>1 DEF IsFold
<1>5. f = Fold(f)
  <2> HIDE DEF Fold
  <2> QED
    BY <1>4
<1>6. Reading(wire) = f[N]
  BY DEF Reading
<1> HIDE DEF f
<1>7. f = g
  <2> DEFINE Same == {k \in Nat : k <= N => f[k] = g[k]}
  <2>1. 0 \in Same
    BY <1>1, <1>4, <1>5
  <2>2. ASSUME NEW k \in Nat, k \in Same PROVE k + 1 \in Same
    <3> SUFFICES ASSUME k + 1 <= N PROVE f[k + 1] = g[k + 1]
      OBVIOUS
    <3>1. f[k] = g[k] /\ k + 1 \in 0 .. N /\ k + 1 # 0 /\ (k + 1) - 1 = k
      BY <1>1, <2>2
    <3>2. f[k + 1] = Read(f[k], wire[k + 1])
      BY <1>5, <3>1, Zenon
    <3>3. g[k + 1] = Read(g[k], wire[k + 1])
      BY <1>4, <3>1, Zenon
    <3> QED
      BY <3>1, <3>2, <3>3
  <2> HIDE DEF Same
  <2>3. Nat \subseteq Same
    BY <2>1, <2>2, Induction
  <2>4. \A k \in 0 .. N : f[k] = g[k]
    BY <1>1, <2>3 DEF Same
  <2>5. f = [k \in 0 .. N |-> f[k]]
    BY <1>5
  <2>6. g = [k \in 0 .. N |-> g[k]]
    BY <1>3 DEF IsFold
  <2> QED
    BY <2>4, <2>5, <2>6
<1>8. /\ f \in [0 .. N -> States]
      /\ f[0] = Unread
      /\ \A n \in 1 .. N : f[n] = Read(f[n - 1], wire[n])
  <2>1. f \in [0 .. N -> States]
    BY <1>3, <1>7 DEF IsFold
  <2>2. f[0] = Unread
    BY <1>1, <1>5
  <2>3. ASSUME NEW n \in 1 .. N PROVE f[n] = Read(f[n - 1], wire[n])
    <3>1. n \in 0 .. N /\ n # 0
      BY <1>1
    <3> QED
      BY <1>5, <3>1, Zenon
  <2> QED
    BY <2>1, <2>2, <2>3
<1> QED
  BY <1>6, <1>8

\* Reading, one character after another.
LEMMA ReadingTypes ==
    ASSUME NEW wire \in Seq(Chars)
    PROVE  Reading(wire) \in States
<1>1. PICK f \in [0 .. Len(wire) -> States] : Reading(wire) = f[Len(wire)]
  BY ReadingSteps
<1> QED
  BY <1>1, LenProperties

LEMMA ReadingEmpty == Reading(<<>>) = Unread
<1>1. <<>> \in Seq(Chars) /\ Len(<<>>) = 0
  BY EmptySeq
<1>2. PICK f \in [0 .. Len(<<>>) -> States] :
          f[0] = Unread /\ Reading(<<>>) = f[Len(<<>>)]
  BY <1>1, ReadingSteps
<1> QED
  BY <1>1, <1>2

LEMMA ReadingAppend ==
    ASSUME NEW wire \in Seq(Chars), NEW c \in Chars
    PROVE  Reading(Append(wire, c)) = Read(Reading(wire), c)
<1> DEFINE more == Append(wire, c)
           N == Len(wire)
<1>1. /\ more \in Seq(Chars) /\ Len(more) = N + 1 /\ N \in Nat
      /\ more[N + 1] = c
      /\ \A i \in 1 .. N : more[i] = wire[i]
  <2>1. N \in Nat
    BY LenProperties
  <2> QED
    BY <2>1, AppendProperties
<1>2. PICK f \in [0 .. N -> States] :
          /\ f[0] = Unread
          /\ \A n \in 1 .. N : f[n] = Read(f[n - 1], wire[n])
          /\ Reading(wire) = f[N]
  BY ReadingSteps
<1> HIDE DEF more
<1>3. PICK g \in [0 .. N + 1 -> States] :
          /\ g[0] = Unread
          /\ \A n \in 1 .. N + 1 : g[n] = Read(g[n - 1], more[n])
          /\ Reading(more) = g[N + 1]
  <2>1. \E g \in [0 .. Len(more) -> States] :
          /\ g[0] = Unread
          /\ \A n \in 1 .. Len(more) : g[n] = Read(g[n - 1], more[n])
          /\ Reading(more) = g[Len(more)]
    BY <1>1, ReadingSteps
  <2> QED
    BY <1>1, <2>1
<1>4. f[N] = g[N]
  <2> DEFINE Same == {k \in Nat : k <= N => f[k] = g[k]}
  <2>1. 0 \in Same
    BY <1>2, <1>3
  <2>2. ASSUME NEW k \in Nat, k \in Same PROVE k + 1 \in Same
    <3> SUFFICES ASSUME k + 1 <= N PROVE f[k + 1] = g[k + 1]
      OBVIOUS
    <3>1. f[k] = g[k] /\ k + 1 \in 1 .. N /\ k + 1 \in 1 .. N + 1 /\ (k + 1) - 1 = k
      BY <1>1, <2>2
    <3>2. f[k + 1] = Read(f[k], wire[k + 1])
      BY <1>2, <3>1
    <3>3. g[k + 1] = Read(g[k], more[k + 1])
      BY <1>3, <3>1
    <3> QED
      BY <1>1, <3>1, <3>2, <3>3
  <2> HIDE DEF Same
  <2>3. Nat \subseteq Same
    BY <2>1, <2>2, Induction
  <2>4. N \in Same /\ N <= N
    BY <1>1, <2>3
  <2> QED
    BY <2>4 DEF Same
<1>5. g[N + 1] = Read(g[N], more[N + 1])
  <2>1. N + 1 \in 1 .. N + 1 /\ (N + 1) - 1 = N
    BY <1>1
  <2> QED
    BY <1>3, <2>1
<1> QED
  BY <1>1, <1>2, <1>3, <1>4, <1>5 DEF more

-----------------------------------------------------------------------------
(* Escaping.                                                               *)

\* Sequences of one or two characters, and behind another one.
LEMMA ShortSequences ==
    ASSUME NEW T, NEW a \in T, NEW b \in T, NEW s \in Seq(T)
    PROVE  /\ <<a>> \in Seq(T) /\ <<a, b>> \in Seq(T)
           /\ s \o <<a>> = Append(s, a)
           /\ s \o <<a, b>> = Append(Append(s, a), b)
<1>1. <<a>> \in Seq(T) /\ <<a, b>> \in Seq(T)
  OBVIOUS
<1>2. s \o <<a>> = Append(s, a)
  OBVIOUS
<1>3. s \o <<a, b>> = Append(Append(s, a), b)
  OBVIOUS
<1> QED
  BY <1>1, <1>2, <1>3

\* The characters that are escaped.
Special == {":", "%", "+", "&", "=", "?", "#"}

\* The table of codes: every one stands for one character, and none is special.
LEMMA Codes ==
    /\ DOMAIN Code = Special
    /\ Special \cup {Code[c] : c \in Special} \cup {" "} \subseteq Chars
    /\ \A c \in Special : Code[c] \notin Special \cup {" "}
    /\ \A c, d \in Special : Code[c] = Code[d] => c = d
<1>1. DOMAIN Code = Special
  BY DEF Code, Special
<1>2. /\ Code[":"] = "3A" /\ Code["%"] = "25" /\ Code["+"] = "2B"
      /\ Code["&"] = "26" /\ Code["="] = "3D" /\ Code["?"] = "3F"
      /\ Code["#"] = "23"
  BY DEF Code
<1>3. Special \cup {Code[c] : c \in Special} \cup {" "} \subseteq Chars
  BY <1>2 DEF Special, Chars
<1>4. \A c \in Special : Code[c] \notin Special \cup {" "}
  BY <1>2 DEF Special
<1>5. \A c, d \in Special : Code[c] = Code[d] => c = d
  BY <1>2 DEF Special
<1> QED
  BY <1>1, <1>3, <1>4, <1>5

\* What Escape makes of a character.
LEMMA EscapeTypes ==
    ASSUME NEW c \in Chars
    PROVE  /\ Escape(c) \in Seq(Chars)
           /\ c \in Special => Escape(c) = <<"%", Code[c]>>
           /\ c \notin Special \cup {" "} => Escape(c) = <<c>>
<1>1. CASE c \in Special
  <2>1. c # " " /\ Escape(c) = <<"%", Code[c]>>
    BY <1>1, Codes DEF Escape, Special
  <2>2. "%" \in Chars /\ Code[c] \in Chars
    BY <1>1, Codes DEF Special
  <2>3. <<"%", Code[c]>> \in Seq(Chars)
    BY <2>2, ShortSequences, EmptySeq
  <2> QED
    BY <1>1, <2>1, <2>3
<1>2. CASE c = " "
  <2>1. Escape(c) = <<"+">> /\ "+" \in Chars
    BY <1>2, Codes DEF Escape, Special
  <2>2. <<"+">> \in Seq(Chars)
    BY <2>1, ShortSequences, EmptySeq
  <2> QED
    BY <1>2, <2>1, <2>2 DEF Special
<1>3. CASE c \notin Special \cup {" "}
  <2>1. Escape(c) = <<c>>
    BY <1>3, Codes DEF Escape
  <2>2. <<c>> \in Seq(Chars)
    BY ShortSequences, EmptySeq
  <2> QED
    BY <1>3, <2>1, <2>2
<1> QED
  BY <1>1, <1>2, <1>3

\* Reading an escaped character adds this character to the text.
LEMMA EscapeUndone ==
    ASSUME NEW wire \in Seq(Chars), NEW c \in Chars, ~ Reading(wire).escape
    PROVE  /\ Reading(wire \o Escape(c)).text = Append(Reading(wire).text, c)
           /\ ~ Reading(wire \o Escape(c)).escape
           /\ Reading(wire \o Escape(c)).valid <=> Reading(wire).valid
<1> DEFINE state == Reading(wire)
           Undone(next) == /\ next.text = Append(state.text, c)
                           /\ ~ next.escape
                           /\ next.valid <=> state.valid
<1> SUFFICES Undone(Reading(wire \o Escape(c)))
  OBVIOUS
<1>1. state \in States
  BY ReadingTypes
<1>2. CASE c \in Special
  <2>1. "%" \in Chars /\ Code[c] \in Chars
    BY <1>2, Codes DEF Special
  <2> DEFINE opened == Append(wire, "%")
  <2>2. opened \in Seq(Chars)
    BY <2>1, AppendProperties
  <2>3. wire \o Escape(c) = Append(opened, Code[c])
    <3>1. Escape(c) = <<"%", Code[c]>>
      BY <1>2, EscapeTypes
    <3> QED
      BY <2>1, <3>1, ShortSequences
  <2>4. Reading(opened) = [state EXCEPT !.escape = TRUE]
    BY <2>1, ReadingAppend DEF Read
  <2>5. Reading(Append(opened, Code[c])) = Read(Reading(opened), Code[c])
    BY <2>1, <2>2, ReadingAppend
  <2>6. (CHOOSE d \in DOMAIN Code : Code[d] = Code[c]) = c
    BY <1>2, Codes
  <2>7. Undone(Read([state EXCEPT !.escape = TRUE], Code[c]))
    BY <1>1, <1>2, <2>6, Codes DEF Read, States
  <2> QED
    BY <2>3, <2>4, <2>5, <2>7
<1>3. CASE c \notin Special
  <2>1. PICK e \in Chars : /\ Escape(c) = <<e>>
                           /\ e # "%"
                           /\ c = IF e = "+" THEN " " ELSE e
    <3>1. CASE c = " "
      BY <3>1, Codes DEF Escape, Special
    <3>2. CASE c # " "
      BY <1>3, <3>2, EscapeTypes DEF Special
    <3> QED
      BY <3>1, <3>2
  <2>2. wire \o Escape(c) = Append(wire, e)
    BY <2>1, ShortSequences
  <2>3. Reading(Append(wire, e)) = Read(state, e)
    BY ReadingAppend
  <2> QED
    BY <1>1, <2>1, <2>2, <2>3 DEF Read, States
<1> QED
  BY <1>2, <1>3

\* QueryEscape, one character after another.
LEMMA QueryEscapeEmpty == QueryEscape(<<>>) = <<>>
<1>1. [i \in DOMAIN <<>> |-> Escape(<<>>[i])] = <<>>
  OBVIOUS
<1>2. <<>> \in Seq(Chars)
  BY EmptySeq
<1> QED
  BY <1>1, <1>2, JoinedEmpty DEF QueryEscape

LEMMA QueryEscapeAppend ==
    ASSUME NEW text \in Seq(Chars), NEW c \in Chars
    PROVE  /\ QueryEscape(text) \in Seq(Chars)
           /\ QueryEscape(Append(text, c)) = QueryEscape(text) \o Escape(c)
<1> DEFINE pieces == [i \in DOMAIN text |-> Escape(text[i])]
           more == [i \in DOMAIN Append(text, c) |-> Escape(Append(text, c)[i])]
           N == Len(text)
<1>1. N \in Nat /\ DOMAIN text = 1 .. N
  BY LenProperties
<1>2. pieces \in Seq(Seq(Chars)) /\ Len(pieces) = N
  <2>1. ASSUME NEW i \in 1 .. N PROVE pieces[i] \in Seq(Chars)
    <3>1. text[i] \in Chars
      BY ElementOfSeq
    <3> QED
      BY <1>1, <3>1, EscapeTypes
  <2> QED
    BY <1>1, <2>1
<1>3. Escape(c) \in Seq(Chars) /\ <<>> \in Seq(Chars)
  BY EscapeTypes, EmptySeq
<1>4. more = Append(pieces, Escape(c))
  <2>1. /\ Len(Append(text, c)) = N + 1
        /\ DOMAIN Append(text, c) = 1 .. N + 1
        /\ Append(text, c)[N + 1] = c
        /\ \A i \in 1 .. N : Append(text, c)[i] = text[i]
    BY <1>1, AppendProperties
  <2>2. /\ Append(pieces, Escape(c)) = [i \in 1 .. N + 1 |->
               IF i = N + 1 THEN Escape(c) ELSE pieces[i]]
    BY <1>1, <1>2, <1>3, AppendProperties
  <2>3. ASSUME NEW i \in 1 .. N + 1
        PROVE  more[i] = IF i = N + 1 THEN Escape(c) ELSE pieces[i]
    BY <1>1, <2>1
  <2> QED
    BY <2>1, <2>2, <2>3
<1> HIDE DEF pieces, more
<1>5. /\ Joined(pieces, <<>>) \in Seq(Chars)
      /\ Joined(Append(pieces, Escape(c)), <<>>)
           = Joined(pieces, <<>>) \o (IF pieces = <<>> THEN <<>> ELSE <<>>)
                                  \o Escape(c)
  <2> DEFINE piece == Escape(c)
  <2>1. piece \in Seq(Chars)
    BY <1>3
  <2>2. pieces \in Seq(Seq(Chars))
    BY <1>2
  <2> HIDE DEF piece
  <2>3. /\ Joined(pieces, <<>>) \in Seq(Chars)
        /\ Joined(Append(pieces, piece), <<>>)
             = Joined(pieces, <<>>) \o (IF pieces = <<>> THEN <<>> ELSE <<>>)
                                    \o piece
    BY <1>3, <2>1, <2>2, JoinedAppend
  <2> QED
    BY <2>3 DEF piece
<1>6. Joined(pieces, <<>>) \o <<>> = Joined(pieces, <<>>)
  BY <1>5, ConcatEmptySeq
<1> QED
  BY <1>4, <1>5, <1>6 DEF QueryEscape, pieces, more

\* An escaped text is read as this text, without an escape left open.
LEMMA EscapedReads ==
    ASSUME NEW text \in Seq(Chars)
    PROVE  /\ Reading(QueryEscape(text)).text = text
           /\ ~ Reading(QueryEscape(text)).escape
           /\ Reading(QueryEscape(text)).valid
<1> DEFINE Good(t) == /\ Reading(QueryEscape(t)).text = t
                      /\ ~ Reading(QueryEscape(t)).escape
                      /\ Reading(QueryEscape(t)).valid
           S == {t \in Seq(Chars) : Good(t)}
<1>1. <<>> \in S
  BY QueryEscapeEmpty, ReadingEmpty, EmptySeq DEF Unread
<1>2. ASSUME NEW t \in Seq(Chars), NEW c \in Chars, t \in S
      PROVE  Append(t, c) \in S
  <2>1. Append(t, c) \in Seq(Chars)
    BY AppendProperties
  <2>2. /\ QueryEscape(t) \in Seq(Chars)
        /\ QueryEscape(Append(t, c)) = QueryEscape(t) \o Escape(c)
    BY QueryEscapeAppend
  <2>3. Good(t)
    BY <1>2
  <2>4. /\ Reading(QueryEscape(t) \o Escape(c)).text
             = Append(Reading(QueryEscape(t)).text, c)
        /\ ~ Reading(QueryEscape(t) \o Escape(c)).escape
        /\ Reading(QueryEscape(t) \o Escape(c)).valid
             <=> Reading(QueryEscape(t)).valid
    BY <2>2, <2>3, EscapeUndone
  <2>5. Good(Append(t, c))
    BY <2>2, <2>3, <2>4
  <2> QED
    BY <2>1, <2>5
<1> HIDE DEF S
<1>3. Seq(Chars) \subseteq S
  BY <1>1, <1>2, SequenceInduction
<1> QED
  BY <1>3 DEF S

\* url.QueryEscape loses nothing: a provider that decodes an escaped value gets
\* the value back, whatever characters it is made of.
THEOREM EscapingUndone ==
    ASSUME NEW text \in Seq(Chars)
    PROVE  FormDecode(QueryEscape(text)) = text
BY EscapedReads DEF FormDecode

-----------------------------------------------------------------------------
(* Separators.                                                             *)

\* No separator, and where the first one is.
Without(c, text) == \A i \in 1 .. Len(text) : text[i] # c

First(c, text, i) ==
    /\ i \in 1 .. Len(text) + 1
    /\ i = Len(text) + 1 \/ text[i] = c
    /\ \A j \in 1 .. i - 1 : text[j] # c

\* There is a first position, and Position is it.
LEMMA PositionIsFirst ==
    ASSUME NEW T, NEW text \in Seq(T), NEW c
    PROVE  First(c, text, Position(c, text))
<1> DEFINE N == Len(text)
           Stops == {i \in 1 .. N + 1 : i = N + 1 \/ text[i] = c}
<1>1. N \in Nat
  BY LenProperties
<1>2. Stops \in SUBSET Nat /\ N + 1 \in Stops
  BY <1>1
<1>3. PICK n \in Stops : \A m \in Stops : n <= m
  <2> HIDE DEF Stops
  <2> QED
    BY <1>2, LeastElement
<1>4. ASSUME NEW j \in 1 .. n - 1 PROVE text[j] # c
  BY <1>1, <1>3
<1>5. First(c, text, n)
  BY <1>1, <1>3, <1>4 DEF First
<1>6. \E i \in 1 .. N + 1 : /\ i = N + 1 \/ text[i] = c
                            /\ \A j \in 1 .. i - 1 : text[j] # c
  BY <1>5 DEF First
<1>7. /\ Position(c, text) \in 1 .. N + 1
      /\ Position(c, text) = N + 1 \/ text[Position(c, text)] = c
      /\ \A j \in 1 .. Position(c, text) - 1 : text[j] # c
  BY <1>6 DEF Position
<1> QED
  BY <1>7 DEF First

\* There is only one.
LEMMA FirstIsPosition ==
    ASSUME NEW T, NEW text \in Seq(T), NEW c, NEW i, First(c, text, i)
    PROVE  Position(c, text) = i
<1>1. First(c, text, Position(c, text)) /\ Len(text) \in Nat
  BY PositionIsFirst, LenProperties
<1> DEFINE p == Position(c, text)
<1> HIDE DEF p
<1>2. First(c, text, p)
  BY <1>1 DEF p
<1>3. p \in Int /\ i \in Int
  BY <1>1, <1>2 DEF First
<1>4. ~ (p < i)
  BY <1>1, <1>2, <1>3 DEF First
<1>5. ~ (i < p)
  BY <1>1, <1>2, <1>3 DEF First
<1> QED
  BY <1>3, <1>4, <1>5 DEF p

\* What is in front of a separator and behind it.
LEMMA BeforeTypes ==
    ASSUME NEW T, NEW text \in Seq(T), NEW c
    PROVE  /\ Position(c, text) \in 1 .. Len(text) + 1
           /\ Before(c, text) \in Seq(T)
           /\ After(c, text) \in Seq(T)
           /\ Without(c, Before(c, text))
           /\ Len(Before(c, text)) = Position(c, text) - 1
<1>1. First(c, text, Position(c, text)) /\ Len(text) \in Nat
  BY PositionIsFirst, LenProperties
<1> DEFINE p == Position(c, text)
<1> HIDE DEF p
<1>2. p \in 1 .. Len(text) + 1 /\ \A j \in 1 .. p - 1 : text[j] # c
  BY <1>1 DEF First, p
<1>3. /\ SubSeq(text, 1, p - 1) \in Seq(T)
      /\ Len(SubSeq(text, 1, p - 1)) = p - 1
      /\ \A i \in 1 .. p - 1 : SubSeq(text, 1, p - 1)[i] = text[i]
  <2>1. \A i \in 1 .. p - 1 : text[i] \in T
    BY <1>1, <1>2, ElementOfSeq
  <2> QED
    BY <1>1, <1>2, <2>1, SubSeqProperties
<1>4. SubSeq(text, p + 1, Len(text)) \in Seq(T)
  <2>1. \A i \in p + 1 .. Len(text) : text[i] \in T
    BY <1>1, <1>2, ElementOfSeq
  <2> QED
    BY <1>1, <1>2, <2>1, SubSeqProperties
<1> QED
  BY <1>2, <1>3, <1>4 DEF Before, After, Without, p

\* A text without the separator.
LEMMA BeforeWhole ==
    ASSUME NEW T, NEW text \in Seq(T), NEW c, Without(c, text)
    PROVE  /\ Position(c, text) = Len(text) + 1
           /\ Before(c, text) = text
<1>1. Len(text) \in Nat
  BY LenProperties
<1>2. First(c, text, Len(text) + 1)
  BY <1>1 DEF First, Without
<1>3. Position(c, text) = Len(text) + 1
  BY <1>2, FirstIsPosition
<1>4. SubSeq(text, 1, Len(text)) = text
  BY SubSeqFull
<1> QED
  BY <1>1, <1>3, <1>4 DEF Before

\* A separator that is not there is behind the text.
LEMMA WithoutIffWhole ==
    ASSUME NEW T, NEW text \in Seq(T), NEW c
    PROVE  Without(c, text) <=> Position(c, text) > Len(text)
<1>1. First(c, text, Position(c, text)) /\ Len(text) \in Nat
  BY PositionIsFirst, LenProperties
<1>2. CASE Without(c, text)
  BY <1>1, <1>2, BeforeWhole
<1>3. CASE ~ Without(c, text)
  <2>1. PICK i \in 1 .. Len(text) : text[i] = c
    BY <1>3 DEF Without
  <2>2. ~ (Position(c, text) > Len(text))
    BY <1>1, <2>1 DEF First
  <2> QED
    BY <1>3, <2>2
<1> QED
  BY <1>2, <1>3

\* A text behind another one and the separator.
LEMMA BeforeFirst ==
    ASSUME NEW T, NEW a \in Seq(T), NEW b \in Seq(T), NEW c \in T,
           Without(c, a)
    PROVE  /\ Position(c, a \o <<c>> \o b) = Len(a) + 1
           /\ Before(c, a \o <<c>> \o b) = a
           /\ After(c, a \o <<c>> \o b) = b
<1> DEFINE s == a \o <<c>>
           t == s \o b
<1>1. /\ s \in Seq(T) /\ Len(s) = Len(a) + 1 /\ s[Len(a) + 1] = c
      /\ \A i \in 1 .. Len(a) : s[i] = a[i]
      /\ Len(a) \in Nat /\ Len(b) \in Nat
  BY AppendProperties, ShortSequences, LenProperties
<1> HIDE DEF s
<1>2. /\ t \in Seq(T) /\ Len(t) = Len(s) + Len(b)
      /\ \A i \in 1 .. Len(t) : t[i] = IF i <= Len(s) THEN s[i] ELSE b[i - Len(s)]
  <2>1. /\ t \in Seq(T) /\ Len(t) = Len(s) + Len(b)
        /\ \A i \in 1 .. Len(s) + Len(b) :
               t[i] = IF i <= Len(s) THEN s[i] ELSE b[i - Len(s)]
    BY <1>1, ConcatProperties
  <2> HIDE DEF t
  <2> QED
    BY <2>1
<1> HIDE DEF t
<1>3. First(c, t, Len(a) + 1)
  BY <1>1, <1>2 DEF First, Without
<1>4. Position(c, t) = Len(a) + 1
  BY <1>2, <1>3, FirstIsPosition
<1>5. SubSeq(t, 1, Len(a)) = a
  <2>1. /\ SubSeq(t, 1, Len(a)) \in Seq(T)
        /\ Len(SubSeq(t, 1, Len(a))) = Len(a)
        /\ \A i \in 1 .. Len(a) : SubSeq(t, 1, Len(a))[i] = t[i]
    <3>1. \A i \in 1 .. Len(a) : t[i] \in T
      BY <1>1, <1>2, ElementOfSeq
    <3> QED
      BY <1>1, <3>1, SubSeqProperties
  <2>2. \A i \in 1 .. Len(a) : t[i] = a[i]
    BY <1>1, <1>2
  <2> QED
    BY <2>1, <2>2, SeqEqual
<1>6. SubSeq(t, Len(a) + 2, Len(t)) = b
  <2> DEFINE r == SubSeq(t, Len(a) + 2, Len(t))
  <2>1. /\ r \in Seq(T)
        /\ Len(r) = Len(b)
        /\ \A i \in 1 .. Len(b) : r[i] = t[Len(a) + 1 + i]
    <3>1. \A i \in Len(a) + 2 .. Len(t) : t[i] \in T
      BY <1>1, <1>2, ElementOfSeq
    <3>2. /\ r \in Seq(T)
          /\ Len(r) = IF Len(a) + 2 <= Len(t) THEN Len(t) - (Len(a) + 2) + 1 ELSE 0
          /\ \A i \in 1 .. Len(t) - (Len(a) + 2) + 1 : r[i] = t[Len(a) + 2 + i - 1]
      BY <1>1, <1>2, <3>1, SubSeqProperties
    <3> HIDE DEF r
    <3>3. Len(t) - (Len(a) + 2) + 1 = Len(b)
      BY <1>1, <1>2
    <3>4. Len(r) = Len(b)
      BY <1>1, <1>2, <3>2, <3>3
    <3>5. \A i \in 1 .. Len(b) : Len(a) + 2 + i - 1 = Len(a) + 1 + i
      BY <1>1
    <3> QED
      BY <3>2, <3>3, <3>4, <3>5
  <2> HIDE DEF r
  <2>2. ASSUME NEW i \in 1 .. Len(b) PROVE t[Len(a) + 1 + i] = b[i]
    <3> DEFINE k == Len(a) + 1 + i
    <3>1. k \in 1 .. Len(t) /\ ~ (k <= Len(s)) /\ k - Len(s) = i
      BY <1>1, <1>2
    <3> HIDE DEF k
    <3>2. t[k] = b[i]
      BY <1>2, <3>1
    <3> QED
      BY <3>2 DEF k
  <2>3. r = b
    BY <2>1, <2>2, SeqEqual
  <2> QED
    BY <2>3 DEF r
<1>7. (Len(a) + 1) - 1 = Len(a) /\ (Len(a) + 1) + 1 = Len(a) + 2
  BY <1>1
<1> QED
  BY <1>4, <1>5, <1>6, <1>7 DEF Before, After, t, s

\* What follows a text that holds the separator does not change its start.
LEMMA BeforeLonger ==
    ASSUME NEW T, NEW a \in Seq(T), NEW b \in Seq(T), NEW c, ~ Without(c, a)
    PROVE  Before(c, a \o b) = Before(c, a)
<1> DEFINE t == a \o b
           p == Position(c, a)
<1>1. /\ t \in Seq(T) /\ Len(t) = Len(a) + Len(b)
      /\ \A i \in 1 .. Len(t) : t[i] = IF i <= Len(a) THEN a[i] ELSE b[i - Len(a)]
      /\ Len(a) \in Nat /\ Len(b) \in Nat
  BY ConcatProperties, LenProperties
<1>2. First(c, a, p)
  BY PositionIsFirst
<1>3. ~ (p > Len(a))
  BY WithoutIffWhole
<1> HIDE DEF t, p
<1>4. p \in 1 .. Len(a)
  BY <1>1, <1>2, <1>3 DEF First
<1>5. First(c, t, p)
  <2>1. \A j \in 1 .. p : t[j] = a[j]
    BY <1>1, <1>4
  <2>2. a[p] = c /\ \A j \in 1 .. p - 1 : a[j] # c
    BY <1>2, <1>4 DEF First
  <2>3. t[p] = c /\ \A j \in 1 .. p - 1 : t[j] # c
    BY <1>1, <1>4, <2>1, <2>2
  <2>4. p \in 1 .. Len(t) + 1
    BY <1>1, <1>4
  <2> QED
    BY <2>3, <2>4 DEF First
<1>6. Position(c, t) = p
  BY <1>1, <1>5, FirstIsPosition
<1>7. SubSeq(t, 1, p - 1) = SubSeq(a, 1, p - 1)
  <2>1. \A i \in 1 .. p - 1 : t[i] = a[i] /\ a[i] \in T
    BY <1>1, <1>4, ElementOfSeq
  <2>2. /\ SubSeq(t, 1, p - 1) \in Seq(T)
        /\ Len(SubSeq(t, 1, p - 1)) = p - 1
        /\ \A i \in 1 .. p - 1 : SubSeq(t, 1, p - 1)[i] = t[i]
    BY <1>1, <1>4, <2>1, SubSeqProperties
  <2>3. /\ SubSeq(a, 1, p - 1) \in Seq(T)
        /\ Len(SubSeq(a, 1, p - 1)) = p - 1
        /\ \A i \in 1 .. p - 1 : SubSeq(a, 1, p - 1)[i] = a[i]
    BY <1>1, <1>4, <2>1, SubSeqProperties
  <2> QED
    BY <2>1, <2>2, <2>3, SeqEqual
<1> QED
  BY <1>6, <1>7 DEF Before, p, t

\* Texts without a separator have none together.
LEMMA WithoutConcat ==
    ASSUME NEW T, NEW a \in Seq(T), NEW b \in Seq(T), NEW c,
           Without(c, a), Without(c, b)
    PROVE  Without(c, a \o b)
<1> DEFINE t == a \o b
<1>1. /\ Len(t) = Len(a) + Len(b)
      /\ \A i \in 1 .. Len(a) + Len(b) :
             t[i] = IF i <= Len(a) THEN a[i] ELSE b[i - Len(a)]
      /\ Len(a) \in Nat /\ Len(b) \in Nat
  BY ConcatProperties, LenProperties
<1> HIDE DEF t
<1>2. ASSUME NEW i \in 1 .. Len(t) PROVE t[i] # c
  <2>1. CASE i <= Len(a)
    BY <1>1, <2>1 DEF Without
  <2>2. CASE ~ (i <= Len(a))
    <3>1. i - Len(a) \in 1 .. Len(b)
      BY <1>1, <2>2
    <3>2. b[i - Len(a)] # c
      BY <3>1 DEF Without
    <3> QED
      BY <1>1, <2>2, <3>2
  <2> QED
    BY <2>1, <2>2
<1> QED
  BY <1>2 DEF Without, t

\* An escaped text has no separator.
LEMMA EscapedWithout ==
    ASSUME NEW text \in Seq(Chars), NEW c \in Special \ {"%", "+"}
    PROVE  Without(c, QueryEscape(text))
<1> DEFINE S == {t \in Seq(Chars) : Without(c, QueryEscape(t))}
<1>1. <<>> \in S
  BY QueryEscapeEmpty, EmptySeq DEF Without
<1>2. ASSUME NEW t \in Seq(Chars), NEW e \in Chars, t \in S
      PROVE  Append(t, e) \in S
  <2>1. /\ QueryEscape(t) \in Seq(Chars)
        /\ QueryEscape(Append(t, e)) = QueryEscape(t) \o Escape(e)
    BY QueryEscapeAppend
  <2>2. Escape(e) \in Seq(Chars)
    BY EscapeTypes
  <2>3. Without(c, Escape(e))
    <3>1. CASE e \in Special
      <4>1. Escape(e) = <<"%", Code[e]>> /\ Code[e] # c /\ c # "%"
        BY <3>1, EscapeTypes, Codes
      <4> QED
        BY <4>1 DEF Without
    <3>2. CASE e \notin Special
      <4>1. PICK d : Escape(e) = <<d>> /\ d # c
        <5>1. CASE e = " "
          BY <5>1, Codes DEF Escape, Special
        <5>2. CASE e # " "
          <6>1. Escape(e) = <<e>>
            BY <3>2, <5>2, EscapeTypes
          <6>2. e # c
            BY <3>2
          <6> QED
            BY <6>1, <6>2
        <5> QED
          BY <5>1, <5>2
      <4> QED
        BY <4>1 DEF Without
    <3> QED
      BY <3>1, <3>2
  <2>4. Without(c, QueryEscape(t))
    BY <1>2
  <2>5. Without(c, QueryEscape(Append(t, e)))
    BY <2>1, <2>2, <2>3, <2>4, WithoutConcat
  <2>6. Append(t, e) \in Seq(Chars)
    BY AppendProperties
  <2> QED
    BY <2>5, <2>6
<1> HIDE DEF S
<1>3. Seq(Chars) \subseteq S
  BY <1>1, <1>2, SequenceInduction
<1> QED
  BY <1>3 DEF S

-----------------------------------------------------------------------------
(* Parts.                                                                  *)

\* A text from a position on; where parts start.
Rest(text, i) == SubSeq(text, i, Len(text))

\* The rest of a text.
LEMMA RestTypes ==
    ASSUME NEW T, NEW text \in Seq(T), NEW i \in 1 .. Len(text) + 1
    PROVE  /\ Rest(text, i) \in Seq(T)
           /\ Len(Rest(text, i)) = Len(text) + 1 - i
           /\ \A j \in 1 .. Len(text) + 1 - i : Rest(text, i)[j] = text[i + j - 1]
<1>1. Len(text) \in Nat /\ \A j \in i .. Len(text) : text[j] \in T
  BY LenProperties, ElementOfSeq
<1>2. /\ Rest(text, i) \in Seq(T)
      /\ Len(Rest(text, i)) = IF i <= Len(text) THEN Len(text) - i + 1 ELSE 0
      /\ \A j \in 1 .. Len(text) - i + 1 : Rest(text, i)[j] = text[i + j - 1]
  BY <1>1, SubSeqProperties DEF Rest
<1>3. Len(text) - i + 1 = Len(text) + 1 - i
  BY <1>1
<1> QED
  BY <1>1, <1>2, <1>3

\* The rest of two texts, from within the first and from within the second.
LEMMA RestOfFirst ==
    ASSUME NEW T, NEW a \in Seq(T), NEW b \in Seq(T), NEW i \in 1 .. Len(a) + 1
    PROVE  Rest(a \o b, i) = Rest(a, i) \o b
<1> DEFINE t == a \o b
           r == Rest(a, i)
<1>1. /\ t \in Seq(T) /\ Len(t) = Len(a) + Len(b)
      /\ \A j \in 1 .. Len(a) + Len(b) :
             t[j] = IF j <= Len(a) THEN a[j] ELSE b[j - Len(a)]
      /\ Len(a) \in Nat /\ Len(b) \in Nat
  BY ConcatProperties, LenProperties
<1>2. /\ r \in Seq(T) /\ Len(r) = Len(a) + 1 - i
      /\ \A j \in 1 .. Len(a) + 1 - i : r[j] = a[i + j - 1]
  BY RestTypes
<1> HIDE DEF t, r
<1>3. i \in 1 .. Len(t) + 1
  BY <1>1
<1>4. /\ Rest(t, i) \in Seq(T) /\ Len(Rest(t, i)) = Len(t) + 1 - i
      /\ \A j \in 1 .. Len(t) + 1 - i : Rest(t, i)[j] = t[i + j - 1]
  BY <1>1, <1>3, RestTypes
<1>5. /\ r \o b \in Seq(T) /\ Len(r \o b) = Len(r) + Len(b)
      /\ \A j \in 1 .. Len(r) + Len(b) :
             (r \o b)[j] = IF j <= Len(r) THEN r[j] ELSE b[j - Len(r)]
  BY <1>2, ConcatProperties
<1>6. Len(Rest(t, i)) = Len(r \o b)
  BY <1>1, <1>2, <1>4, <1>5
<1>7. ASSUME NEW j \in 1 .. Len(r) + Len(b) PROVE Rest(t, i)[j] = (r \o b)[j]
  <2>1. i + j - 1 \in 1 .. Len(a) + Len(b) /\ j \in 1 .. Len(t) + 1 - i
    BY <1>1, <1>2
  <2>2. CASE j <= Len(r)
    <3>1. i + j - 1 <= Len(a) /\ j \in 1 .. Len(a) + 1 - i
      BY <1>1, <1>2, <2>2
    <3> QED
      BY <1>1, <1>2, <1>4, <1>5, <2>1, <2>2, <3>1
  <2>3. CASE ~ (j <= Len(r))
    <3>1. ~ (i + j - 1 <= Len(a)) /\ (i + j - 1) - Len(a) = j - Len(r)
      BY <1>1, <1>2, <2>3
    <3> QED
      BY <1>1, <1>4, <1>5, <2>1, <2>3, <3>1
  <2> QED
    BY <2>2, <2>3
<1>8. Rest(t, i) = r \o b
  <2> DEFINE u == Rest(t, i)
             v == r \o b
  <2>1. u \in Seq(T) /\ v \in Seq(T) /\ Len(u) = Len(v)
    BY <1>4, <1>5, <1>6
  <2>2. \A j \in 1 .. Len(u) : u[j] = v[j]
    BY <1>5, <1>6, <1>7
  <2> HIDE DEF u, v
  <2>3. u = v
    BY <2>1, <2>2, SeqEqual
  <2> QED
    BY <2>3 DEF u, v
<1> QED
  BY <1>8 DEF t, r

LEMMA RestOfSecond ==
    ASSUME NEW T, NEW a \in Seq(T), NEW b \in Seq(T), NEW i \in 1 .. Len(b) + 1
    PROVE  Rest(a \o b, Len(a) + i) = Rest(b, i)
<1> DEFINE t == a \o b
           r == Rest(b, i)
           k == Len(a) + i
<1>1. /\ t \in Seq(T) /\ Len(t) = Len(a) + Len(b)
      /\ \A j \in 1 .. Len(a) + Len(b) :
             t[j] = IF j <= Len(a) THEN a[j] ELSE b[j - Len(a)]
      /\ Len(a) \in Nat /\ Len(b) \in Nat
  BY ConcatProperties, LenProperties
<1>2. /\ r \in Seq(T) /\ Len(r) = Len(b) + 1 - i
      /\ \A j \in 1 .. Len(b) + 1 - i : r[j] = b[i + j - 1]
  BY RestTypes
<1> HIDE DEF t, r
<1>3. k \in 1 .. Len(t) + 1
  BY <1>1
<1>4. Len(t) + 1 - k = Len(r)
  BY <1>1, <1>2
<1>5. /\ Rest(t, k) \in Seq(T) /\ Len(Rest(t, k)) = Len(t) + 1 - k
      /\ \A j \in 1 .. Len(t) + 1 - k : Rest(t, k)[j] = t[k + j - 1]
  <2> HIDE DEF k
  <2> QED
    BY <1>1, <1>3, RestTypes
<1>6. ASSUME NEW j \in 1 .. Len(r) PROVE Rest(t, k)[j] = r[j]
  <2> DEFINE n == k + j - 1
  <2>1. /\ n \in 1 .. Len(a) + Len(b) /\ ~ (n <= Len(a))
        /\ n - Len(a) = i + j - 1
    BY <1>1, <1>2
  <2>2. Rest(t, k)[j] = t[n]
    BY <1>4, <1>5
  <2> HIDE DEF n
  <2>3. t[n] = b[n - Len(a)]
    BY <1>1, <2>1
  <2>4. r[j] = b[i + j - 1]
    BY <1>2
  <2> QED
    BY <2>1, <2>2, <2>3, <2>4
<1>7. Rest(t, k) = r
  <2> HIDE DEF k
  <2> DEFINE u == Rest(t, k)
  <2>1. u \in Seq(T) /\ Len(u) = Len(r) /\ \A j \in 1 .. Len(u) : u[j] = r[j]
    BY <1>4, <1>5, <1>6
  <2> HIDE DEF u
  <2>2. u = r
    BY <1>2, <2>1, SeqEqual
  <2> QED
    BY <2>2 DEF u
<1> QED
  BY <1>7 DEF t, r

Starts(c, text) == {j \in 1 .. Len(text) + 1 : j = 1 \/ text[j - 1] = c}

\* A part starts where a rest starts.
LEMMA PartsOfRests ==
    ASSUME NEW c, NEW text
    PROVE  Parts(c, text) = {Before(c, Rest(text, i)) : i \in Starts(c, text)}
BY DEF Parts, Rest, Starts

\* A part has no separator.
LEMMA PartsTypes ==
    ASSUME NEW T, NEW text \in Seq(T), NEW c, NEW part \in Parts(c, text)
    PROVE  part \in Seq(T) /\ Without(c, part)
<1>1. PICK i \in Starts(c, text) : part = Before(c, Rest(text, i))
  BY PartsOfRests
<1>2. Rest(text, i) \in Seq(T)
  BY RestTypes DEF Starts
<1> QED
  BY <1>1, <1>2, BeforeTypes

\* There is always a first part.
LEMMA FirstPart ==
    ASSUME NEW T, NEW text \in Seq(T), NEW c
    PROVE  Before(c, text) \in Parts(c, text)
<1>1. Len(text) \in Nat
  BY LenProperties
<1>2. Rest(text, 1) = text
  BY SubSeqFull DEF Rest
<1>3. 1 \in Starts(c, text)
  BY <1>1 DEF Starts
<1> QED
  BY <1>2, <1>3, PartsOfRests

\* A text without a separator is its only part.
LEMMA PartsWhole ==
    ASSUME NEW T, NEW text \in Seq(T), NEW c, Without(c, text)
    PROVE  Parts(c, text) = {text}
<1>1. Len(text) \in Nat
  BY LenProperties
<1>2. Rest(text, 1) = text
  BY SubSeqFull DEF Rest
<1>3. Starts(c, text) = {1}
  BY <1>1 DEF Starts, Without
<1>4. Before(c, text) = text
  BY BeforeWhole
<1> QED
  BY <1>2, <1>3, <1>4, PartsOfRests

\* Up to the separator, a text does not depend on what is behind it.
LEMMA BeforeSeparated ==
    ASSUME NEW T, NEW a \in Seq(T), NEW b \in Seq(T), NEW c \in T
    PROVE  Before(c, a \o <<c>> \o b) = Before(c, a)
<1>1. CASE Without(c, a)
  BY <1>1, BeforeFirst, BeforeWhole
<1>2. CASE ~ Without(c, a)
  <2>1. <<c>> \in Seq(T)
    BY ShortSequences
  <2> DEFINE d == <<c>>
             more == d \o b
  <2>2. d \in Seq(T)
    BY <2>1
  <2> HIDE DEF d
  <2>3. more \in Seq(T)
    BY <2>2, ConcatProperties
  <2>4. a \o d \o b = a \o more
    BY <2>2, ConcatAssociative
  <2> HIDE DEF more
  <2>5. Before(c, a \o more) = Before(c, a)
    BY <1>2, <2>3, BeforeLonger
  <2> QED
    BY <2>4, <2>5 DEF d
<1> QED
  BY <1>1, <1>2

\* A separator takes the parts on its left apart from those on its right.
LEMMA PartsTogether ==
    ASSUME NEW T, NEW a \in Seq(T), NEW b \in Seq(T), NEW c \in T
    PROVE  Parts(c, a \o <<c>> \o b) = Parts(c, a) \cup Parts(c, b)
<1> DEFINE s == a \o <<c>>
           t == s \o b
           N == Len(a)
<1>1. /\ s \in Seq(T) /\ Len(s) = N + 1 /\ s[N + 1] = c
      /\ \A i \in 1 .. N : s[i] = a[i]
      /\ N \in Nat /\ Len(b) \in Nat /\ <<c>> \in Seq(T)
  BY AppendProperties, ShortSequences, LenProperties
<1>2. \A i \in 1 .. N + 1 : Rest(s, i) = Rest(a, i) \o <<c>>
  BY <1>1, RestOfFirst
<1> HIDE DEF s
<1>3. /\ t \in Seq(T) /\ Len(t) = N + 1 + Len(b)
      /\ \A i \in 1 .. N + 1 + Len(b) :
             t[i] = IF i <= N + 1 THEN s[i] ELSE b[i - (N + 1)]
  BY <1>1, ConcatProperties
<1>4. \A i \in 1 .. N + 1 : Rest(t, i) = Rest(s, i) \o b
  BY <1>1, RestOfFirst
<1>5. \A i \in 1 .. Len(b) + 1 : Rest(t, N + 1 + i) = Rest(b, i)
  <2> SUFFICES ASSUME NEW i \in 1 .. Len(b) + 1
               PROVE  Rest(s \o b, N + 1 + i) = Rest(b, i)
    OBVIOUS
  <2>1. Rest(s \o b, Len(s) + i) = Rest(b, i)
    BY <1>1, RestOfSecond
  <2> QED
    BY <1>1, <2>1
<1> HIDE DEF t
<1>6. \A i \in 1 .. N + 1 : Before(c, Rest(t, i)) = Before(c, Rest(a, i))
  <2> SUFFICES ASSUME NEW i \in 1 .. N + 1
               PROVE  Before(c, Rest(t, i)) = Before(c, Rest(a, i))
    OBVIOUS
  <2> DEFINE r == Rest(a, i)
  <2>1. r \in Seq(T)
    BY RestTypes
  <2>2. Rest(t, i) = r \o <<c>> \o b
    BY <1>2, <1>4
  <2> HIDE DEF r
  <2>3. Before(c, r \o <<c>> \o b) = Before(c, r)
    BY <2>1, BeforeSeparated
  <2> QED
    BY <2>2, <2>3 DEF r
<1>7. \A i \in 1 .. N + 1 : i \in Starts(c, t) <=> i \in Starts(c, a)
  <2> SUFFICES ASSUME NEW i \in 1 .. N + 1
               PROVE  i \in Starts(c, t) <=> i \in Starts(c, a)
    OBVIOUS
  <2>1. CASE i = 1
    BY <1>1, <1>3, <2>1 DEF Starts
  <2>2. CASE i # 1
    <3> DEFINE n == i - 1
    <3>1. n \in 1 .. N /\ n \in 1 .. N + 1 + Len(b) /\ n <= N + 1
      BY <1>1, <2>2
    <3> HIDE DEF n
    <3>2. t[n] = a[n]
      BY <1>1, <1>3, <3>1
    <3>3. i \in 1 .. Len(t) + 1 /\ i \in 1 .. Len(a) + 1
      BY <1>1, <1>3
    <3> QED
      BY <2>2, <3>2, <3>3 DEF Starts, n
  <2> QED
    BY <2>1, <2>2
<1>8. \A i \in 1 .. Len(b) + 1 : N + 1 + i \in Starts(c, t) <=> i \in Starts(c, b)
  <2> SUFFICES ASSUME NEW i \in 1 .. Len(b) + 1
               PROVE  N + 1 + i \in Starts(c, t) <=> i \in Starts(c, b)
    OBVIOUS
  <2>1. N + 1 + i \in 1 .. Len(t) + 1 /\ N + 1 + i # 1 /\ N + 1 + i - 1 = N + i
    BY <1>1, <1>3
  <2>2. CASE i = 1
    BY <1>1, <1>3, <2>1, <2>2 DEF Starts
  <2>3. CASE i # 1
    <3>1. t[N + i] = b[i - 1]
      <4> DEFINE n == N + i
      <4>1. n \in 1 .. N + 1 + Len(b) /\ ~ (n <= N + 1) /\ n - (N + 1) = i - 1
        BY <1>1, <2>3
      <4> HIDE DEF n
      <4>2. t[n] = b[i - 1]
        BY <1>3, <4>1
      <4> QED
        BY <4>2 DEF n
    <3> QED
      BY <2>1, <2>3, <3>1 DEF Starts
  <2> QED
    BY <2>2, <2>3
<1>9. ASSUME NEW part
      PROVE  part \in Parts(c, t) <=> part \in Parts(c, a) \cup Parts(c, b)
  <2>1. ASSUME part \in Parts(c, t) PROVE part \in Parts(c, a) \cup Parts(c, b)
    <3>1. PICK i \in Starts(c, t) : part = Before(c, Rest(t, i))
      BY <2>1, PartsOfRests
    <3>2. i \in 1 .. N + 1 + Len(b) + 1
      BY <1>3 DEF Starts
    <3>3. CASE i \in 1 .. N + 1
      BY <1>6, <1>7, <3>1, <3>3, PartsOfRests
    <3>4. CASE i \notin 1 .. N + 1
      <4> DEFINE k == i - (N + 1)
      <4>1. k \in 1 .. Len(b) + 1 /\ N + 1 + k = i
        BY <1>1, <3>2, <3>4
      <4> HIDE DEF k
      <4>2. Rest(t, i) = Rest(b, k) /\ k \in Starts(c, b)
        BY <1>5, <1>8, <4>1
      <4> QED
        BY <3>1, <4>2, PartsOfRests
    <3> QED
      BY <3>3, <3>4
  <2>2. ASSUME part \in Parts(c, a) PROVE part \in Parts(c, t)
    <3>1. PICK i \in Starts(c, a) : part = Before(c, Rest(a, i))
      BY <2>2, PartsOfRests
    <3>2. i \in 1 .. N + 1
      BY DEF Starts
    <3> QED
      BY <1>6, <1>7, <3>1, <3>2, PartsOfRests
  <2>3. ASSUME part \in Parts(c, b) PROVE part \in Parts(c, t)
    <3>1. PICK i \in Starts(c, b) : part = Before(c, Rest(b, i))
      BY <2>3, PartsOfRests
    <3>2. i \in 1 .. Len(b) + 1
      BY DEF Starts
    <3>3. N + 1 + i \in Starts(c, t) /\ Rest(t, N + 1 + i) = Rest(b, i)
      BY <1>5, <1>8, <3>2
    <3> QED
      BY <3>1, <3>3, PartsOfRests
  <2> QED
    BY <2>1, <2>2, <2>3
<1> QED
  BY <1>9 DEF t, s

\* The last part grows when text without a separator follows.
Extended(c, a, b, part) ==
    part \in Parts(c, a) \/ \E p \in Parts(c, a) : part = p \o b

LEMMA PartsExtended ==
    ASSUME NEW T, NEW a \in Seq(T), NEW b \in Seq(T), NEW c, Without(c, b),
           NEW part \in Parts(c, a \o b)
    PROVE  Extended(c, a, b, part)
<1> USE DEF Extended
<1> DEFINE t == a \o b
           N == Len(a)
<1>1. /\ t \in Seq(T) /\ Len(t) = N + Len(b)
      /\ \A i \in 1 .. N + Len(b) : t[i] = IF i <= N THEN a[i] ELSE b[i - N]
      /\ N \in Nat /\ Len(b) \in Nat
  BY ConcatProperties, LenProperties
<1>2. \A i \in 1 .. N + 1 : Rest(t, i) = Rest(a, i) \o b
  BY RestOfFirst
<1>3. part \in Parts(c, t)
  OBVIOUS
<1> HIDE DEF t
<1>4. PICK i \in Starts(c, t) : part = Before(c, Rest(t, i))
  BY <1>3, PartsOfRests
<1>5. i \in 1 .. N + 1 /\ i \in Starts(c, a)
  <2>1. i \in 1 .. N + Len(b) + 1 /\ (i = 1 \/ t[i - 1] = c)
    BY <1>1 DEF Starts
  <2>2. i \in 1 .. N + 1
    <3> SUFFICES ASSUME i > N + 1 PROVE FALSE
      BY <1>1, <2>1
    <3> DEFINE n == i - 1
    <3>1. /\ n - N \in 1 .. Len(b) /\ n \in 1 .. N + Len(b) /\ ~ (n <= N)
          /\ t[n] = c
      BY <1>1, <2>1
    <3> HIDE DEF n
    <3>2. b[n - N] = c
      BY <1>1, <3>1
    <3> QED
      BY <3>1, <3>2 DEF Without
  <2>3. i # 1 => i - 1 \in 1 .. N /\ t[i - 1] = a[i - 1]
    BY <1>1, <2>2
  <2> QED
    BY <2>1, <2>2, <2>3 DEF Starts
<1> DEFINE r == Rest(a, i)
<1>6. r \in Seq(T) /\ Before(c, r) \in Parts(c, a)
  BY <1>5, RestTypes, PartsOfRests
<1>7. part = Before(c, r \o b)
  BY <1>2, <1>4, <1>5
<1> HIDE DEF r
<1>8. CASE Without(c, r)
  <2>1. Before(c, r) = r
    BY <1>6, <1>8, BeforeWhole
  <2>2. r \o b \in Seq(T) /\ Without(c, r \o b)
    BY <1>6, <1>8, WithoutConcat, ConcatProperties
  <2>3. part = r \o b
    BY <1>7, <2>2, BeforeWhole
  <2> QED
    BY <1>6, <2>1, <2>3
<1>9. CASE ~ Without(c, r)
  BY <1>6, <1>7, <1>9, BeforeLonger
<1> QED
  BY <1>8, <1>9

-----------------------------------------------------------------------------
(* Forms.                                                                  *)

\* Four texts in a row.
Regrouped(a, b, c, d) == a \o (b \o c \o d) = (a \o b) \o c \o d

\* Concatenation, grouped from the left.
LEMMA Regroup ==
    ASSUME NEW T, NEW a \in Seq(T), NEW b \in Seq(T), NEW c \in Seq(T),
           NEW d \in Seq(T)
    PROVE  Regrouped(a, b, c, d)
<1> DEFINE u == b \o c
<1>1. a \o u = (a \o b) \o c
  OBVIOUS
<1>2. u \in Seq(T)
  BY ConcatProperties
<1> HIDE DEF u
<1>3. a \o (u \o d) = (a \o u) \o d
  BY <1>2
<1> QED
  BY <1>1, <1>3 DEF u, Regrouped

\* Names as url.Values has them here, and a name with its value.
Names == Chars \ (Special \cup {" "})
Entries == Names \X Seq(Chars)

\* A name is read as it is written.
LEMMA NameDecodes ==
    ASSUME NEW name \in Names
    PROVE  FormDecode(<<name>>) = <<name>>
<1>1. name \in Chars /\ name \notin Special /\ name # " "
  BY DEF Names
<1>2. <<>> \in Seq(Chars) /\ <<name>> = Append(<<>>, name)
  BY EmptySeq
<1>3. Reading(<<name>>) = Read(Unread, name)
  BY <1>1, <1>2, ReadingAppend, ReadingEmpty
<1>4. name # "%" /\ name # "+"
  BY <1>1 DEF Special
<1>5. Read(Unread, name) = [Unread EXCEPT !.text = Append(@, name)]
  BY <1>4 DEF Read, Unread
<1>6. /\ Read(Unread, name).valid /\ ~ Read(Unread, name).escape
      /\ Read(Unread, name).text = <<name>>
  BY <1>2, <1>5 DEF Unread
<1> QED
  BY <1>3, <1>6 DEF FormDecode

\* A name and a value are read as they are, and look like one part.
LEMMA PairTypes ==
    ASSUME NEW pair \in Entries
    PROVE  /\ Pair(pair) \in Seq(Chars)
           /\ Without("&", Pair(pair))
           /\ ReadPair(Pair(pair)) = <<<<pair[1]>>, pair[2]>>
<1> DEFINE name == pair[1]
           text == pair[2]
           wire == QueryEscape(text)
<1>1. name \in Chars /\ name \in Names /\ text \in Seq(Chars)
  BY DEF Entries, Names
<1>2. {"=", "&"} \subseteq Special \ {"%", "+"} /\ {"=", "&"} \subseteq Chars
  BY Codes DEF Special
<1>3. name # "=" /\ name # "&"
  BY <1>1 DEF Names, Special
<1>4. wire \in Seq(Chars) /\ Without("&", wire) /\ FormDecode(wire) = text
  BY <1>1, <1>2, QueryEscapeAppend, EscapedWithout, EscapingUndone
<1>5. <<name>> \in Seq(Chars) /\ <<name, "=">> \in Seq(Chars)
  BY <1>1, <1>2, ShortSequences, EmptySeq
<1>6. Pair(pair) = <<name, "=">> \o wire
  BY DEF Pair
<1>7. <<name, "=">> = <<name>> \o <<"=">>
  BY <1>1
<1> HIDE DEF wire
<1>8. Pair(pair) \in Seq(Chars)
  BY <1>4, <1>5, <1>6, ConcatProperties
<1>9. Without("&", Pair(pair))
  <2>1. Without("&", <<name, "=">>)
    BY <1>3 DEF Without
  <2> QED
    BY <1>4, <1>5, <1>6, <2>1, WithoutConcat
<1>10. Before("=", Pair(pair)) = <<name>> /\ After("=", Pair(pair)) = wire
  <2>1. Without("=", <<name>>)
    BY <1>3 DEF Without
  <2> DEFINE first == <<name>>
             all == first \o <<"=">> \o wire
  <2>2. first \in Seq(Chars) /\ "=" \in Chars /\ Without("=", first)
    BY <1>2, <1>5, <2>1
  <2>3. Pair(pair) = all
    BY <1>6, <1>7
  <2> HIDE DEF first
  <2>4. Before("=", all) = first /\ After("=", all) = wire
    BY <1>4, <2>2, BeforeFirst
  <2> QED
    BY <2>3, <2>4 DEF first
<1>11. ReadPair(Pair(pair)) = <<<<name>>, text>>
  BY <1>1, <1>4, <1>10, NameDecodes DEF ReadPair
<1> QED
  BY <1>8, <1>9, <1>11

\* Encode, one pair after another.
LEMMA EncodeEmpty == Encode(<<>>) = <<>>
<1>1. [i \in DOMAIN <<>> |-> Pair(<<>>[i])] = <<>>
  OBVIOUS
<1>2. <<"&">> \in Seq(Chars)
  BY Codes, ShortSequences, EmptySeq DEF Special
<1> DEFINE amp == <<"&">>
<1>3. amp \in Seq(Chars)
  BY <1>2
<1> HIDE DEF amp
<1>4. Joined(<<>>, amp) = <<>>
  BY <1>3, JoinedEmpty
<1> QED
  BY <1>1, <1>4 DEF Encode, amp

LEMMA EncodeAppend ==
    ASSUME NEW values \in Seq(Entries), NEW pair \in Entries
    PROVE  /\ Encode(values) \in Seq(Chars)
           /\ Encode(Append(values, pair))
                = Encode(values) \o (IF values = <<>> THEN <<>> ELSE <<"&">>)
                                 \o Pair(pair)
<1> DEFINE pieces == [i \in DOMAIN values |-> Pair(values[i])]
           more == [i \in DOMAIN Append(values, pair) |-> Pair(Append(values, pair)[i])]
           piece == Pair(pair)
           amp == <<"&">>
           N == Len(values)
<1>1. N \in Nat /\ DOMAIN values = 1 .. N
  BY LenProperties
<1>2. pieces \in Seq(Seq(Chars)) /\ Len(pieces) = N
  <2>1. ASSUME NEW i \in 1 .. N PROVE pieces[i] \in Seq(Chars)
    <3>1. values[i] \in Entries
      BY ElementOfSeq
    <3> QED
      BY <1>1, <3>1, PairTypes
  <2> QED
    BY <1>1, <2>1
<1>3. piece \in Seq(Chars) /\ amp \in Seq(Chars)
  <2>1. "&" \in Chars
    BY Codes DEF Special
  <2> QED
    BY <2>1, PairTypes, ShortSequences, EmptySeq
<1>4. more = Append(pieces, piece)
  <2>1. /\ Len(Append(values, pair)) = N + 1
        /\ DOMAIN Append(values, pair) = 1 .. N + 1
        /\ Append(values, pair)[N + 1] = pair
        /\ \A i \in 1 .. N : Append(values, pair)[i] = values[i]
    BY <1>1, AppendProperties
  <2>2. Append(pieces, piece)
          = [i \in 1 .. N + 1 |-> IF i = N + 1 THEN piece ELSE pieces[i]]
    BY <1>1, <1>2, <1>3, AppendProperties
  <2>3. ASSUME NEW i \in 1 .. N + 1
        PROVE  more[i] = IF i = N + 1 THEN piece ELSE pieces[i]
    BY <1>1, <2>1
  <2> QED
    BY <2>1, <2>2, <2>3
<1>5. pieces = <<>> <=> values = <<>>
  <2>1. pieces = <<>> <=> N = 0
    BY <1>1, <1>2, EmptySeq
  <2>2. values = <<>> <=> N = 0
    BY <1>1, EmptySeq
  <2> QED
    BY <2>1, <2>2
<1>6. /\ Encode(values) = Joined(pieces, amp)
      /\ Encode(Append(values, pair)) = Joined(Append(pieces, piece), amp)
  BY <1>4 DEF Encode
<1> HIDE DEF pieces, more, piece, amp
<1>7. /\ Joined(pieces, amp) \in Seq(Chars)
      /\ Joined(Append(pieces, piece), amp)
           = Joined(pieces, amp) \o (IF pieces = <<>> THEN <<>> ELSE amp) \o piece
  BY <1>2, <1>3, JoinedAppend
<1> QED
  BY <1>5, <1>6, <1>7 DEF piece, amp

\* The parts of a text that ends in an encoded form.
LEMMA PartsOfEncoded ==
    ASSUME NEW front \in Seq(Chars), NEW values \in Seq(Entries), values # <<>>
    PROVE  Parts("&", front \o Encode(values))
               = Parts("&", front \o Pair(values[1]))
                 \cup {Pair(values[i]) : i \in 2 .. Len(values)}
<1> DEFINE Split(vs) == Parts("&", front \o Encode(vs))
                          = Parts("&", front \o Pair(vs[1]))
                            \cup {Pair(vs[i]) : i \in 2 .. Len(vs)}
           S == {vs \in Seq(Entries) : vs # <<>> => Split(vs)}
<1>1. <<>> \in S
  BY EmptySeq
<1>2. ASSUME NEW vs \in Seq(Entries), NEW pair \in Entries, vs \in S
      PROVE  Append(vs, pair) \in S
  <2> DEFINE more == Append(vs, pair)
             N == Len(vs)
             piece == Pair(pair)
             wire == Encode(vs)
  <2>1. /\ more \in Seq(Entries) /\ Len(more) = N + 1 /\ more[N + 1] = pair
        /\ \A i \in 1 .. N : more[i] = vs[i]
        /\ N \in Nat
    BY AppendProperties, LenProperties
  <2>2. /\ wire \in Seq(Chars) /\ piece \in Seq(Chars) /\ Without("&", piece)
        /\ Encode(more) = wire \o (IF vs = <<>> THEN <<>> ELSE <<"&">>) \o piece
    BY EncodeAppend, PairTypes
  <2> HIDE DEF more
  <2>3. CASE vs = <<>>
    <3>1. N = 0 /\ wire = <<>>
      BY <2>3, EncodeEmpty
    <3>2. Encode(more) = piece
      <4> HIDE DEF piece
      <4>1. <<>> \o <<>> \o piece = piece
        BY <2>2, ConcatEmptySeq, EmptySeq
      <4> QED
        BY <2>2, <2>3, <3>1, <4>1
    <3>3. more[1] = pair /\ 2 .. Len(more) = {}
      BY <2>1, <3>1
    <3>4. Split(more)
      BY <3>2, <3>3
    <3> QED
      BY <2>1, <3>4 DEF more
  <2>4. CASE vs # <<>>
    <3>1. Split(vs) /\ N >= 1
      BY <1>2, <2>1, <2>4, EmptySeq
    <3> DEFINE all == front \o wire
    <3>2. all \in Seq(Chars) /\ "&" \in Chars
      BY <2>2, Codes, ConcatProperties DEF Special
    <3>3. front \o Encode(more) = all \o <<"&">> \o piece
      <4> DEFINE amp == <<"&">>
      <4>1. amp \in Seq(Chars)
        BY <3>2, ShortSequences, EmptySeq
      <4>2. Encode(more) = wire \o amp \o piece
        BY <2>2, <2>4
      <4>7. wire \in Seq(Chars) /\ piece \in Seq(Chars)
        BY <2>2
      <4> HIDE DEF amp, wire, piece
      <4>3. front \o (wire \o amp \o piece) = (front \o wire) \o amp \o piece
        <5>1. Regrouped(front, wire, amp, piece)
          BY <4>1, <4>7, Regroup
        <5> QED
          BY <5>1 DEF Regrouped
      <4>6. front \o Encode(more) = (front \o wire) \o amp \o piece
        BY <4>2, <4>3
      <4> QED
        BY <4>6 DEF amp
    <3>4. Parts("&", piece) = {piece}
      BY <2>2, PartsWhole
    <3>5. Parts("&", all \o <<"&">> \o piece)
            = Parts("&", all) \cup Parts("&", piece)
      <4> HIDE DEF all, piece
      <4> QED
        BY <2>2, <3>2, PartsTogether
    <3>6. {Pair(more[i]) : i \in 2 .. Len(more)}
            = {Pair(vs[i]) : i \in 2 .. N} \cup {piece}
      <4>1. 2 .. Len(more) = (2 .. N) \cup {N + 1}
        BY <2>1, <3>1
      <4>2. \A i \in 2 .. N : more[i] = vs[i]
        BY <2>1
      <4> QED
        BY <2>1, <4>1, <4>2
    <3>7. more[1] = vs[1]
      BY <2>1, <3>1
    <3>8. Split(more)
      BY <3>1, <3>3, <3>4, <3>5, <3>6, <3>7
    <3> QED
      BY <2>1, <3>8 DEF more
  <2> QED
    BY <2>3, <2>4
<1> HIDE DEF S
<1>3. Seq(Entries) \subseteq S
  BY <1>1, <1>2, SequenceInduction
<1>4. values \in S
  BY <1>3
<1> QED
  BY <1>4 DEF S

\* url.Values.Encode loses nothing: a provider reads the pairs that were
\* encoded and no others, whatever characters the values are made of.
THEOREM FormsArrive ==
    ASSUME NEW values \in Seq(Entries), values # <<>>
    PROVE  ReadForm(Encode(values)) = Pairs(values)
<1> DEFINE N == Len(values)
           wire == Encode(values)
<1>1. N \in Nat /\ N >= 1 /\ DOMAIN values = 1 .. N
  BY LenProperties, EmptySeq
<1>2. \A i \in 1 .. N : values[i] \in Entries
  BY ElementOfSeq
<1>3. <<>> \in Seq(Chars) /\ wire \in Seq(Chars)
  BY <1>1, <1>2, EncodeAppend, EmptySeq
<1>4. Parts("&", wire) = {Pair(values[i]) : i \in 1 .. N}
  <2> DEFINE piece == Pair(values[1])
  <2>1. piece \in Seq(Chars) /\ Without("&", piece)
    BY <1>1, <1>2, PairTypes
  <2>2. Parts("&", <<>> \o wire) = Parts("&", <<>> \o piece)
                                   \cup {Pair(values[i]) : i \in 2 .. N}
    BY <1>3, PartsOfEncoded
  <2> HIDE DEF piece, wire
  <2>3. <<>> \o wire = wire /\ <<>> \o piece = piece
    BY <1>3, <2>1, ConcatEmptySeq
  <2>4. Parts("&", piece) = {piece}
    BY <2>1, PartsWhole
  <2>5. 1 .. N = {1} \cup (2 .. N)
    BY <1>1
  <2> QED
    BY <2>2, <2>3, <2>4, <2>5 DEF piece
<1>5. \A i \in 1 .. N : ReadPair(Pair(values[i])) = <<<<values[i][1]>>, values[i][2]>>
  BY <1>2, PairTypes
<1> HIDE DEF N
<1>6. ReadForm(wire) = {ReadPair(Pair(values[i])) : i \in 1 .. N}
  BY <1>4 DEF ReadForm
<1> QED
  BY <1>1, <1>5, <1>6 DEF Pairs

-----------------------------------------------------------------------------
(* Queries.                                                                *)

\* What is behind the first separator grows with the text.
LEMMA AfterLonger ==
    ASSUME NEW T, NEW a \in Seq(T), NEW b \in Seq(T), NEW c, ~ Without(c, a)
    PROVE  /\ ~ (Position(c, a \o b) > Len(a \o b))
           /\ After(c, a \o b) = After(c, a) \o b
<1> DEFINE t == a \o b
           p == Position(c, a)
<1>1. t \in Seq(T) /\ Len(t) = Len(a) + Len(b) /\ Len(a) \in Nat /\ Len(b) \in Nat
  BY ConcatProperties, LenProperties
<1>2. Position(c, t) = p
  <2>1. Before(c, t) = Before(c, a)
    BY BeforeLonger
  <2>2. /\ Len(Before(c, a)) = p - 1 /\ p \in 1 .. Len(a) + 1
        /\ Len(Before(c, t)) = Position(c, t) - 1 /\ Position(c, t) \in 1 .. Len(t) + 1
    <3> HIDE DEF t
    <3> QED
      BY <1>1, BeforeTypes
  <2> HIDE DEF t, p
  <2> QED
    BY <1>1, <2>1, <2>2
<1>3. p \in 1 .. Len(a)
  <2>1. p \in 1 .. Len(a) + 1 /\ ~ (p > Len(a))
    BY BeforeTypes, WithoutIffWhole
  <2> HIDE DEF p
  <2> QED
    BY <1>1, <2>1
<1>4. Rest(t, p + 1) = Rest(a, p + 1) \o b
  <2>1. p + 1 \in 1 .. Len(a) + 1
    BY <1>1, <1>3
  <2> HIDE DEF p
  <2> QED
    BY <2>1, RestOfFirst
<1> HIDE DEF t, p
<1>5. After(c, t) = Rest(t, p + 1) /\ After(c, a) = Rest(a, p + 1)
  BY <1>2 DEF After, Rest, p
<1>6. ~ (p > Len(t))
  BY <1>1, <1>3
<1> QED
  BY <1>2, <1>4, <1>5, <1>6 DEF t

\* The parameters arrive at an address without a query.
LEMMA QueryArrives ==
    ASSUME NEW e \in Seq(Chars), Without("?", e),
           NEW values \in Seq(Entries), values # <<>>
    PROVE  ReadQuery(e \o <<"?">> \o Encode(values)) = Pairs(values)
<1> DEFINE wire == Encode(values)
           t == e \o <<"?">> \o wire
<1>1. "?" \in Chars
  BY Codes DEF Special
<1>2. wire \in Seq(Chars)
  <2>1. PICK v : v \in Entries
    <3>1. values[1] \in Entries
      BY LenProperties, EmptySeq, ElementOfSeq
    <3> QED
      BY <3>1
  <2> QED
    BY <2>1, EncodeAppend
<1>3. ReadForm(wire) = Pairs(values)
  BY FormsArrive
<1> HIDE DEF wire
<1>4. Position("?", t) = Len(e) + 1 /\ After("?", t) = wire
  BY <1>1, <1>2, BeforeFirst
<1>5. ~ (Len(e) + 1 > Len(t))
  <2> DEFINE s == e \o <<"?">>
  <2>1. s \in Seq(Chars) /\ Len(s) = Len(e) + 1 /\ Len(e) \in Nat
    BY <1>1, ShortSequences, AppendProperties, LenProperties
  <2> HIDE DEF s
  <2>2. Len(s \o wire) = Len(s) + Len(wire) /\ Len(wire) \in Nat
    BY <1>2, <2>1, ConcatProperties, LenProperties
  <2> QED
    BY <2>1, <2>2 DEF s
<1> HIDE DEF t
<1> QED
  BY <1>3, <1>4, <1>5 DEF ReadQuery, t, wire

\* An address in which nothing is read has no question mark.
LEMMA NoQuery ==
    ASSUME NEW e \in Seq(Chars), ReadQuery(e) = {}
    PROVE  Without("?", e)
<1> SUFFICES ASSUME ~ Without("?", e) PROVE FALSE
  OBVIOUS
<1>1. ReadQuery(e) = ReadForm(After("?", e))
  BY WithoutIffWhole DEF ReadQuery
<1>2. Before("&", After("?", e)) \in Parts("&", After("?", e))
  BY BeforeTypes, FirstPart
<1> QED
  BY <1>1, <1>2 DEF ReadForm

\* A name that holds a character more is another name.
LEMMA LongerName ==
    ASSUME NEW text \in Seq(Chars), NEW name \in Names, name # "malformed"
    PROVE  FormDecode(text \o <<"?", name>>) # <<name>>
<1> DEFINE state == Reading(text)
           once == Append(text, "?")
           twice == Append(once, name)
           full == text \o <<"?", name>>
<1>1. "?" \in Chars /\ name \in Chars /\ name # "%" /\ name # "+"
  BY Codes DEF Names, Special
<1>2. once \in Seq(Chars) /\ full = twice
  BY <1>1, AppendProperties, ShortSequences
<1> SUFFICES FormDecode(twice) # <<name>>
  BY <1>2
<1> HIDE DEF full
<1>3. Reading(once) = Read(state, "?")
  BY <1>1, ReadingAppend
<1> HIDE DEF once
<1>4. Reading(twice) = Read(Reading(once), name)
  BY <1>1, <1>2, ReadingAppend
<1>5. state \in States /\ Reading(once) \in States
  BY <1>2, ReadingTypes
<1> HIDE DEF state, twice
<1>6. CASE state.escape
  <2>1. ~ \E d \in DOMAIN Code : Code[d] = "?"
    BY Codes DEF Special
  <2>2. ~ Reading(once).valid
    BY <1>3, <1>5, <1>6, <2>1 DEF Read, States
  <2>3. ~ Reading(twice).valid
    BY <1>4, <1>5, <2>2 DEF Read, States
  <2>4. FormDecode(twice) = <<"malformed">>
    BY <2>3 DEF FormDecode
  <2>5. <<"malformed">> # <<name>>
    BY <<name>>[1] = name, <<"malformed">>[1] = "malformed"
  <2> QED
    BY <2>4, <2>5
<1>7. CASE ~ state.escape
  <2> DEFINE longer == Append(Append(state.text, "?"), name)
  <2>1. Reading(once).text = Append(state.text, "?") /\ ~ Reading(once).escape
    BY <1>3, <1>5, <1>7 DEF Read, States
  <2>2. Reading(twice).text = Append(Reading(once).text, name)
    BY <1>1, <1>4, <1>5, <2>1 DEF Read, States
  <2>3. Reading(twice).text = longer
    BY <2>1, <2>2
  <2>4. FormDecode(twice) \in {longer, <<"malformed">>}
    BY <2>3 DEF FormDecode
  <2>5. longer # <<name>>
    <3>1. state.text \in Seq(Chars)
      BY <1>5 DEF States
    <3>2. /\ Append(state.text, "?") \in Seq(Chars)
          /\ Len(Append(state.text, "?")) = Len(state.text) + 1
          /\ Len(state.text) \in Nat
      BY <1>1, <3>1, AppendProperties, LenProperties
    <3>3. Len(longer) = Len(state.text) + 2
      <4> DEFINE s == Append(state.text, "?")
      <4>1. s \in Seq(Chars) /\ Len(s) = Len(state.text) + 1
        BY <3>2
      <4> HIDE DEF s
      <4>2. Len(Append(s, name)) = Len(s) + 1
        BY <1>1, <4>1, AppendProperties
      <4> QED
        BY <3>2, <4>1, <4>2 DEF s
    <3>4. Len(<<name>>) = 1
      OBVIOUS
    <3>5. Len(longer) # 1
      BY <3>2, <3>3
    <3> HIDE DEF longer
    <3> DEFINE short == <<name>>
    <3>6. Len(short) = 1
      BY <3>4
    <3> HIDE DEF short
    <3>7. longer # short
      BY <3>5, <3>6
    <3> QED
      BY <3>7 DEF short
  <2>6. <<"malformed">> # <<name>>
    BY <<name>>[1] = name, <<"malformed">>[1] = "malformed"
  <2> QED
    BY <2>4, <2>5, <2>6
<1> QED
  BY <1>6, <1>7

\* At an address with a query, the first parameter disappears in it.
LEMMA FirstNameLost ==
    ASSUME NEW e \in Seq(Chars), ~ Without("?", e),
           NEW values \in Seq(Entries), values # <<>>,
           NEW name \in Names, name # "malformed", values[1][1] = name,
           \A i \in 2 .. Len(values) : values[i][1] # name,
           \A pair \in ReadQuery(e) : pair[1] # <<name>>
    PROVE  \A pair \in ReadQuery(e \o <<"?">> \o Encode(values)) :
               pair[1] # <<name>>
<1> DEFINE q == After("?", e)
           wire == Encode(values)
           first == Pair(values[1])
           more == <<"?">> \o wire
           url_ == e \o <<"?">> \o wire
<1>1. Len(values) \in Nat /\ Len(values) >= 1
  BY LenProperties, EmptySeq
<1>2. \A i \in 1 .. Len(values) : values[i] \in Entries
  BY ElementOfSeq
<1>3. /\ "?" \in Chars /\ q \in Seq(Chars)
      /\ wire \in Seq(Chars) /\ <<"?">> \in Seq(Chars)
      /\ first \in Seq(Chars)
  <2>1. "?" \in Chars
    BY Codes DEF Special
  <2> QED
    BY <1>1, <1>2, <2>1, EncodeAppend, PairTypes, BeforeTypes, ShortSequences,
       EmptySeq
<1>4. more \in Seq(Chars)
  BY <1>3, ConcatProperties
<1>5. ReadQuery(e) = ReadForm(q)
  BY WithoutIffWhole DEF ReadQuery
<1>6. ReadQuery(url_) = ReadForm(q \o <<"?">> \o wire)
  <2> HIDE DEF q, wire
  <2>1. url_ = e \o more /\ q \o <<"?">> \o wire = q \o more
    <3> DEFINE k == <<"?">>
    <3>1. k \in Seq(Chars)
      BY <1>3
    <3> HIDE DEF k
    <3>2. q \in Seq(Chars) /\ wire \in Seq(Chars)
      BY <1>3
    <3>3. e \o k \o wire = e \o (k \o wire)
      BY <3>1, <3>2
    <3>4. q \o k \o wire = q \o (k \o wire)
      BY <3>1, <3>2
    <3> QED
      BY <3>3, <3>4 DEF k
  <2> HIDE DEF more, url_
  <2>2. ~ (Position("?", e \o more) > Len(e \o more))
        /\ After("?", e \o more) = After("?", e) \o more
    BY <1>4, AfterLonger
  <2> QED
    BY <2>1, <2>2 DEF ReadQuery, q
<1>7. Parts("&", q \o <<"?">> \o wire)
        = Parts("&", q \o <<"?">> \o first)
          \cup {Pair(values[i]) : i \in 2 .. Len(values)}
  <2> DEFINE front == q \o <<"?">>
  <2>1. front \in Seq(Chars)
    BY <1>3, ConcatProperties
  <2> HIDE DEF front
  <2>2. Parts("&", front \o wire)
          = Parts("&", front \o first)
            \cup {Pair(values[i]) : i \in 2 .. Len(values)}
    BY <2>1, PartsOfEncoded
  <2> QED
    BY <2>2 DEF front
<1>8. ASSUME NEW part \in Parts("&", q \o <<"?">> \o first)
      PROVE  ReadPair(part)[1] # <<name>>
  <2> DEFINE tail == <<"?">> \o first
             value == QueryEscape(values[1][2])
  <2>1. tail \in Seq(Chars) /\ Without("&", tail)
    <3>1. Without("&", <<"?">>)
      BY DEF Without
    <3>2. Without("&", first)
      BY <1>1, <1>2, PairTypes
    <3> HIDE DEF first
    <3> QED
      BY <1>3, <3>1, <3>2, WithoutConcat, ConcatProperties
  <2>2. \A p \in Parts("&", q) : FormDecode(Before("=", p)) # <<name>>
    <3>1. ASSUME NEW p \in Parts("&", q) PROVE FormDecode(Before("=", p)) # <<name>>
      <4>1. ReadPair(p) \in ReadQuery(e)
        BY <1>5 DEF ReadForm
      <4>2. ReadPair(p)[1] # <<name>>
        BY <4>1
      <4> QED
        BY <4>2 DEF ReadPair
    <3> QED
      BY <3>1
  <2>3. q \o <<"?">> \o first = q \o tail
    <3> HIDE DEF q, first
    <3> QED
      BY <1>3
  <2>4. part \in Parts("&", q) \/ \E p \in Parts("&", q) : part = p \o tail
    <3>1. part \in Parts("&", q \o tail)
      BY <2>3
    <3> HIDE DEF tail, q
    <3>2. q \in Seq(Chars)
      BY <1>3
    <3>3. Extended("&", q, tail, part)
      BY <2>1, <3>1, <3>2, PartsExtended
    <3> QED
      BY <3>3 DEF Extended
  <2>5. CASE part \in Parts("&", q)
    BY <2>2, <2>5 DEF ReadPair
  <2>6. ASSUME NEW p \in Parts("&", q), part = p \o tail
        PROVE  FormDecode(Before("=", part)) # <<name>>
    <3>1. p \in Seq(Chars)
      BY <1>3, PartsTypes
    <3>2. CASE ~ Without("=", p)
      <4>1. Before("=", part) = Before("=", p)
        <5> HIDE DEF tail
        <5> QED
          BY <2>1, <2>6, <3>1, <3>2, BeforeLonger
      <4> QED
        BY <2>2, <4>1
    <3>3. CASE Without("=", p)
      <4> DEFINE long == p \o <<"?", name>>
      <4>1. /\ "=" \in Chars /\ name \in Chars /\ name # "="
            /\ value \in Seq(Chars) /\ <<"?", name>> \in Seq(Chars)
        <5>1. "=" \in Chars /\ name \in Chars /\ name # "="
          BY Codes DEF Special, Names
        <5>2. values[1][2] \in Seq(Chars)
          BY <1>1, <1>2 DEF Entries
        <5> QED
          BY <1>3, <5>1, <5>2, QueryEscapeAppend, ShortSequences, EmptySeq
      <4>2. long \in Seq(Chars) /\ Without("=", long)
        <5>1. Without("=", <<"?", name>>)
          BY <4>1 DEF Without
        <5> QED
          BY <3>1, <3>3, <4>1, <5>1, WithoutConcat, ConcatProperties
      <4>3. part = long \o <<"=">> \o value
        <5>1. first = <<name, "=">> \o value
          BY DEF Pair
        <5> HIDE DEF value, first
        <5>2. tail = <<"?", name>> \o <<"=">> \o value
          BY <1>3, <4>1, <5>1
        <5> DEFINE n == <<"?", name>>
                   k == <<"=">>
        <5>3. n \in Seq(Chars) /\ k \in Seq(Chars)
          BY <4>1, ShortSequences, EmptySeq
        <5>4. tail = n \o k \o value /\ long = p \o n
          BY <5>2
        <5> HIDE DEF n, k, tail
        <5>5. Regrouped(p, n, k, value)
          BY <3>1, <4>1, <5>3, Regroup
        <5> QED
          BY <2>6, <5>4, <5>5 DEF Regrouped, k
      <4>4. Before("=", part) = long
        <5> HIDE DEF long, value
        <5>1. Before("=", long \o <<"=">> \o value) = long
          BY <4>1, <4>2, BeforeFirst
        <5> QED
          BY <4>3, <5>1
      <4> QED
        BY <3>1, <4>4, LongerName
    <3> QED
      BY <3>2, <3>3
  <2> QED
    BY <2>4, <2>5, <2>6 DEF ReadPair
<1>9. ASSUME NEW i \in 2 .. Len(values)
      PROVE  ReadPair(Pair(values[i]))[1] # <<name>>
  <2>1. values[i] \in Entries
    BY <1>1, <1>2
  <2>2. ReadPair(Pair(values[i])) = <<<<values[i][1]>>, values[i][2]>>
    BY <2>1, PairTypes
  <2>3. values[i][1] # name
    OBVIOUS
  <2> QED
    BY <2>2, <2>3
<1> HIDE DEF q, wire, first
<1> QED
  BY <1>6, <1>7, <1>8, <1>9 DEF ReadForm, wire

-----------------------------------------------------------------------------
(* The values of the two requests.                                         *)

\* Every text is a text of Chars.
LEMMA TextsAreChars ==
    ASSUME NEW text \in Seq(STRING)
    PROVE  text \in Seq(Chars)
<1>1. STRING \subseteq Chars
  BY DEF Chars
<1> HIDE DEF Chars
<1> QED
  BY <1>1, SeqMonotonic

\* Words of one character are equal when these are.
LEMMA SameWord ==
    ASSUME NEW a, NEW b, <<a>> = <<b>>
    PROVE  a = b
BY <<a>>[1] = a, <<b>>[1] = b

\* Five values in a row.
LEMMA FiveTogether ==
    ASSUME NEW T, NEW a \in T, NEW b \in T, NEW c \in T, NEW d \in T, NEW e \in T
    PROVE  /\ <<a, b, c, d, e>> \in Seq(T)
           /\ <<a, b>> \o <<c, d, e>> = <<a, b, c, d, e>>
<1> DEFINE s == <<a, b>>
           t == <<c, d, e>>
           u == <<a, b, c, d, e>>
           v == s \o t
<1>1. /\ s \in Seq(T) /\ Len(s) = 2 /\ s[1] = a /\ s[2] = b
      /\ t \in Seq(T) /\ Len(t) = 3 /\ t[1] = c /\ t[2] = d /\ t[3] = e
  OBVIOUS
<1>2. /\ u \in Seq(T) /\ Len(u) = 5
      /\ u[1] = a /\ u[2] = b /\ u[3] = c /\ u[4] = d /\ u[5] = e
  OBVIOUS
<1> HIDE DEF s, t, u
<1>3. /\ v \in Seq(T) /\ Len(v) = 5
      /\ \A i \in 1 .. 5 : v[i] = IF i <= 2 THEN s[i] ELSE t[i - 2]
  <2>1. /\ v \in Seq(T) /\ Len(v) = Len(s) + Len(t)
        /\ \A i \in 1 .. Len(s) + Len(t) :
               v[i] = IF i <= Len(s) THEN s[i] ELSE t[i - Len(s)]
    BY <1>1, ConcatProperties
  <2> QED
    BY <1>1, <2>1
<1> HIDE DEF v
<1>4. ASSUME NEW i \in 1 .. 5 PROVE v[i] = u[i]
  <2>1. i = 1 \/ i = 2 \/ i = 3 \/ i = 4 \/ i = 5
    OBVIOUS
  <2> QED
    BY <1>1, <1>2, <1>3, <2>1
<1>5. v = u
  BY <1>2, <1>3, <1>4, SeqEqual
<1> QED
  BY <1>2, <1>5 DEF s, t, u, v

\* The words of the two requests.
Words ==
    {"client_id", "client_secret", "nonce", "redirect_uri", "response_type",
     "scope", "state", "code", "grant_type"}

\* They are plain names.
LEMMA WordsAreNames ==
    Words \subseteq Names /\ "malformed" \notin Words
<1>1. Words \subseteq Chars
  BY DEF Words, Chars
<1>2. Words \cap (Special \cup {" "}) = {}
  BY DEF Words, Special
<1>3. "malformed" \notin Words
  BY DEF Words
<1> QED
  BY <1>1, <1>2, <1>3 DEF Names

\* Client and endpoint are given once.
Typed == client \in Clients /\ endpoint \in Endpoints

\* Configuration and metadata consist of texts, and so do constant values.
LEMMA ClientTexts ==
    ASSUME Typed
    PROVE  /\ client.id \in Seq(Chars) /\ client.secret \in Seq(Chars)
           /\ client.redirectUri \in Seq(Chars) /\ endpoint \in Seq(Chars)
<1>1. /\ client.id \in Seq(STRING) /\ client.secret \in Seq(STRING)
      /\ client.redirectUri \in Seq(STRING) /\ endpoint \in Seq(STRING)
  BY TextsAssumption DEF Typed, Clients
<1> QED
  BY <1>1, TextsAreChars

LEMMA ValueTexts ==
    /\ {<<"nonce value">>, <<"code">>, <<"state value">>, <<"code value">>,
        <<"authorization_code">>} \subseteq Seq(Chars)
    /\ <<"openid", " ", "email", " ", "profile">> \in Seq(Chars)
<1>1. {"nonce value", "code", "state value", "code value",
       "authorization_code", "openid", "email", "profile", " "} \subseteq Chars
  BY DEF Chars
<1>2. \A c \in Chars : <<c>> \in Seq(Chars)
  BY ShortSequences, EmptySeq
<1>3. <<"openid", " ", "email", " ", "profile">> \in Seq(Chars)
  BY <1>1, FiveTogether
<1> QED
  BY <1>1, <1>2, <1>3

\* The parameters of the authorization URL: client_id comes first, once.
LEMMA ParamsTypes ==
    ASSUME Typed
    PROVE  /\ params \in Seq(Entries) /\ params # <<>>
           /\ Len(params) = 6
           /\ params[1][1] = "client_id"
           /\ \A i \in 2 .. 6 : params[i][1] # "client_id"
           /\ Pairs(params) =
                {<<<<"client_id">>, client.id>>,
                 <<<<"nonce">>, <<"nonce value">>>>,
                 <<<<"redirect_uri">>, client.redirectUri>>,
                 <<<<"response_type">>, <<"code">>>>,
                 <<<<"scope">>, <<"openid", " ", "email", " ", "profile">>>>,
                 <<<<"state">>, <<"state value">>>>}
<1> DEFINE id == client.id
           uri == client.redirectUri
           scope == <<"openid", " ", "email", " ", "profile">>
           nonce == <<"nonce value">>
           code == <<"code">>
           state == <<"state value">>
           ps == <<<<"client_id", id>>, <<"nonce", nonce>>,
                   <<"redirect_uri", uri>>, <<"response_type", code>>,
                   <<"scope", scope>>, <<"state", state>>>>
<1>1. params = ps
  BY DEF params
<1>2. {id, uri, scope, nonce, code, state} \subseteq Seq(Chars)
  BY ClientTexts, ValueTexts
<1> HIDE DEF id, uri, scope, nonce, code, state
<1>3. /\ <<"client_id", id>> \in Entries /\ <<"nonce", nonce>> \in Entries
      /\ <<"redirect_uri", uri>> \in Entries /\ <<"response_type", code>> \in Entries
      /\ <<"scope", scope>> \in Entries /\ <<"state", state>> \in Entries
  BY <1>2, WordsAreNames DEF Entries, Words
<1>4. ps \in Seq(Entries)
  BY <1>3
<1>5. Len(ps) = 6 /\ DOMAIN ps = 1 .. 6 /\ ps # <<>>
  OBVIOUS
<1>6. ps[1][1] = "client_id" /\ \A i \in 2 .. 6 : ps[i][1] # "client_id"
  OBVIOUS
<1>7. Pairs(ps) = {<<<<"client_id">>, id>>, <<<<"nonce">>, nonce>>,
                   <<<<"redirect_uri">>, uri>>, <<<<"response_type">>, code>>,
                   <<<<"scope">>, scope>>, <<<<"state">>, state>>}
  <2>1. Pairs(ps) = {<<<<ps[i][1]>>, ps[i][2]>> : i \in {1, 2, 3, 4, 5, 6}}
    BY <1>5 DEF Pairs
  <2> QED
    BY <2>1
<1> QED
  BY <1>1, <1>4, <1>5, <1>6, <1>7 DEF id, uri, scope, nonce, code, state

\* The values of the token request, with and without the credentials.
LEMMA FormTypes ==
    ASSUME Typed
    PROVE  /\ formValues \in Seq(Entries) /\ formValues # <<>>
           /\ credentials \o formValues \in Seq(Entries)
           /\ credentials \o formValues # <<>>
           /\ Pairs(credentials) = {<<<<"client_id">>, client.id>>,
                                    <<<<"client_secret">>, client.secret>>}
           /\ Pairs(formValues) =
                {<<<<"code">>, <<"code value">>>>,
                 <<<<"grant_type">>, <<"authorization_code">>>>,
                 <<<<"redirect_uri">>, client.redirectUri>>}
           /\ Pairs(credentials \o formValues)
                = Pairs(credentials) \cup Pairs(formValues)
<1> DEFINE id == client.id
           uri == client.redirectUri
           secret == client.secret
           code == <<"code value">>
           grant == <<"authorization_code">>
           cs == <<<<"client_id", id>>, <<"client_secret", secret>>>>
           fs == <<<<"code", code>>, <<"grant_type", grant>>,
                   <<"redirect_uri", uri>>>>
           all == <<<<"client_id", id>>, <<"client_secret", secret>>,
                    <<"code", code>>, <<"grant_type", grant>>,
                    <<"redirect_uri", uri>>>>
<1>1. credentials = cs /\ formValues = fs
  BY DEF credentials, formValues
<1>2. {id, secret, uri, code, grant} \subseteq Seq(Chars)
  BY ClientTexts, ValueTexts
<1> HIDE DEF id, uri, secret, code, grant
<1>3. /\ <<"client_id", id>> \in Entries /\ <<"client_secret", secret>> \in Entries
      /\ <<"redirect_uri", uri>> \in Entries /\ <<"code", code>> \in Entries
      /\ <<"grant_type", grant>> \in Entries
  BY <1>2, WordsAreNames DEF Entries, Words
<1>4. /\ fs \in Seq(Entries) /\ all \in Seq(Entries) /\ fs # <<>> /\ all # <<>>
      /\ cs \o fs = all
  BY <1>3, FiveTogether
<1>5. Pairs(cs) = {<<<<"client_id">>, id>>, <<<<"client_secret">>, secret>>}
  <2>1. Pairs(cs) = {<<<<cs[i][1]>>, cs[i][2]>> : i \in {1, 2}}
    BY DEF Pairs
  <2> QED
    BY <2>1
<1>6. Pairs(fs) = {<<<<"code">>, code>>, <<<<"grant_type">>, grant>>,
                   <<<<"redirect_uri">>, uri>>}
  <2>1. Pairs(fs) = {<<<<fs[i][1]>>, fs[i][2]>> : i \in {1, 2, 3}}
    BY DEF Pairs
  <2> QED
    BY <2>1
<1>7. Pairs(all) = Pairs(cs) \cup Pairs(fs)
  <2>1. Pairs(all) = {<<<<all[i][1]>>, all[i][2]>> : i \in {1, 2, 3, 4, 5}}
    BY DEF Pairs
  <2> QED
    BY <1>5, <1>6, <2>1
<1> HIDE DEF cs, fs, all
<1>8. credentials \o formValues = all
  BY <1>1, <1>4
<1> QED
  BY <1>1, <1>4, <1>5, <1>6, <1>7, <1>8 DEF id, uri, secret, code, grant

\* Only credentials are named like credentials, and the redirect URI is the
\* same in both requests.
LEMMA PairNames ==
    ASSUME Typed
    PROVE  /\ \A p \in Pairs(credentials) :
                  p[1] \in {<<"client_id">>, <<"client_secret">>}
           /\ \A p \in Pairs(formValues) :
                  p[1] \notin {<<"client_id">>, <<"client_secret">>}
           /\ {p \in Pairs(credentials) \cup Pairs(formValues) :
                  p[1] = <<"redirect_uri">>}
                = {p \in Pairs(params) : p[1] = <<"redirect_uri">>}
<1> DEFINE id == <<"client_id">>
           secret == <<"client_secret">>
           uri == <<"redirect_uri">>
           code == <<"code">>
           grant == <<"grant_type">>
           nonce == <<"nonce">>
           type == <<"response_type">>
           scope == <<"scope">>
           state == <<"state">>
           v == <<client.id, client.secret, client.redirectUri>>
           w == << <<"code value">>, <<"authorization_code">>, <<"nonce value">>,
                   <<"code">>, <<"openid", " ", "email", " ", "profile">>,
                   <<"state value">> >>
<1>1. /\ id # uri /\ secret # uri /\ code # uri /\ grant # uri /\ nonce # uri
      /\ type # uri /\ scope # uri /\ state # uri
      /\ code # id /\ grant # id /\ code # secret /\ grant # secret
  BY SameWord
<1>2. Pairs(credentials) = {<<id, v[1]>>, <<secret, v[2]>>}
  BY FormTypes
<1>3. Pairs(formValues) = {<<code, w[1]>>, <<grant, w[2]>>, <<uri, v[3]>>}
  BY FormTypes
<1>4. Pairs(params) = {<<id, v[1]>>, <<nonce, w[3]>>, <<uri, v[3]>>,
                       <<type, w[4]>>, <<scope, w[5]>>, <<state, w[6]>>}
  BY ParamsTypes
<1> HIDE DEF v, w
<1> HIDE DEF id, secret, uri, code, grant, nonce, type, scope, state
<1>5. \A p \in Pairs(credentials) : p[1] \in {id, secret}
  BY <1>2
<1>6. \A p \in Pairs(formValues) : p[1] \notin {id, secret}
  BY <1>1, <1>3
<1>7. {p \in Pairs(credentials) \cup Pairs(formValues) : p[1] = uri}
        = {<<uri, v[3]>>}
  BY <1>1, <1>2, <1>3
<1>8. {p \in Pairs(params) : p[1] = uri} = {<<uri, v[3]>>}
  BY <1>1, <1>4
<1> QED
  BY <1>5, <1>6, <1>7, <1>8 DEF id, secret, uri

-----------------------------------------------------------------------------
(* The requests.                                                           *)

\* The provider has read the client id of the login.
Authorized ==
    /\ received = ReadQuery(buildAuthorizationUrl)
    /\ <<<<"client_id">>, client.id>> \in received

\* Both requests are as they were built, whatever has happened since.
RequestInvariant ==
    /\ Typed
    /\ pc = "redirected" => url = buildAuthorizationUrl
    /\ received # None => received = ReadQuery(buildAuthorizationUrl)
    /\ pc = "callback" => Authorized
    /\ request # None => Authorized /\ request = tokenRequest

\* The invariant holds before anything is sent.
LEMMA RequestInitially == Init => RequestInvariant
BY DEF Init, RequestInvariant, Typed

\* Every step keeps it.
LEMMA RequestStep ==
    ASSUME RequestInvariant, [Next]_vars
    PROVE  RequestInvariant'
<1> USE DEF RequestInvariant, Typed, Authorized, buildAuthorizationUrl, params
<1>1. CASE Redirect
  BY <1>1 DEF Redirect, tokenRequest, formValues, credentials
<1>2. CASE ProviderAuthorizes
  BY <1>2 DEF ProviderAuthorizes, tokenRequest, formValues, credentials
<1>3. CASE Exchange
  BY <1>3 DEF Exchange, tokenRequest, formValues, credentials
<1>4. CASE ProviderAnswers
  BY <1>4 DEF ProviderAnswers, tokenRequest, formValues, credentials
<1>5. CASE ExchangeTimesOut
  BY <1>5 DEF ExchangeTimesOut, tokenRequest, formValues, credentials
<1>6. CASE AnswerRead
  BY <1>6 DEF AnswerRead, tokenRequest, formValues, credentials
<1>7. CASE UNCHANGED vars
  BY <1>7 DEF vars, tokenRequest, formValues, credentials
<1> QED
  BY <1>1, <1>2, <1>3, <1>4, <1>5, <1>6, <1>7 DEF Next

\* What the provider has read and what the client has sent are what login and
\* callback build from the configuration.
THEOREM RequestsAsBuilt == Spec => []RequestInvariant
<1>1. Init => RequestInvariant
  BY RequestInitially
<1>2. RequestInvariant /\ [Next]_vars => RequestInvariant'
  BY RequestStep
<1> QED
  BY <1>1, <1>2, PTL DEF Spec

\* A provider authorizes only at an address without a query of its own, and
\* then it has read the parameters and nothing else.
LEMMA AuthorizedWithoutQuery ==
    ASSUME Typed, Authorized
    PROVE  received = Pairs(params)
<1>1. endpoint \in Seq(Chars) /\ client.id \in Seq(Chars)
  BY ClientTexts
<1>2. /\ params \in Seq(Entries) /\ params # <<>> /\ Len(params) = 6
      /\ params[1][1] = "client_id"
      /\ \A i \in 2 .. 6 : params[i][1] # "client_id"
  BY ParamsTypes
<1>3. Without("?", endpoint)
  <2> SUFFICES ASSUME ~ Without("?", endpoint) PROVE FALSE
    OBVIOUS
  <2>1. "client_id" \in Names /\ "client_id" # "malformed"
    BY WordsAreNames DEF Words
  <2>2. \A pair \in ReadQuery(endpoint) : pair[1] # <<"client_id">>
    BY TextsAssumption DEF Typed
  <2>3. \A pair \in ReadQuery(endpoint \o <<"?">> \o Encode(params)) :
            pair[1] # <<"client_id">>
    BY <1>1, <1>2, <2>1, <2>2, FirstNameLost
  <2>4. <<<<"client_id">>, client.id>> \in ReadQuery(buildAuthorizationUrl)
    BY DEF Authorized
  <2> QED
    BY <2>3, <2>4 DEF buildAuthorizationUrl
<1>4. ReadQuery(endpoint \o <<"?">> \o Encode(params)) = Pairs(params)
  BY <1>1, <1>2, <1>3, QueryArrives
<1> QED
  BY <1>4 DEF Authorized, buildAuthorizationUrl

\* By both methods the provider reads the credentials and the form.
LEMMA PresentedAsConfigured ==
    ASSUME Typed, request = tokenRequest
    PROVE  Presented = Pairs(credentials) \cup Pairs(formValues)
<1>1. CASE client.method = "basic"
  <2> DEFINE id == QueryEscape(client.id)
             secret == QueryEscape(client.secret)
             header == id \o <<":">> \o secret
  <2>1. request.header = header /\ request.body = Encode(formValues)
    BY <1>1 DEF tokenRequest, BasicCredentials
  <2>2. ReadForm(request.body) = Pairs(formValues)
    BY <2>1, FormTypes, FormsArrive
  <2>3. /\ id \in Seq(Chars) /\ secret \in Seq(Chars) /\ ":" \in Chars
        /\ Without(":", id)
        /\ FormDecode(id) = client.id /\ FormDecode(secret) = client.secret
    <3>1. ":" \in Special \ {"%", "+"} /\ ":" \in Chars
      BY Codes DEF Special
    <3> QED
      BY <3>1, ClientTexts, QueryEscapeAppend, EscapedWithout, EscapingUndone
  <2> HIDE DEF id, secret
  <2>4. Before(":", header) = id /\ After(":", header) = secret
    BY <2>3, BeforeFirst
  <2>5. header # <<>>
    <3> DEFINE s == id \o <<":">>
    <3>1. s \in Seq(Chars) /\ Len(s) = Len(id) + 1 /\ Len(id) \in Nat
      BY <2>3, ShortSequences, AppendProperties, LenProperties
    <3> HIDE DEF s
    <3>2. Len(s \o secret) = Len(s) + Len(secret) /\ Len(secret) \in Nat
      BY <2>3, <3>1, ConcatProperties, LenProperties
    <3>3. Len(s \o secret) # 0
      BY <3>1, <3>2
    <3> QED
      BY <3>3, EmptySeq DEF s
  <2>6. ReadBasic(request.header) = Pairs(credentials)
    <3>1. Pairs(credentials) = {<<<<"client_id">>, client.id>>,
                                <<<<"client_secret">>, client.secret>>}
      BY FormTypes
    <3> HIDE DEF header
    <3> QED
      BY <2>1, <2>3, <2>4, <3>1 DEF ReadBasic
  <2> HIDE DEF header
  <2> QED
    BY <2>1, <2>2, <2>5, <2>6 DEF Presented
<1>2. CASE client.method # "basic"
  <2>1. request.header = <<>> /\ request.body = Encode(credentials \o formValues)
    BY <1>2 DEF tokenRequest
  <2>2. ReadForm(request.body) = Pairs(credentials \o formValues)
    <3> DEFINE all == credentials \o formValues
    <3>1. all \in Seq(Entries) /\ all # <<>>
      BY FormTypes
    <3> HIDE DEF all
    <3>2. ReadForm(Encode(all)) = Pairs(all)
      BY <3>1, FormsArrive
    <3> QED
      BY <2>1, <3>2 DEF all
  <2>3. Pairs(credentials \o formValues) = Pairs(credentials) \cup Pairs(formValues)
    BY FormTypes
  <2> QED
    BY <2>1, <2>2, <2>3 DEF Presented
<1> QED
  BY <1>1, <1>2

\* For every client id and redirect URI a provider at an address without a
\* query reads exactly the parameters of the login (buildAuthorizationUrl).
THEOREM ParametersReachProvider == Spec => []ParametersArrive
<1>1. RequestInvariant => ParametersArrive
  <2> SUFFICES ASSUME RequestInvariant, received # None, ReadQuery(endpoint) = {}
               PROVE  received = Pairs(params)
    BY DEF ParametersArrive
  <2>1. endpoint \in Seq(Chars) /\ params \in Seq(Entries) /\ params # <<>>
    BY ClientTexts, ParamsTypes DEF RequestInvariant
  <2>2. Without("?", endpoint)
    BY <2>1, NoQuery
  <2>3. ReadQuery(endpoint \o <<"?">> \o Encode(params)) = Pairs(params)
    BY <2>1, <2>2, QueryArrives
  <2> QED
    BY <2>3 DEF RequestInvariant, buildAuthorizationUrl
<1> QED
  BY <1>1, RequestsAsBuilt, PTL

\* For every client id and secret, by both methods, the provider reads the
\* registered credentials, once (tokenClient.Exchange).
THEOREM CredentialsReachProvider == Spec => []CredentialsArrive
<1>1. RequestInvariant => CredentialsArrive
  <2> SUFFICES ASSUME RequestInvariant, request # None
               PROVE  {p \in Presented : p[1] \in {<<"client_id">>,
                                                   <<"client_secret">>}}
                          = Pairs(credentials)
    BY DEF CredentialsArrive
  <2>1. Presented = Pairs(credentials) \cup Pairs(formValues)
    BY PresentedAsConfigured DEF RequestInvariant
  <2> QED
    BY <2>1, PairNames DEF RequestInvariant
<1> QED
  BY <1>1, RequestsAsBuilt, PTL

\* Both requests of a login name the same redirect URI, for every redirect
\* URI and every authorization endpoint.
THEOREM RedirectUrisAgree == Spec => []RedirectUriAgrees
<1>1. RequestInvariant => RedirectUriAgrees
  <2> SUFFICES ASSUME RequestInvariant, request # None
               PROVE  SameRedirectUri
    BY DEF RedirectUriAgrees
  <2>1. Presented = Pairs(credentials) \cup Pairs(formValues)
    BY PresentedAsConfigured DEF RequestInvariant
  <2>2. received = Pairs(params)
    BY AuthorizedWithoutQuery DEF RequestInvariant
  <2> QED
    BY <2>1, <2>2, PairNames DEF RequestInvariant, SameRedirectUri
<1> QED
  BY <1>1, RequestsAsBuilt, PTL
=============================================================================
