-------------------------- MODULE AgreementProofs --------------------------
(***************************************************************************)
(* The two sides of a connection agree where a message begins and which    *)
(* call an answer is for: Aligned and Matched of Conversation.             *)
(***************************************************************************)
EXTENDS ConversationProofs

Cache == "esd_sample_cache"
Confirm == "esd_confirm_sample_cache"

----------------------------------------------------------------------------
(* A chain of messages.                                                    *)

\* The size of the message that piece p is of.
Msg(c, p) == Total(c[p.call])

\* What comes after the last piece p of a message is the first piece r of a later
\* one; the data of a sample come after the request they belong to.
Follows(c, p, r) ==
    r.pos = 1 /\ r.call > p.call /\ (c[r.call] = Confirm <=> c[p.call] = Cache)

\* Every piece has the pieces of its message on either side as far as q goes.
Chain(c, q) ==
    /\ \A i \in DOMAIN q : q[i].pos <= Msg(c, q[i])
    /\ \A i \in DOMAIN q, j \in DOMAIN q :
         q[i].pos + j - i \in 1..Msg(c, q[i]) =>
           q[j].call = q[i].call /\ q[j].pos = q[i].pos + j - i
    /\ \A i \in DOMAIN q : i < Len(q) /\ q[i].pos = Msg(c, q[i]) =>
         Follows(c, q[i], q[i + 1])

\* Pieces of calls that have been made.
MadeBy(c, q) == q \in Seq(Piece) /\ \A i \in DOMAIN q : q[i].call <= Len(c)

LEMMA MadePiece ==
  ASSUME NEW c \in Seq(DOMAIN Steps), NEW q, MadeBy(c, q), NEW i \in DOMAIN q
  PROVE  /\ q[i].call \in DOMAIN c /\ q[i].call \in Nat \ {0} /\ q[i].pos \in Nat \ {0}
         /\ c[q[i].call] \in DOMAIN Steps /\ Msg(c, q[i]) \in Nat \ {0}
  <1>1. q[i].call \in Nat \ {0} /\ q[i].pos \in Nat \ {0} /\ q[i].call <= Len(c)
    BY PieceTyped DEF MadeBy
  <1>2. q[i].call \in DOMAIN c
    BY <1>1
  <1>3. c[q[i].call] \in DOMAIN Steps
    BY <1>2
  <1> QED  BY <1>1, <1>2, <1>3, Totals DEF Msg

\* Another call does not change it.
LEMMA ChainCall ==
  ASSUME NEW c \in Seq(DOMAIN Steps), NEW a \in DOMAIN Steps, NEW q, MadeBy(c, q),
         Chain(c, q)
  PROVE  MadeBy(Append(c, a), q) /\ Chain(Append(c, a), q)
  <1> DEFINE d == Append(c, a)
  <1>1. Len(d) = Len(c) + 1 /\ \A n \in DOMAIN c : d[n] = c[n]
    OBVIOUS
  <1> HIDE DEF d
  <1>2. \A i \in DOMAIN q : q[i].call \in DOMAIN c /\ q[i].call \in Nat
    BY MadePiece
  <1>3. MadeBy(d, q)
    BY <1>1, <1>2 DEF MadeBy
  <1>4. \A i \in DOMAIN q : Msg(d, q[i]) = Msg(c, q[i])
    BY <1>1, <1>2 DEF Msg
  <1>5. \A i, j \in DOMAIN q : Follows(c, q[i], q[j]) => Follows(d, q[i], q[j])
    BY <1>1, <1>2 DEF Follows
  <1>6. \A i \in DOMAIN q : i < Len(q) => i + 1 \in DOMAIN q
    BY DEF MadeBy
  <1>7. Chain(d, q)
    BY <1>4, <1>5, <1>6 DEF Chain
  <1> QED  BY <1>3, <1>7 DEF d

\* What is left when pieces at the front have been read.
LEMMA ChainRest ==
  ASSUME NEW c \in Seq(DOMAIN Steps), NEW q, MadeBy(c, q), Chain(c, q), NEW k \in 0..Len(q)
  PROVE  LET x == SubSeq(q, k + 1, Len(q)) IN MadeBy(c, x) /\ Chain(c, x)
  <1> DEFINE x == SubSeq(q, k + 1, Len(q))
  <1>1. q \in Seq(Piece) /\ Len(q) \in Nat /\ DOMAIN q = 1..Len(q)
    BY DEF MadeBy
  <1>2. x \in Seq(Piece) /\ Len(x) = Len(q) - k /\ \A i \in 1..(Len(q) - k) : x[i] = q[k + i]
    BY <1>1, Rest
  <1>3. DOMAIN x = 1..(Len(q) - k)
    BY <1>2
  <1> HIDE DEF x
  <1>4. \A i \in DOMAIN x : k + i \in DOMAIN q /\ x[i] = q[k + i] /\ i \in Nat
    BY <1>1, <1>2, <1>3
  <1>5. MadeBy(c, x)
    BY <1>2, <1>4 DEF MadeBy
  <1>6. \A i \in DOMAIN x : x[i].pos <= Msg(c, x[i])
    BY <1>4 DEF Chain
  <1>7. ASSUME NEW i \in DOMAIN x, NEW j \in DOMAIN x, x[i].pos + j - i \in 1..Msg(c, x[i])
        PROVE  x[j].call = x[i].call /\ x[j].pos = x[i].pos + j - i
    <2>1. x[i].pos \in Nat
      BY <1>5, MadePiece
    <2>2. x[i].pos + j - i = x[i].pos + (k + j) - (k + i)
      BY <1>4, <2>1
    <2> DEFINE I == k + i
               J == k + j
    <2>3. I \in DOMAIN q /\ J \in DOMAIN q /\ x[i] = q[I] /\ x[j] = q[J]
      BY <1>4
    <2>4. x[i].pos + j - i = x[i].pos + J - I
      BY <2>2
    <2> HIDE DEF I, J
    <2> QED  BY <1>7, <2>3, <2>4 DEF Chain
  <1>8. ASSUME NEW i \in DOMAIN x, i < Len(x), x[i].pos = Msg(c, x[i])
        PROVE  Follows(c, x[i], x[i + 1])
    <2>1. i + 1 \in DOMAIN x /\ k + i < Len(q) /\ k + (i + 1) = (k + i) + 1
      BY <1>1, <1>2, <1>3, <1>8
    <2> QED  BY <1>4, <1>8, <2>1 DEF Chain
  <1>9. Chain(c, x)
    BY <1>6, <1>7, <1>8 DEF Chain
  <1> QED  BY <1>5, <1>9 DEF x

\* A message at the front.
LEMMA ChainFront ==
  ASSUME NEW c \in Seq(DOMAIN Steps), NEW q, MadeBy(c, q), Chain(c, q), q # <<>>,
         q[1].pos = 1, NEW k \in 1..Len(q), k <= Msg(c, q[1])
  PROVE  /\ SubSeq(q, 1, k) = Pieces(q[1].call, 1, k)
         /\ Owner(SubSeq(q, 1, k)) = q[1].call
         /\ q[k].call = q[1].call /\ q[k].pos = k
  <1> DEFINE x == SubSeq(q, 1, k)
             n == q[1].call
             y == Pieces(n, 1, k)
  <1>1. q \in Seq(Piece) /\ Len(q) \in Nat /\ DOMAIN q = 1..Len(q) /\ 1 \in DOMAIN q
    BY DEF MadeBy
  <1>2. n \in Nat \ {0} /\ Msg(c, q[1]) \in Nat
    BY <1>1, MadePiece
  <1>3. k \in Nat /\ k \in 0..Len(q) /\ k \in DOMAIN q
    BY <1>1
  <1>4. x \in Seq(Piece) /\ Len(x) = k /\ \A i \in 1..k : x[i] = q[i]
    BY <1>1, <1>3, Front
  <1>5. ASSUME NEW i \in 1..k PROVE q[i].call = n /\ q[i].pos = i /\ i \in DOMAIN q
    <2>1. i \in DOMAIN q /\ q[1].pos + i - 1 = i /\ i \in 1..Msg(c, q[1])
      BY <1>1, <1>2, <1>3
    <2>2. q[i].call = q[1].call /\ q[i].pos = q[1].pos + i - 1
      BY <1>1, <2>1 DEF Chain
    <2> QED  BY <2>1, <2>2
  <1>6. /\ y \in Seq(Piece) /\ Len(y) = k
        /\ \A i \in 1..k : y[i].call = n /\ y[i].pos = 1 + i - 1
    <2>1. 1 \in Nat \ {0} /\ n \in Nat \ {0} /\ k \in Nat
      BY <1>2, <1>3
    <2> HIDE DEF n
    <2> QED  BY <2>1 DEF Pieces, Piece
  <1> HIDE DEF x, y, n
  <1>7. x = y
    <2>1. ASSUME NEW i \in 1..k PROVE x[i] = y[i]
      <3>1. x[i] \in Piece /\ y[i] \in Piece
        BY <1>3, <1>4, <1>6
      <3>2. x[i].call = y[i].call /\ x[i].pos = y[i].pos
        BY <1>3, <1>4, <1>5, <1>6
      <3> QED  BY <3>1, <3>2 DEF Piece
    <2>2. x \in [1..k -> Piece] /\ y \in [1..k -> Piece]
      BY <1>4, <1>6
    <2> QED  BY <2>1, <2>2
  <1>8. x # <<>> /\ x[1].call = n /\ Len(x) = k
    BY <1>3, <1>4 DEF n
  <1>9. Owner(x) = n
    BY <1>7, <1>8 DEF Owner, y
  <1>10. q[k].call = n /\ q[k].pos = k
    BY <1>3, <1>5
  <1> QED  BY <1>7, <1>9, <1>10 DEF x, y, n

\* What comes after the message at the front.
LEMMA ChainNext ==
  ASSUME NEW c \in Seq(DOMAIN Steps), NEW q, MadeBy(c, q), Chain(c, q), q # <<>>,
         q[1].pos = 1, NEW k \in 1..Len(q), k = Msg(c, q[1]), k < Len(q)
  PROVE  /\ q[k + 1].pos = 1 /\ q[k + 1].call > q[1].call
         /\ c[q[k + 1].call] = Confirm <=> c[q[1].call] = Cache
  <1>1. q[k].call = q[1].call /\ q[k].pos = k
    <2>1. k <= Msg(c, q[1])
      BY DEF MadeBy
    <2> QED  BY <2>1, ChainFront
  <1>2. Msg(c, q[k]) = k /\ k \in DOMAIN q
    BY <1>1 DEF Msg, MadeBy
  <1>3. Follows(c, q[k], q[k + 1])
    BY <1>1, <1>2 DEF Chain
  <1> QED  BY <1>1, <1>3 DEF Follows

\* The last message is there to its end.
Whole(c, q) == q = <<>> \/ q[Len(q)].pos = Msg(c, q[Len(q)])

LEMMA ChainWhole ==
  ASSUME NEW c \in Seq(DOMAIN Steps), NEW q, MadeBy(c, q), Chain(c, q), q # <<>>,
         q[1].pos = 1, Whole(c, q)
  PROVE  Len(q) >= Msg(c, q[1])
  <1>1. q \in Seq(Piece) /\ Len(q) \in Nat \ {0} /\ DOMAIN q = 1..Len(q) /\ 1 \in DOMAIN q
    BY DEF MadeBy
  <1>2. Msg(c, q[1]) \in Nat
    BY <1>1, MadePiece
  <1> SUFFICES ASSUME Len(q) < Msg(c, q[1]) PROVE FALSE
    BY <1>1, <1>2
  <1>3. q[Len(q)].call = q[1].call /\ q[Len(q)].pos = Len(q)
    <2> DEFINE k == Len(q)
    <2>1. k \in 1..Len(q) /\ k <= Msg(c, q[1])
      BY <1>1, <1>2
    <2> HIDE DEF k
    <2>2. q[k].call = q[1].call /\ q[k].pos = k
      BY <2>1, ChainFront
    <2> QED  BY <2>2 DEF k
  <1> QED  BY <1>1, <1>2, <1>3 DEF Whole, Msg

\* Position b of the message of call n is what comes next.
Joins(c, q, n, b) ==
    IF Whole(c, q)
    THEN b = 1 /\ (q # <<>> => /\ q[Len(q)].call < n
                               /\ c[n] = Confirm <=> c[q[Len(q)].call] = Cache)
    ELSE q[Len(q)].call = n /\ q[Len(q)].pos = b - 1

\* A field is appended: to the front part of the same message, or after a whole
\* message as the first of a later one.
LEMMA ChainField ==
  ASSUME NEW c \in Seq(DOMAIN Steps), NEW q, MadeBy(c, q), Chain(c, q),
         NEW n \in DOMAIN c, NEW b \in Nat \ {0}, NEW k \in Nat,
         b + k - 1 <= Total(c[n]), Joins(c, q, n, b)
  PROVE  LET x == q \o Pieces(n, b, k) IN MadeBy(c, x) /\ Chain(c, x)
  <1> DEFINE y == Pieces(n, b, k)
             x == q \o y
             L == Len(q)
  <1>1. q \in Seq(Piece) /\ L \in Nat /\ DOMAIN q = 1..L
    BY DEF MadeBy
  <1>2. n \in Nat \ {0} /\ n <= Len(c) /\ c[n] \in DOMAIN Steps
    OBVIOUS
  <1>3. /\ y \in Seq(Piece) /\ Len(y) = k
        /\ \A i \in 1..k : y[i].call = n /\ y[i].pos = b + i - 1
    BY <1>2 DEF Pieces, Piece
  <1> HIDE DEF y
  <1>4. /\ x \in Seq(Piece) /\ Len(x) = L + k /\ DOMAIN x = 1..(L + k)
        /\ \A i \in 1..(L + k) : x[i] = IF i <= L THEN q[i] ELSE y[i - L]
    <2>1. x \in Seq(Piece) /\ Len(x) = L + k
      <3>1. q \in Seq(Piece) /\ y \in Seq(Piece)
        BY <1>1, <1>3
      <3>2. x \in Seq(Piece) /\ Len(x) = Len(q) + Len(y)
        BY <3>1, Concat, Zenon
      <3> QED  BY <1>3, <3>2
    <2>2. \A i \in 1..(L + k) : x[i] = IF i <= L THEN q[i] ELSE y[i - L]
      BY <1>1, <1>3
    <2> QED  BY <1>1, <2>1, <2>2
  <1> DEFINE T == Total(c[n])
  <1>5. T \in Nat
    BY <1>2, Totals
  <1> HIDE DEF x, T
  <1>6. ASSUME NEW i \in DOMAIN x, i <= L
        PROVE  /\ x[i] = q[i] /\ i \in DOMAIN q /\ i \in Nat
               /\ x[i].call \in Nat /\ x[i].pos \in Nat \ {0} /\ x[i].call <= Len(c)
               /\ Msg(c, x[i]) \in Nat
    <2>1. x[i] = q[i] /\ i \in DOMAIN q /\ i \in Nat
      BY <1>1, <1>4, <1>6
    <2> QED  BY <2>1, MadePiece DEF MadeBy
  <1>7. ASSUME NEW i \in DOMAIN x, i > L
        PROVE  /\ x[i].call = n /\ x[i].pos = b + (i - L) - 1 /\ Msg(c, x[i]) = T
               /\ i \in Nat /\ x[i].pos \in Nat \ {0}
    <2>1. i - L \in 1..k /\ x[i] = y[i - L] /\ i \in Nat
      BY <1>1, <1>4, <1>7
    <2>2. x[i].call = n /\ x[i].pos = b + (i - L) - 1
      BY <1>3, <2>1
    <2> QED  BY <1>1, <2>1, <2>2 DEF Msg, T
  <1>8. MadeBy(c, x)
    <2>1. ASSUME NEW i \in DOMAIN x PROVE x[i].call <= Len(c)
      <3>1. CASE i <= L
        BY <1>6, <3>1
      <3>2. CASE i > L
        BY <1>2, <1>7, <3>2
      <3> QED  BY <1>1, <1>4, <3>1, <3>2
    <2> QED  BY <1>4, <2>1 DEF MadeBy
  <1>9. ASSUME NEW i \in DOMAIN x PROVE x[i].pos <= Msg(c, x[i])
    <2>1. CASE i <= L
      BY <1>6, <2>1 DEF Chain
    <2>2. CASE i > L
      BY <1>1, <1>4, <1>5, <1>7, <2>2 DEF T
    <2> QED  BY <1>1, <1>4, <2>1, <2>2
  <1>10. \A i \in DOMAIN x : i \in Nat /\ (i <= L \/ i > L)
    BY <1>1, <1>4
  \* The last piece of q.
  <1>11. ASSUME q # <<>>
         PROVE  /\ L \in DOMAIN q /\ q[L].pos \in Nat /\ Msg(c, q[L]) \in Nat
                /\ q[L].pos <= Msg(c, q[L])
    <2>1. L \in DOMAIN q
      BY <1>1, <1>11
    <2> QED  BY <2>1, MadePiece DEF Chain
  <1> HIDE DEF L
  <1>12. ASSUME NEW i \in DOMAIN x, NEW j \in DOMAIN x,
                x[i].pos + j - i \in 1..Msg(c, x[i])
         PROVE  x[j].call = x[i].call /\ x[j].pos = x[i].pos + j - i
    <2>1. CASE i <= L /\ j <= L
      BY <1>6, <1>12, <2>1 DEF Chain
    <2>2. CASE i > L /\ j > L
      <3>1. x[i].call = n /\ x[i].pos = b + (i - L) - 1 /\ i \in Nat
        BY <1>7, <2>2
      <3>2. x[j].call = n /\ x[j].pos = b + (j - L) - 1 /\ j \in Nat
        BY <1>7, <2>2
      <3>3. b \in Nat /\ L \in Nat
        BY <1>1
      <3>4. b + (j - L) - 1 = (b + (i - L) - 1) + j - i
        BY <3>1, <3>2, <3>3
      <3> QED  BY <3>1, <3>2, <3>4
    <2>3. CASE i <= L /\ j > L
      <3> DEFINE p == x[i].pos
      <3>1. /\ x[i] = q[i] /\ i \in DOMAIN q /\ p \in Nat \ {0} /\ i \in Nat
            /\ Msg(c, x[i]) \in Nat
        BY <1>6, <2>3
      <3> HIDE DEF p
      <3> DEFINE M == Msg(c, x[i])
      <3>2. p + L - i \in 1..M /\ q # <<>> /\ p + L - i < M
        <4>1. p + j - i \in 1..M /\ M \in Nat /\ j \in Nat
          BY <1>10, <1>12, <3>1 DEF p
        <4> HIDE DEF M
        <4>2. p + L - i \in 1..M /\ p + L - i < M
          BY <1>1, <2>3, <3>1, <4>1
        <4> QED  BY <3>1, <4>2
      <3>3. q[L].call = x[i].call /\ q[L].pos = p + L - i
        BY <1>11, <3>1, <3>2 DEF Chain, p
      <3>4. Msg(c, q[L]) = Msg(c, x[i])
        BY <3>3 DEF Msg
      <3>5. q[L].pos < Msg(c, q[L])
        BY <3>2, <3>3, <3>4
      <3>6. ~ Whole(c, q)
        BY <1>11, <3>2, <3>5 DEF Whole, L
      <3>7. q[L].call = n /\ q[L].pos = b - 1
        BY <3>6 DEF L, Joins
      <3>8. x[j].call = n /\ x[j].pos = b + (j - L) - 1
        BY <1>7, <2>3
      <3>9. b - 1 = p + L - i /\ x[j].pos = b + (j - L) - 1 /\ j \in Nat
        BY <1>10, <3>3, <3>7, <3>8
      <3>10. x[j].pos = p + j - i
        <4>1. /\ b \in Nat /\ L \in Nat /\ p \in Nat /\ i \in Nat /\ j \in Nat
              /\ b - 1 = p + L - i
          BY <1>1, <3>1, <3>9
        <4>2. b + (j - L) - 1 = p + j - i
          BY <4>1, SMTT(60)
        <4> QED  BY <3>9, <4>2
      <3> QED  BY <3>3, <3>7, <3>8, <3>10 DEF p
    <2>4. CASE i > L /\ j <= L
      <3>1. /\ x[i].call = n /\ x[i].pos = b + (i - L) - 1 /\ Msg(c, x[i]) = T /\ i \in Nat
            /\ x[j] = q[j] /\ j \in DOMAIN q /\ j \in Nat
        BY <1>6, <1>7, <2>4
      <3>2. x[i].pos + j - i = b - 1 + j - L
        BY <1>1, <3>1
      <3>3. b # 1 /\ q # <<>>
        BY <1>1, <1>12, <2>4, <3>1, <3>2 DEF Joins
      <3>4. q[L].call = n /\ q[L].pos = b - 1
        BY <3>3 DEF L, Joins
      <3>5. q[L].pos + j - L \in 1..Msg(c, q[L])
        BY <1>12, <3>1, <3>2, <3>4 DEF Msg, T
      <3>6. q[j].call = q[L].call /\ q[j].pos = q[L].pos + j - L
        BY <1>11, <3>1, <3>3, <3>5 DEF Chain
      <3> QED  BY <3>1, <3>2, <3>4, <3>6
    <2> QED  BY <1>10, <2>1, <2>2, <2>3, <2>4
  <1>13. ASSUME NEW i \in DOMAIN x, i < Len(x), x[i].pos = Msg(c, x[i])
         PROVE  Follows(c, x[i], x[i + 1])
    <2>1. i \in Nat /\ i + 1 \in DOMAIN x /\ i < L + k /\ i + 1 \in Nat
      <3>1. i \in 1..(L + k) /\ i < L + k /\ DOMAIN x = 1..(L + k)
        BY <1>4, <1>13
      <3> QED  BY <1>1, <3>1
    <2>2. CASE i < L
      <3>1. x[i] = q[i] /\ x[i + 1] = q[i + 1] /\ i \in DOMAIN q
        BY <1>1, <1>6, <2>1, <2>2
      <3> QED  BY <1>13, <2>2, <3>1 DEF Chain, L
    <2>3. CASE i = L
      <3>1. x[L] = q[L] /\ q # <<>>
        BY <1>1, <1>6, <1>10, <2>3
      <3>2. Whole(c, q)
        BY <1>13, <2>3, <3>1 DEF Whole, L
      <3>3. b = 1 /\ q[L].call < n /\ (c[n] = Confirm <=> c[q[L].call] = Cache)
        BY <3>1, <3>2 DEF L, Joins
      <3>4. x[L + 1].call = n /\ x[L + 1].pos = 1
        <4>1. L + 1 \in DOMAIN x /\ L + 1 > L
          BY <1>1, <2>1, <2>3
        <4>2. x[L + 1].call = n /\ x[L + 1].pos = b + ((L + 1) - L) - 1
          BY <1>7, <4>1
        <4> QED  BY <1>1, <3>3, <4>2
      <3>5. q[L].call \in Nat
        BY <1>11, <3>1, MadePiece
      <3> QED  BY <1>2, <2>3, <3>1, <3>3, <3>4, <3>5 DEF Follows
    <2>4. CASE i > L
      <3>1. x[i].pos = b + (i - L) - 1 /\ Msg(c, x[i]) = T
        BY <1>7, <2>4
      <3>2. b + (i - L) - 1 = T /\ b + k - 1 <= T
        BY <1>13, <3>1 DEF T
      <3> QED  BY <1>1, <1>5, <2>1, <2>4, <3>2
    <2> QED  BY <1>1, <2>1, <2>2, <2>3, <2>4
  <1>14. Chain(c, x)
    BY <1>9, <1>12, <1>13 DEF Chain
  <1> QED  BY <1>8, <1>14 DEF x, y

\* A field fits in the message, and is the end of it when no other follows.
LEMMA FieldFits ==
  ASSUME NEW a \in DOMAIN Steps, NEW s \in DOMAIN Steps[a], Steps[a][s].op = "write"
  PROVE  /\ Written(a, s) \in Nat /\ Steps[a][s].size \in Nat \ {0}
         /\ Written(a, s + 1) = Written(a, s) + Steps[a][s].size
         /\ Written(a, s + 1) <= Total(a)
         /\ s + 1 \in DOMAIN Steps[a] /\ Steps[a][s + 1].op = "write" =>
              Written(a, s + 1) < Total(a)
         /\ s + 1 \notin DOMAIN Steps[a] \/ Steps[a][s + 1].op # "write" =>
              Written(a, s + 1) = Total(a)
  <1> DEFINE L == Len(Steps[a])
             U(t) == UNION {FieldPieces(a, i) : i \in Fields(a, t)}
  <1>1. L \in Nat /\ DOMAIN Steps[a] = 1..L /\ s \in 1..L
    BY StepTyped
  <1>2. ASSUME NEW t \in 1..(L + 1)
        PROVE  Written(a, t) \in Nat /\ Total(a) \in Nat /\ Written(a, t) <= Total(a)
    <2>1. L + 1 \in 1..(L + 1)
      BY <1>1
    <2>2. /\ IsFiniteSet(U(t)) /\ Written(a, t) = Cardinality(U(t)) /\ Written(a, t) \in Nat
          /\ IsFiniteSet(U(L + 1)) /\ Total(a) = Cardinality(U(L + 1)) /\ Total(a) \in Nat
      BY <2>1, WrittenFinite DEF Total
    <2>3. Fields(a, t) \subseteq Fields(a, L + 1)
      BY <1>1 DEF Fields
    <2>4. U(t) \subseteq U(L + 1)
      BY <2>3
    <2> HIDE DEF U
    <2>5. Cardinality(U(t)) <= Cardinality(U(L + 1))
      BY <2>2, <2>4, FS_Subset
    <2> QED  BY <2>2, <2>5
  <1>3. s \in 1..(L + 1) /\ s + 1 \in 1..(L + 1) /\ Steps[a][s].size \in Nat \ {0}
    BY <1>1, StepTyped
  <1>4. Written(a, s + 1) = Written(a, s) + Steps[a][s].size
    BY WrittenNext
  <1>5. ASSUME s + 1 \in DOMAIN Steps[a], Steps[a][s + 1].op = "write"
        PROVE  Written(a, s + 1) < Total(a)
    <2> DEFINE t == s + 1
    <2>1. t \in DOMAIN Steps[a] /\ t + 1 \in 1..(L + 1) /\ t \in 1..(L + 1)
      BY <1>1, <1>5
    <2> HIDE DEF t
    <2>2. Written(a, t + 1) = Written(a, t) + Steps[a][t].size
      BY <1>5, <2>1, WrittenNext DEF t
    <2>3. Steps[a][t].size \in Nat \ {0}
      BY <2>1, StepTyped
    <2>4. Written(a, t) \in Nat /\ Written(a, t + 1) <= Total(a) /\ Total(a) \in Nat
      BY <1>2, <2>1
    <2> QED  BY <2>2, <2>3, <2>4 DEF t
  <1>6. ASSUME s + 1 \notin DOMAIN Steps[a] \/ Steps[a][s + 1].op # "write"
        PROVE  Written(a, s + 1) = Total(a)
    <2>1. CASE s + 1 \in DOMAIN Steps[a]
      <3>1. Steps[a][s + 1].op = "read"
        BY <1>6, <2>1, StepTyped
      <3> QED  BY <2>1, <3>1, WrittenAll
    <2>2. CASE s + 1 \notin DOMAIN Steps[a]
      <3>1. s + 1 = L + 1
        BY <1>1, <2>2
      <3> QED  BY <3>1 DEF Total
    <2> QED  BY <2>1, <2>2
  <1> QED  BY <1>2, <1>3, <1>4, <1>5, <1>6

----------------------------------------------------------------------------
(* The connection.                                                         *)

\* What the daemon has read of a request and what is still on the way.
Queue == sv.got \o sent

Live == {"NEXT_REQUEST", "NEEDS_REQDATA", "CACHING_SAMPLE"}

\* What the daemon is waiting for is what comes first: a request, the rest of one
\* with as many parameters as it expects, or the data of a sample.  It has nothing
\* else to do before the first call has been written.
HeadOK(q) ==
    /\ q # <<>> => q[1].pos = 1
    /\ Writing /\ Now = 1 => sv.state = "NEEDS_REQDATA" /\ sv.request = "CONNECT"
    /\ sv.state = "NEXT_REQUEST" /\ q # <<>> => calls[q[1].call] \in DOMAIN Requests
    /\ sv.state = "CACHING_SAMPLE" =>
         sv.length = 0 /\ (q # <<>> => calls[q[1].call] = Confirm)
    /\ sv.state = "NEEDS_REQDATA" =>
         IF sv.request = "CONNECT"
         THEN /\ Len(sv.got) = sv.length /\ sv.length < data_length["CONNECT"]
              /\ Now = 1 /\ back = <<>> /\ (step = 0 => ~ open)
         ELSE /\ sv.length \in Nat /\ Len(sv.got) = IntSize + sv.length
              /\ calls[q[1].call] \in DOMAIN Requests
              /\ sv.request = Requests[calls[q[1].call]]
              /\ \/ data_length[sv.request] < 0 /\ sv.length = 0
                 \/ sv.length < data_length[sv.request]

\* The daemon is to get the data of a sample next.
Uploads(q) == IF q = <<>> THEN sv.state = "CACHING_SAMPLE" ELSE calls[q[Len(q)].call] = Cache

\* Where the client is when all it has sent are whole messages.
Boundary(upload) ==
    IF upload
    THEN \/ api = Cache /\ (Reading \/ (step = 0 /\ results[Now] # Fail))
         \/ api = Confirm /\ step = 1
    ELSE /\ Writing => step = 1 /\ api # Confirm
         /\ api = Cache => Writing \/ (step = 0 /\ results[Now] = Fail)

TailOK(q) ==
    IF Whole(calls, q)
    THEN Boundary(Uploads(q)) /\ (Writing /\ q # <<>> => q[Len(q)].call < Now)
    ELSE Writing /\ step > 1 /\ q[Len(q)].call = Now /\ Start = q[Len(q)].pos + 1

StreamOK == Chain(calls, Queue) /\ HeadOK(Queue) /\ TailOK(Queue)

StreamInv == sv.state \in Live /\ ~ Garbled => StreamOK

LEMMA SpecialSteps ==
  /\ {Cache, Confirm, "esd_send_auth"} \subseteq DOMAIN Steps
  /\ DOMAIN Steps = DOMAIN Requests \cup {Confirm, "esd_send_auth"}
  /\ Confirm \notin DOMAIN Requests /\ "esd_send_auth" \notin DOMAIN Requests
  /\ \A a \in DOMAIN Requests : Requests[a] = "SAMPLE_CACHE" <=> a = Cache
  /\ \A s \in DOMAIN Steps[Cache] : Steps[Cache][s].op = "read" =>
       s + 1 \notin DOMAIN Steps[Cache] /\ Steps[Cache][s].fail = 0 /\ Steps[Cache][s].more = 0
  /\ \A s \in DOMAIN Steps[Cache] : Steps[Cache][s].op = "write" =>
       s + 1 \in DOMAIN Steps[Cache]
  /\ \A s \in DOMAIN Steps[Confirm] : Steps[Confirm][s].op = "write" => s = 1
  /\ Len(Steps["esd_send_auth"]) = 3
  /\ \A s \in DOMAIN Steps["esd_send_auth"] :
       /\ Steps["esd_send_auth"][s].fail = 0
       /\ Steps["esd_send_auth"][s].op = "write" => s + 1 \in DOMAIN Steps["esd_send_auth"]
  <1>1. /\ {Cache, Confirm, "esd_send_auth"} \subseteq DOMAIN Steps
        /\ DOMAIN Steps = DOMAIN Requests \cup {Confirm, "esd_send_auth"}
        /\ Confirm \notin DOMAIN Requests /\ "esd_send_auth" \notin DOMAIN Requests
    BY DEF Steps, Requests, Cache, Confirm
  <1>2. \A a \in DOMAIN Requests : Requests[a] = "SAMPLE_CACHE" <=> a = Cache
    BY DEF Requests, Cache
  <1>3. \A s \in DOMAIN esd_sample_cache : esd_sample_cache[s].op = "read" =>
          /\ s + 1 \notin DOMAIN esd_sample_cache
          /\ esd_sample_cache[s].fail = 0 /\ esd_sample_cache[s].more = 0
    BY DEF esd_sample_cache, W, R
  <1>4. \A s \in DOMAIN esd_sample_cache : esd_sample_cache[s].op = "write" =>
          s + 1 \in DOMAIN esd_sample_cache
    BY DEF esd_sample_cache, W, R
  <1>5. \A s \in DOMAIN esd_confirm_sample_cache :
          esd_confirm_sample_cache[s].op = "write" => s = 1
    BY DEF esd_confirm_sample_cache, W, R
  <1>6. /\ Len(esd_send_auth) = 3
        /\ \A s \in DOMAIN esd_send_auth :
             /\ esd_send_auth[s].fail = 0
             /\ esd_send_auth[s].op = "write" => s + 1 \in DOMAIN esd_send_auth
    BY DEF esd_send_auth, W, R
  <1>7. /\ Steps[Cache] = esd_sample_cache /\ Steps[Confirm] = esd_confirm_sample_cache
        /\ Steps["esd_send_auth"] = esd_send_auth
    BY DEF Steps, Cache, Confirm
  <1> QED  BY <1>1, <1>2, <1>3, <1>4, <1>5, <1>6, <1>7

\* Once a call reads it goes on reading.
LEMMA ReadsOn ==
  ASSUME NEW a \in DOMAIN Steps, NEW s \in DOMAIN Steps[a], Steps[a][s].op = "read"
  PROVE  /\ s + 1 \in DOMAIN Steps[a] => Steps[a][s + 1].op = "read"
         /\ Steps[a][s].more # 0 =>
              Steps[a][s].more \in DOMAIN Steps[a] /\ Steps[a][Steps[a][s].more].op = "read"
         /\ Steps[a][s].fail # 0 =>
              Steps[a][s].fail \in DOMAIN Steps[a] /\ Steps[a][Steps[a][s].fail].op = "read"
         /\ Steps[a][s].size = IntSize
  <1> DEFINE x == Steps[a]
  <1>1. ShapeOK(x) /\ DOMAIN x = 1..Len(x) /\ Len(x) \in Nat /\ x[s].op = "read"
    BY StepsOK, StepTyped
  <1>2. x[s].fail \in Nat /\ x[s].more \in Nat
    BY StepTyped
  <1> HIDE DEF x
  <1>3. /\ \A t \in DOMAIN x : s <= t => x[t].op = "read"
        /\ x[s].fail = 0 \/ (x[s].fail > s /\ x[s].fail <= Len(x))
        /\ x[s].more # 0 => x[s].more \in 1..Len(x) /\ x[x[s].more].op = "read"
        /\ x[s].size = IntSize
    BY <1>1 DEF ShapeOK, x
  <1>4. x[s].fail # 0 => x[s].fail \in DOMAIN x /\ s <= x[s].fail
    BY <1>1, <1>2, <1>3 DEF x
  <1>5. s + 1 \in DOMAIN x => s <= s + 1
    BY <1>1 DEF x
  <1> QED  BY <1>1, <1>3, <1>4, <1>5 DEF x

LEMMA QueueMade ==
  ASSUME Types
  PROVE  /\ calls \in Seq(DOMAIN Steps) /\ Len(calls) = Now /\ Now \in DOMAIN calls
         /\ api = calls[Now] /\ api \in DOMAIN Steps
         /\ sv.got \in Seq(Piece) /\ sent \in Seq(Piece)
         /\ MadeBy(calls, Queue) /\ Len(Queue) = Len(sv.got) + Len(sent)
  <1>1. /\ calls \in Seq(DOMAIN Steps) /\ Len(calls) = Now /\ Now \in DOMAIN calls
        /\ api = calls[Now] /\ api \in DOMAIN Steps
    BY ApiTyped DEF Types, CallsOK, Now, api
  <1> DEFINE g == sv.got
             N == Now
  <1>2. g \in Seq(Piece) /\ sent \in Seq(Piece)
    BY DEF Types, WireOK, SvType
  <1>3. (\A i \in DOMAIN g : g[i].call <= N) /\ (\A i \in DOMAIN sent : sent[i].call <= N)
    BY DEF Types, WireOK
  <1> HIDE DEF g, N
  <1>4. /\ g \o sent \in Seq(Piece) /\ Len(g \o sent) = Len(g) + Len(sent)
        /\ \A i \in DOMAIN (g \o sent) : (g \o sent)[i].call <= N
    BY <1>2, <1>3, ConcatCalls, Zenon
  <1>5. MadeBy(calls, Queue) /\ Len(Queue) = Len(sv.got) + Len(sent)
    BY <1>1, <1>4 DEF Queue, MadeBy, g, N
  <1> QED  BY <1>1, <1>2, <1>5 DEF g

LEMMA InitStream == Init => StreamInv
  <1> SUFFICES ASSUME Init PROVE StreamOK
    BY DEF StreamInv
  <1>1. Queue = <<>> /\ sv.got = <<>> /\ Now = 1 /\ api = "esd_send_auth" /\ back = <<>>
    BY DEF Init, Queue, Now, api
  <1>2. Chain(calls, Queue)
    BY <1>1 DEF Chain
  <1>3. HeadOK(Queue)
    <2>1. 0 < data_length["CONNECT"]
      BY ProtocolAssumption DEF data_length
    <2> QED  BY <1>1, <2>1 DEF HeadOK, Init
  <1>4. TailOK(Queue)
    BY <1>1 DEF TailOK, Whole, Uploads, Boundary, Init, Cache, Confirm
  <1> QED  BY <1>2, <1>3, <1>4 DEF StreamOK

\* What has gone wrong stays so.
LEMMA GarbledStays ==
  ASSUME fault \subseteq fault', Garbled,
         \A n \in DOMAIN results : /\ n \in DOMAIN results' /\ results'[n] = results[n]
                                   /\ calls'[n] = calls[n]
  PROVE  Garbled'
  BY DEF Garbled

LEMMA SuffersGarbled ==
  ASSUME NEW f \in {"torn", "split", "keyless"}, Suffers(f)
  PROVE  Garbled' /\ fault \subseteq fault'
  BY DEF Suffers, Garbled

LEMMA SplitsGrow ==
  ASSUME NEW k, NEW size, NEW wire, Splits(k, size, wire)
  PROVE  fault \subseteq fault' /\ (k # size => Garbled')
         /\ (k = size => UNCHANGED fault)
  BY SuffersGarbled DEF Splits, Garbled

LEMMA ResultsGrow ==
  ASSUME Types, (\E r : results' = Append(results, r)) \/ results' = results
  PROVE  \A n \in DOMAIN results : n \in DOMAIN results' /\ results'[n] = results[n]
  BY DEF Types, ClientOK

LEMMA FailedGrows ==
  ASSUME Types, Failed \/ \E s, read : GoOn(s, read)
  PROVE  \A n \in DOMAIN results : n \in DOMAIN results' /\ results'[n] = results[n]
  BY ResultsGrow DEF Failed, GoOn, Returned

LEMMA NextGrows ==
  ASSUME Types, Next, Garbled
  PROVE  Garbled'
  <1>1. ASSUME NEW a \in Used, Call(a) PROVE Garbled'
    <2>1. UNCHANGED <<results, fault>> /\ calls' = Append(calls, a)
      BY <1>1 DEF Call
    <2>2. step = 0 /\ Len(results) = Len(calls) /\ calls \in Seq(DOMAIN Steps)
      BY <1>1 DEF Types, ClientOK, CallsOK, Call, Now
    <2>3. \A n \in DOMAIN results : calls'[n] = calls[n]
      BY <2>1, <2>2 DEF Types, ClientOK
    <2> QED  BY <2>1, <2>3, GarbledStays
  <1>2. CASE Close
    BY <1>2, GarbledStays DEF Close
  <1>3. CASE Write
    BY <1>3, GarbledStays, FailedGrows DEF Write
  <1>4. CASE WriteTimeout
    BY <1>4, GarbledStays, SuffersGarbled, FailedGrows DEF WriteTimeout
  <1>5. CASE WriteClosed
    BY <1>5, GarbledStays, FailedGrows DEF WriteClosed, Killed
  <1>6. CASE NoKey
    BY <1>6, SuffersGarbled DEF NoKey
  <1>7. CASE Read
    <2>1. PICK k \in 1..Step.size :
            /\ IF k = Step.size THEN GoOn(AfterRead(Word(k)), Word(k)) ELSE Failed
            /\ Splits(k, Step.size, back)
      BY <1>7 DEF Read
    <2>2. \A n \in DOMAIN results : n \in DOMAIN results' /\ results'[n] = results[n]
      BY <2>1, FailedGrows
    <2> QED  BY <1>7, <2>1, <2>2, GarbledStays, SplitsGrow DEF Read
  <1>8. CASE ReadTimeout
    BY <1>8, GarbledStays, FailedGrows DEF ReadTimeout
  <1>9. CASE ReadEnd
    BY <1>9, GarbledStays, FailedGrows DEF ReadEnd
  <1>10. CASE PollRequest
    BY <1>10, GarbledStays, SplitsGrow DEF PollRequest
  <1>11. CASE PollData
    BY <1>11, GarbledStays DEF PollData
  <1>12. CASE PollSample
    BY <1>12, GarbledStays DEF PollSample
  <1>13. CASE PollEnd
    BY <1>13, GarbledStays DEF PollEnd
  <1> QED
    BY <1>1, <1>2, <1>3, <1>4, <1>5, <1>6, <1>7, <1>8, <1>9, <1>10, <1>11, <1>12, <1>13
    DEF Next, Client, Server

\* The client has not written.
LEMMA SameStream ==
  ASSUME StreamOK, UNCHANGED <<calls, sv, sent>>, TailOK(Queue)', Writing' => Writing,
         sv.state = "NEEDS_REQDATA" /\ sv.request = "CONNECT" =>
           back' = <<>> /\ (step' = 0 => ~ open')
  PROVE  StreamOK'
  <1>1. Queue' = Queue /\ Now' = Now
    BY DEF Queue, Now
  <1>2. Chain(calls, Queue)'
    BY <1>1 DEF StreamOK
  <1>3. HeadOK(Queue)'
    BY <1>1 DEF StreamOK, HeadOK
  <1> QED  BY <1>2, <1>3 DEF StreamOK

LEMMA CloseStream ==
  ASSUME StreamOK, Close
  PROVE  StreamOK'
  <1>1. UNCHANGED <<calls, sv, sent, step, results>> /\ Queue' = Queue /\ Now' = Now /\ api' = api
    BY DEF Close, Queue, Now, api
  <1>2. TailOK(Queue)'
    BY <1>1 DEF StreamOK, TailOK, Uploads, Boundary, Writing, Reading, Step, Start
  <1>3. Writing' = Writing
    BY <1>1 DEF Writing, Step
  <1> QED  BY <1>1, <1>2, <1>3, SameStream DEF Close, StreamOK, HeadOK

LEMMA CallStream ==
  ASSUME Types, StreamOK, NEW a \in Used, Call(a)
  PROVE  StreamOK'
  <1>1. /\ step = 0 /\ open /\ step' = 1 /\ calls' = Append(calls, a)
        /\ UNCHANGED <<results, open, sent, back, sv, fault>>
        /\ (a = Confirm) <=> (api = Cache /\ results[Now] # Fail)
    BY DEF Call, Confirm, Cache
  <1>2. a \in DOMAIN Steps
    BY ConversationAssumption
  <1> DEFINE q == Queue
  <1>3. q' = q /\ calls \in Seq(DOMAIN Steps) /\ MadeBy(calls, q)
    BY <1>1, QueueMade DEF Queue
  <1>4. Now' = Now + 1 /\ api' = a /\ Now \in Nat \ {0}
    BY <1>1, ApiTyped DEF Types, CallsOK, Now, api
  <1> HIDE DEF q
  <1>5. Chain(calls', q)
    BY <1>1, <1>2, <1>3, ChainCall DEF StreamOK, q
  <1>6. \A i \in DOMAIN q : calls'[q[i].call] = calls[q[i].call] /\ q[i].call <= Now
    <2>1. \A i \in DOMAIN q : q[i].call \in DOMAIN calls
      BY <1>3, MadePiece
    <2> QED  BY <1>1, <1>3, <2>1 DEF Now
  <1>7. q # <<>> => 1 \in DOMAIN q /\ Len(q) \in DOMAIN q
    BY <1>3 DEF MadeBy
  <1>8. HeadOK(q)'
    <2>1. HeadOK(q)
      BY DEF StreamOK, q
    <2>2. (sv.state = "NEEDS_REQDATA" => sv.request # "CONNECT") /\ Now' # 1
      BY <1>1, <1>4, <2>1 DEF HeadOK
    <2>3. sv.state = "NEEDS_REQDATA" => q # <<>>
      <3>1. sv.state = "NEEDS_REQDATA" => sv.length \in Nat /\ Len(sv.got) = IntSize + sv.length
        BY <2>1, <2>2 DEF HeadOK
      <3>2. Len(q) = Len(sv.got) + Len(sent) /\ sv.got \in Seq(Piece) /\ sent \in Seq(Piece)
        BY QueueMade DEF q
      <3> QED  BY <3>1, <3>2, ProtocolAssumption
    <2> QED  BY <1>1, <1>3, <1>6, <1>7, <2>1, <2>2, <2>3 DEF HeadOK
  <1>9. TailOK(q)'
    <2>1. TailOK(q) /\ ~ Writing /\ ~ Reading
      BY <1>1 DEF StreamOK, q, Writing, Reading
    <2>2. Whole(calls, q) /\ Boundary(Uploads(q))
      BY <2>1 DEF TailOK
    <2>3. Whole(calls', q) /\ Uploads(q)' = Uploads(q)
      BY <1>1, <1>3, <1>6, <1>7, <2>2 DEF Whole, Msg, Uploads
    <2>4. q # <<>> => q[Len(q)].call < Now'
      <3>1. q # <<>> => q[Len(q)].call \in Nat
        BY <1>3, <1>7, MadePiece
      <3> QED  BY <1>4, <1>6, <1>7, <3>1
    <2>5. Steps[a][1].op = "write" /\ 1 \in DOMAIN Steps[a]
      BY <1>2, StepsOK, StepTyped DEF ShapeOK
    <2>6. Writing'
      BY <1>1, <1>4, <2>5 DEF Writing, Step
    <2>7. Boundary(Uploads(q))'
      <3>1. CASE Uploads(q)
        <4>1. api = Cache /\ results[Now] # Fail
          BY <1>1, <2>1, <2>2, <3>1 DEF Boundary
        <4> QED  BY <1>1, <1>4, <2>3, <3>1, <4>1 DEF Boundary
      <3>2. CASE ~ Uploads(q)
        <4>1. api = Cache => results[Now] = Fail
          BY <1>1, <2>1, <2>2, <3>2 DEF Boundary
        <4>2. a # Confirm
          BY <1>1, <4>1
        <4> QED  BY <1>1, <1>4, <2>3, <2>6, <3>2, <4>2 DEF Boundary
      <3> QED  BY <3>1, <3>2
    <2> QED  BY <1>3, <2>3, <2>4, <2>7 DEF TailOK
  <1> QED  BY <1>3, <1>5, <1>8, <1>9 DEF StreamOK, q

LEMMA ReadingStep ==
  ASSUME Types, Reading
  PROVE  /\ api \in DOMAIN Steps /\ step \in DOMAIN Steps[api] /\ Step = Steps[api][step]
         /\ Step.op = "read" /\ step # 0 /\ step # 1 /\ ~ Writing /\ Step.size = IntSize
         /\ Now \in Nat \ {0} /\ Len(results) = Now - 1
  <1>1. api \in DOMAIN Steps /\ Now \in Nat \ {0}
    BY ApiTyped DEF Types
  <1>2. step # 0 /\ Step.op = "read" /\ ~ Writing
    BY DEF Reading, Writing
  <1>3. step \in DOMAIN Steps[api] /\ Len(results) = Now - 1
    BY <1>2, StepNow DEF Types
  <1>4. Steps[api][1].op = "write"
    BY <1>1, StepsOK DEF ShapeOK
  <1>5. Step = Steps[api][step] /\ step # 1
    BY <1>2, <1>4 DEF Step
  <1>6. Step.size = IntSize
    BY <1>1, <1>2, <1>3, <1>5, ReadsOn
  <1> QED  BY <1>1, <1>2, <1>3, <1>5, <1>6

\* A call that reads goes on reading, or returns; one that has asked for an upload
\* only if it has the id.
LEMMA ReadTail ==
  ASSUME Types, Reading, TailOK(Queue), UNCHANGED <<calls, sv, sent>>,
         \/ /\ step' \in DOMAIN Steps[api] /\ Steps[api][step'].op = "read" /\ api # Cache
            /\ UNCHANGED results
         \/ step' = 0 /\ (api = Cache => results'[Now] # Fail)
  PROVE  TailOK(Queue)' /\ ~ Writing'
  <1>1. Queue' = Queue /\ Now' = Now /\ api' = api
    BY DEF Queue, Now, api
  <1>2. step # 0 /\ step # 1 /\ ~ Writing
    BY ReadingStep
  <1>3. Whole(calls, Queue) /\ Boundary(Uploads(Queue)) /\ Whole(calls, Queue)'
    BY <1>1, <1>2 DEF TailOK
  <1>4. ~ Writing'
    BY <1>1 DEF Writing, Step
  <1>5. Uploads(Queue)' = Uploads(Queue)
    BY <1>1 DEF Uploads
  <1>6. Boundary(Uploads(Queue))'
    <2>1. CASE Uploads(Queue)
      <3>1. api = Cache
        BY <1>2, <1>3, <2>1 DEF Boundary
      <3> QED  BY <1>1, <1>5, <2>1, <3>1 DEF Boundary
    <2>2. CASE ~ Uploads(Queue)
      <3>1. api # Cache
        BY <1>2, <1>3, <2>2 DEF Boundary
      <3> QED  BY <1>1, <1>4, <1>5, <2>2, <3>1 DEF Boundary
    <2> QED  BY <2>1, <2>2
  <1> QED  BY <1>3, <1>4, <1>6 DEF TailOK

\* The last result.
LEMMA ResultNow ==
  ASSUME Types, step # 0, NEW r, NEW answer, Returned(r, answer)
  PROVE  results'[Now] = r /\ step' = 0
  <1>1. Len(results) = Now - 1 /\ Now \in Nat \ {0} /\ results \in Seq(WordType)
    BY StepNow, ApiTyped DEF Types, ClientOK
  <1> QED  BY <1>1 DEF Returned

\* Nothing is on the way from the daemon while it waits for the first message.
LEMMA ConnectFirst ==
  ASSUME Types, HeadOK(Queue), sv.state = "NEEDS_REQDATA", sv.request = "CONNECT"
  PROVE  Now = 1 /\ api = "esd_send_auth" /\ back = <<>>
  <1>1. Now = 1 /\ back = <<>>
    BY DEF HeadOK
  <1>2. calls[1] = "esd_send_auth"
    BY <1>1, ApiTyped DEF Types, CallsOK
  <1> QED  BY <1>1, <1>2 DEF api

LEMMA FailedConnect ==
  ASSUME Types, step # 0, api = "esd_send_auth", Failed
  PROVE  step' = 0 /\ ~ open'
  <1>1. step \in DOMAIN Steps[api]
    BY StepNow DEF Types
  <1>2. Step.fail = 0
    BY <1>1, SpecialSteps DEF Step
  <1> QED  BY <1>2 DEF Failed, Returned

LEMMA ReadTimeoutStream ==
  ASSUME Types, Types', StreamOK, ReadTimeout, ~ Garbled'
  PROVE  StreamOK'
  <1>1. /\ Reading /\ Failed /\ fault' = fault \cup {"late"} /\ back = <<>>
        /\ UNCHANGED <<calls, sent, back, sv>>
    BY DEF ReadTimeout
  <1>2. /\ api \in DOMAIN Steps /\ step \in DOMAIN Steps[api] /\ Step = Steps[api][step]
        /\ Step.op = "read" /\ step # 0 /\ Now \in Nat \ {0} /\ Len(results) = Now - 1
    BY <1>1, ReadingStep
  <1>3. api # Cache
    <2> SUFFICES ASSUME api = Cache PROVE Garbled'
      OBVIOUS
    <2>1. Step.fail = 0
      BY <1>2, SpecialSteps
    <2>2. Returned(Fail, 0)
      BY <1>1, <2>1 DEF Failed
    <2>3. results'[Now] = Fail /\ Now \in DOMAIN results'
      <3>1. Len(results') = Now /\ results' \in Seq(WordType)
        BY <1>2, <2>2 DEF Returned, Types, ClientOK
      <3> QED  BY <1>2, <2>2, <3>1, ResultNow
    <2>4. calls'[Now] = Cache
      BY <1>1 DEF api
    <2> QED  BY <1>1, <2>3, <2>4 DEF Garbled, Cache
  <1>4. \/ step' \in DOMAIN Steps[api] /\ Steps[api][step'].op = "read" /\ UNCHANGED results
        \/ step' = 0
    BY <1>1, <1>2, ReadsOn DEF Failed, Returned
  <1>5. TailOK(Queue)' /\ ~ Writing'
    BY <1>1, <1>3, <1>4, ReadTail DEF StreamOK
  <1>6. sv.state = "NEEDS_REQDATA" /\ sv.request = "CONNECT" =>
           back' = <<>> /\ (step' = 0 => ~ open')
    BY <1>1, <1>2, ConnectFirst, FailedConnect DEF StreamOK
  <1> QED  BY <1>1, <1>5, <1>6, SameStream

LEMMA ReadStream ==
  ASSUME Types, Types', StreamOK, Read, ~ Garbled'
  PROVE  StreamOK'
  <1>1. PICK k \in 1..Step.size :
          /\ k <= Len(back)
          /\ IF k = Step.size THEN GoOn(AfterRead(Word(k)), Word(k)) ELSE Failed
          /\ Splits(k, Step.size, back)
    BY DEF Read
  <1>2. Reading /\ back # <<>> /\ UNCHANGED <<calls, sent, sv>>
    BY DEF Read
  <1>3. /\ api \in DOMAIN Steps /\ step \in DOMAIN Steps[api] /\ Step = Steps[api][step]
        /\ Step.op = "read" /\ step # 0 /\ Step.size = IntSize
    BY <1>2, ReadingStep
  <1>4. k = Step.size
    BY <1>1, SplitsGrow
  <1> DEFINE w == Word(k)
             s == AfterRead(w)
  <1>5. GoOn(s, w)
    BY <1>1, <1>4
  <1>6. w # Fail
    <2>1. back[1] \in BackPiece
      BY <1>2 DEF Types, WireOK
    <2>2. w.val \in {0, 1}
      BY <2>1 DEF Word, BackPiece
    <2> QED  BY <2>2, FailTyped
  <1> HIDE DEF w
  <1>7. s \in DOMAIN Steps[api] => Steps[api][s].op = "read"
    BY <1>3, ReadsOn DEF AfterRead
  <1>8. api = Cache => s \notin DOMAIN Steps[api]
    BY <1>3, SpecialSteps DEF AfterRead
  <1> HIDE DEF s
  <1>9. \/ /\ step' \in DOMAIN Steps[api] /\ Steps[api][step'].op = "read" /\ api # Cache
           /\ UNCHANGED results
        \/ step' = 0 /\ results'[Now] # Fail
    <2>1. CASE s \in DOMAIN Steps[api]
      BY <1>5, <1>7, <1>8, <2>1 DEF GoOn
    <2>2. CASE s \notin DOMAIN Steps[api]
      <3>1. Returned(w, w.val)
        BY <1>5, <2>2 DEF GoOn
      <3> QED  BY <1>3, <1>6, <3>1, ResultNow
    <2> QED  BY <2>1, <2>2
  <1>10. TailOK(Queue)' /\ ~ Writing'
    BY <1>2, <1>9, ReadTail DEF StreamOK
  <1>11. ~ (sv.state = "NEEDS_REQDATA" /\ sv.request = "CONNECT")
    BY <1>2, ConnectFirst DEF StreamOK
  <1> QED  BY <1>2, <1>10, <1>11, SameStream

LEMMA WritingStep ==
  ASSUME Types, Writing
  PROVE  /\ api \in DOMAIN Steps /\ step \in DOMAIN Steps[api] /\ Step = Steps[api][step]
         /\ Step.op = "write" /\ step \in Nat \ {0} /\ ~ Reading /\ Step.size \in Nat \ {0}
         /\ Now \in Nat \ {0} /\ Written(api, step) \in Nat
         /\ Start = 1 + Written(api, step) /\ (step = 1 => Start = 1)
  <1>1. api \in DOMAIN Steps /\ Now \in Nat \ {0}
    BY ApiTyped DEF Types
  <1>2. step # 0 /\ Step.op = "write" /\ ~ Reading
    BY DEF Reading, Writing
  <1>3. step \in DOMAIN Steps[api] /\ step \in Nat
    BY <1>2, StepNow, StepTyped DEF Types, ClientOK
  <1>4. Step = Steps[api][step]
    BY DEF Step
  <1>5. Written(api, step) \in Nat /\ Step.size \in Nat \ {0}
    BY <1>1, <1>2, <1>3, <1>4, FieldFits
  <1>6. Written(api, 1) = 0
    BY <1>1, WrittenFirst
  <1>7. Start = 1 + Written(api, step) /\ (step = 1 => Start = 1)
    BY <1>6 DEF Start
  <1> QED  BY <1>1, <1>2, <1>3, <1>4, <1>5, <1>7

LEMMA WriteTimeoutStream ==
  ASSUME Types, Types', StreamOK, WriteTimeout, ~ Garbled'
  PROVE  StreamOK'
  <1>1. /\ Writing /\ Failed /\ UNCHANGED <<calls, back, sv>>
    BY DEF WriteTimeout
  <1>2. PICK k \in 0..(Step.size - 1) :
          /\ sent' = sent \o Pieces(Now, Start, k)
          /\ IF Unsent(k) THEN UNCHANGED fault ELSE Suffers("torn")
    BY DEF WriteTimeout
  <1>3. k = 0 /\ step = 1 /\ Step.fail = 0 /\ api # Confirm
    BY <1>2, SuffersGarbled DEF Unsent, Confirm
  <1>4. sent' = sent
    <2>1. Pieces(Now, Start, 0) = <<>>
      BY DEF Pieces
    <2>2. sent \in Seq(Piece)
      BY QueueMade
    <2> QED  BY <1>2, <1>3, <2>1, <2>2
  <1>5. Returned(Fail, 0) /\ step # 0 /\ step' = 0
    BY <1>1, <1>3 DEF Failed, Returned
  <1>6. results'[Now] = Fail
    BY <1>5, ResultNow
  <1>7. Queue' = Queue /\ Now' = Now /\ api' = api
    BY <1>1, <1>4 DEF Queue, Now, api
  <1>8. ~ Writing' /\ ~ Reading
    BY <1>1, <1>5 DEF Writing, Reading
  <1>9. TailOK(Queue)'
    <2>1. Whole(calls, Queue) /\ Boundary(Uploads(Queue)) /\ Whole(calls, Queue)'
      <3>1. ~ (step > 1)
        BY <1>3
      <3> QED  BY <1>1, <1>7, <3>1 DEF StreamOK, TailOK
    <2>2. Uploads(Queue)' = Uploads(Queue) /\ ~ Uploads(Queue)
      BY <1>1, <1>3, <1>5, <1>7, <1>8, <2>1 DEF Uploads, Boundary
    <2>3. Boundary(Uploads(Queue))'
      BY <1>5, <1>6, <1>7, <1>8, <2>2 DEF Boundary
    <2> QED  BY <1>8, <2>1, <2>3 DEF TailOK
  <1>10. sv.state = "NEEDS_REQDATA" /\ sv.request = "CONNECT" =>
           back' = <<>> /\ (step' = 0 => ~ open')
    BY <1>1, <1>5, ConnectFirst, FailedConnect DEF StreamOK
  <1> QED  BY <1>1, <1>4, <1>8, <1>9, <1>10, SameStream

LEMMA WriteStream ==
  ASSUME Types, StreamOK, Write, sv.state \in Live
  PROVE  StreamOK'
  <1>1. Writing /\ UNCHANGED <<calls, back, sv, fault>>
    BY DEF Write
  <1>2. /\ api \in DOMAIN Steps /\ step \in DOMAIN Steps[api] /\ Step = Steps[api][step]
        /\ Step.op = "write" /\ step \in Nat \ {0} /\ ~ Reading /\ Step.size \in Nat \ {0}
        /\ Now \in Nat \ {0} /\ Written(api, step) \in Nat
        /\ Start = 1 + Written(api, step) /\ (step = 1 => Start = 1)
    BY <1>1, WritingStep
  <1> DEFINE q == Queue
             n == Now
             b == Start
             k == Step.size
             y == Pieces(n, b, k)
             c == calls
  <1>3. /\ c \in Seq(DOMAIN Steps) /\ Len(c) = n /\ n \in DOMAIN c /\ api = c[n]
        /\ sv.got \in Seq(Piece) /\ sent \in Seq(Piece) /\ MadeBy(c, q)
    BY QueueMade
  <1>4. b \in Nat \ {0} /\ k \in Nat \ {0} /\ n \in Nat \ {0}
    BY <1>2
  <1>5. /\ y \in Seq(Piece) /\ Len(y) = k
        /\ \A j \in 1..k : y[j].call = n /\ y[j].pos = b + j - 1
    <2>1. CallsOK /\ b \in Nat \ {0} /\ k \in Nat
      BY <1>4 DEF Types
    <2> QED  BY <2>1, NowPieces
  <1>6. Queue' = q \o y /\ sent' = sent \o y
    <2>1. sent' = sent \o y /\ sv' = sv
      BY <1>1 DEF Write
    <2> DEFINE g == sv.got
    <2>2. g \in Seq(Piece) /\ sent \in Seq(Piece) /\ y \in Seq(Piece)
      BY <1>3, <1>5
    <2> HIDE DEF g, y
    <2>3. g \o (sent \o y) = (g \o sent) \o y
      BY <2>2
    <2> QED  BY <2>1, <2>3 DEF Queue, g
  <1>7. step' = (IF step + 1 \in DOMAIN Steps[api] THEN step + 1 ELSE 0)
    BY DEF Write, GoOn, Returned
  <1>8. Now' = Now /\ api' = api /\ c' = c
    BY <1>1 DEF Now, api
  <1>9. /\ Written(api, step + 1) = b + k - 1 /\ b + k - 1 <= Total(api)
        /\ step + 1 \in DOMAIN Steps[api] /\ Steps[api][step + 1].op = "write" =>
              b + k - 1 < Total(api)
        /\ step + 1 \notin DOMAIN Steps[api] \/ Steps[api][step + 1].op # "write" =>
              b + k - 1 = Total(api)
    <2>1. Written(api, step + 1) = b + k - 1
      BY <1>2, FieldFits
    <2> QED  BY <1>2, <2>1, FieldFits
  <1>10. TailOK(q) /\ HeadOK(q) /\ Chain(c, q)
    BY DEF StreamOK
  <1> HIDE DEF q, n, b, k, y, c
  <1>11. Whole(c, q) => /\ b = 1 /\ step = 1 /\ (q # <<>> => q[Len(q)].call < n)
                        /\ api = Confirm <=> Uploads(q)
    <2>1. SUFFICES ASSUME Whole(c, q)
                   PROVE  /\ b = 1 /\ step = 1 /\ (q # <<>> => q[Len(q)].call < n)
                          /\ api = Confirm <=> Uploads(q)
      OBVIOUS
    <2>2. Boundary(Uploads(q)) /\ (q # <<>> => q[Len(q)].call < n)
      BY <1>1, <1>10, <2>1 DEF TailOK, c, n
    <2>3. step = 1 /\ (api = Confirm <=> Uploads(q))
      BY <1>1, <1>2, <2>2 DEF Boundary
    <2> QED  BY <1>2, <2>2, <2>3 DEF b
  <1>12. Joins(c, q, n, b)
    <2>1. CASE Whole(c, q)
      BY <1>3, <1>11, <2>1 DEF Joins, Uploads, c
    <2>2. CASE ~ Whole(c, q)
      <3>1. q[Len(q)].call = n /\ b = q[Len(q)].pos + 1 /\ Len(q) \in DOMAIN q
        BY <1>3, <1>10, <2>2 DEF TailOK, c, b, n, Whole, MadeBy
      <3>2. q[Len(q)].pos \in Nat
        BY <1>3, <3>1, MadePiece
      <3> QED  BY <2>2, <3>1, <3>2 DEF Joins
    <2> QED  BY <2>1, <2>2
  <1> DEFINE x == q \o y
  <1>13. MadeBy(c, x) /\ Chain(c, x)
    <2>1. b + k - 1 <= Total(c[n])
      BY <1>3, <1>9
    <2>2. k \in Nat
      BY <1>4
    <2> QED  BY <1>3, <1>4, <1>10, <1>12, <2>1, <2>2, ChainField DEF y
  <1>14. /\ Len(x) = Len(q) + k /\ x # <<>> /\ Len(x) \in DOMAIN x /\ 1 \in DOMAIN x
         /\ x[Len(x)].call = n /\ x[Len(x)].pos = b + k - 1
         /\ IF q = <<>> THEN x[1].call = n /\ x[1].pos = b ELSE x[1] = q[1]
    <2>1. q \in Seq(Piece) /\ y \in Seq(Piece) /\ Len(y) = k /\ k \in Nat \ {0} /\ b \in Nat
      BY <1>3, <1>4, <1>5 DEF MadeBy
    <2>2. Len(x) = Len(q) + k /\ x # <<>> /\ Len(x) \in DOMAIN x /\ 1 \in DOMAIN x
      BY <2>1
    <2>3. x[Len(x)] = y[k] /\ k \in 1..k
      BY <2>1
    <2>4. x[Len(x)].call = n /\ x[Len(x)].pos = b + k - 1
      BY <1>5, <2>3
    <2>5. IF q = <<>> THEN x[1] = y[1] ELSE x[1] = q[1]
      BY <2>1
    <2>6. y[1].call = n /\ y[1].pos = b
      BY <1>5, <2>1
    <2> QED  BY <2>2, <2>4, <2>5, <2>6
  <1>15. Queue' = x
    BY <1>6
  <1> HIDE DEF x
  <1>16. TailOK(Queue)'
    <2>1. Msg(c, x[Len(x)]) = Total(api)
      BY <1>3, <1>14 DEF Msg
    <2>2. CASE step + 1 \in DOMAIN Steps[api] /\ Steps[api][step + 1].op = "write"
      <3>1. Total(api) \in Nat /\ b + k - 1 \in Nat
        BY <1>2, <1>4, Totals
      <3>2. ~ Whole(c, x)
        BY <1>9, <1>14, <2>1, <2>2, <3>1 DEF Whole
      <3>3. Writing' /\ step' = step + 1 /\ step' > 1
        BY <1>2, <1>7, <1>8, <2>2 DEF Writing, Step
      <3>4. Start' = 1 + (b + k - 1)
        BY <1>8, <1>9, <3>3 DEF Start
      <3> QED  BY <1>4, <1>8, <1>14, <1>15, <3>2, <3>3, <3>4 DEF TailOK, c, n
    <2>3. CASE step + 1 \notin DOMAIN Steps[api] \/ Steps[api][step + 1].op # "write"
      <3>1. Whole(c, x)
        BY <1>9, <1>14, <2>1, <2>3 DEF Whole
      <3>2. ~ Writing'
        BY <1>7, <1>8, <2>3 DEF Writing, Step
      <3>3. Uploads(Queue)' <=> api = Cache
        BY <1>3, <1>8, <1>14, <1>15 DEF Uploads, c
      <3>4. api = Cache => Reading'
        <4>1. api = Cache => step + 1 \in DOMAIN Steps[api]
          BY <1>2, SpecialSteps
        <4>2. step + 1 \in DOMAIN Steps[api] => Steps[api][step + 1].op = "read" /\ step + 1 # 0
          BY <1>2, <2>3, StepTyped
        <4> QED  BY <1>7, <1>8, <4>1, <4>2 DEF Reading, Step
      <3>5. Boundary(Uploads(Queue))'
        BY <1>8, <3>2, <3>3, <3>4 DEF Boundary
      <3> QED  BY <1>8, <1>15, <3>1, <3>2, <3>5 DEF TailOK, c
    <2> QED  BY <2>2, <2>3
  <1>17. HeadOK(Queue)'
    <2>1. q = <<>> => b = 1 /\ step = 1 /\ (api = Confirm <=> sv.state = "CACHING_SAMPLE")
      BY <1>11 DEF Whole, Uploads
    <2>2. x[1].pos = 1
      BY <1>10, <1>14, <2>1 DEF HeadOK
    <2>3. Writing' /\ Now = 1 => sv.state = "NEEDS_REQDATA" /\ sv.request = "CONNECT"
      BY <1>1, <1>10 DEF HeadOK
    <2>4. sv.state = "NEXT_REQUEST" => calls[x[1].call] \in DOMAIN Requests
      <3>1. CASE q = <<>> /\ sv.state = "NEXT_REQUEST"
        <4>1. Now # 1
          BY <1>1, <1>10, <3>1 DEF HeadOK
        <4>2. api # "esd_send_auth"
          BY <1>3, <4>1 DEF Types, CallsOK, c, n
        <4> QED  BY <1>2, <1>3, <1>14, <2>1, <3>1, <4>2, SpecialSteps DEF c
      <3>2. CASE q # <<>>
        BY <1>10, <1>14, <3>2 DEF HeadOK
      <3> QED  BY <3>1, <3>2
    <2>5. sv.state = "CACHING_SAMPLE" => sv.length = 0 /\ calls[x[1].call] = Confirm
      BY <1>3, <1>10, <1>14, <2>1 DEF HeadOK, c
    <2>6. sv.state = "NEEDS_REQDATA" /\ sv.request # "CONNECT" => q # <<>>
      <3>1. sv.state = "NEEDS_REQDATA" /\ sv.request # "CONNECT" =>
              sv.length \in Nat /\ Len(sv.got) = IntSize + sv.length
        BY <1>10 DEF HeadOK
      <3>2. Len(q) = Len(sv.got) + Len(sent)
        BY QueueMade DEF q
      <3> QED  BY <1>3, <3>1, <3>2, ProtocolAssumption
    <2>7. sv.state = "NEEDS_REQDATA" /\ sv.request = "CONNECT" => step' # 0
      <3>1. sv.state = "NEEDS_REQDATA" /\ sv.request = "CONNECT" => api = "esd_send_auth"
        BY <1>10, ConnectFirst DEF q
      <3> QED  BY <1>2, <1>7, <3>1, SpecialSteps
    <2> QED
      BY <1>1, <1>8, <1>10, <1>14, <1>15, <2>2, <2>3, <2>4, <2>5, <2>6, <2>7 DEF HeadOK
  <1> QED  BY <1>8, <1>13, <1>16, <1>17, <1>15 DEF StreamOK, c

----------------------------------------------------------------------------
(* The daemon reads.                                                       *)

LEMMA QueueSplit ==
  ASSUME NEW g \in Seq(Piece), NEW s \in Seq(Piece), NEW k \in 0..Len(s)
  PROVE  /\ g \o SubSeq(s, 1, k) = SubSeq(g \o s, 1, Len(g) + k)
         /\ (g \o SubSeq(s, 1, k)) \o SubSeq(s, k + 1, Len(s)) = g \o s
         /\ SubSeq(s, k + 1, Len(s)) = SubSeq(g \o s, Len(g) + k + 1, Len(g \o s))
  <1>1. g \o SubSeq(s, 1, k) = SubSeq(g \o s, 1, Len(g) + k)
    OBVIOUS
  <1>2. (g \o SubSeq(s, 1, k)) \o SubSeq(s, k + 1, Len(s)) = g \o s
    <2> DEFINE x == SubSeq(s, 1, k)
               y == SubSeq(s, k + 1, Len(s))
    <2>1. x \in Seq(Piece) /\ y \in Seq(Piece)
      OBVIOUS
    <2>2. x \o y = s
      <3>1. /\ Len(x) = k /\ Len(y) = Len(s) - k /\ (\A i \in 1..k : x[i] = s[i])
            /\ \A i \in 1..(Len(s) - k) : y[i] = s[k + i]
        OBVIOUS
      <3> DEFINE z == x \o y
      <3> HIDE DEF x, y
      <3>2. z \in Seq(Piece) /\ Len(z) = Len(s) /\ \A i \in 1..Len(s) : z[i] = s[i]
        <4>1. z \in Seq(Piece) /\ Len(z) = Len(x) + Len(y)
          BY <2>1
        <4>2. ASSUME NEW i \in 1..Len(s) PROVE z[i] = s[i]
          <5>1. CASE i <= k
            BY <2>1, <3>1, <5>1
          <5>2. CASE i > k
            <6>1. z[i] = y[i - k]
              BY <2>1, <3>1, <5>2
            <6>2. i - k \in 1..(Len(s) - k) /\ k + (i - k) = i
              BY <5>2
            <6> QED  BY <3>1, <6>1, <6>2
          <5> HIDE DEF z
          <5>3. i <= k \/ i > k
            OBVIOUS
          <5> QED  BY <5>1, <5>2, <5>3
        <4> QED  BY <3>1, <4>1, <4>2
      <3> HIDE DEF z
      <3>3. z \in [1..Len(s) -> Piece] /\ s \in [1..Len(s) -> Piece]
        BY <3>2
      <3>4. z = s
        BY <3>2, <3>3
      <3> QED  BY <3>4 DEF z
    <2> HIDE DEF x, y
    <2>3. (g \o x) \o y = g \o (x \o y)
      BY <2>1
    <2> QED  BY <2>2, <2>3 DEF x, y
  <1>3. SubSeq(s, k + 1, Len(s)) = SubSeq(g \o s, Len(g) + k + 1, Len(g \o s))
    OBVIOUS
  <1> QED  BY <1>1, <1>2, <1>3

\* The message at the front has been read.
LEMMA MessageRead ==
  ASSUME Types, StreamOK, UNCHANGED <<calls, step, last, results, open>>,
         Queue # <<>>, NEW m \in 1..Len(Queue), m = Msg(calls, Queue[1]),
         sv'.got = <<>>, sent' = SubSeq(Queue, m + 1, Len(Queue)),
         sv'.state \in {"NEXT_REQUEST", "CACHING_SAMPLE"},
         sv'.state = "CACHING_SAMPLE" <=> calls[Queue[1].call] = Cache,
         sv'.state = "CACHING_SAMPLE" => sv'.length = 0
  PROVE  StreamOK'
  <1> DEFINE q == Queue
             c == calls
             x == SubSeq(q, m + 1, Len(q))
  <1>1. c \in Seq(DOMAIN Steps) /\ MadeBy(c, q) /\ Len(c) = Now
    BY QueueMade
  <1>2. Chain(c, q) /\ HeadOK(q) /\ TailOK(q) /\ q # <<>> /\ q[1].pos = 1
    BY DEF StreamOK, HeadOK
  <1>3. Now' = Now /\ api' = api /\ Writing' = Writing /\ Reading' = Reading /\ Start' = Start /\ c' = c
    BY DEF Now, api, Writing, Reading, Step, Start
  <1>4. m \in 1..Len(q) /\ m \in 0..Len(q) /\ Len(q) \in Nat /\ q \in Seq(Piece)
    BY <1>1 DEF MadeBy
  <1> HIDE DEF q, c
  <1>5. x \in Seq(Piece) /\ Len(x) = Len(q) - m /\ \A i \in 1..(Len(q) - m) : x[i] = q[m + i]
    BY <1>4, Rest
  <1>6. MadeBy(c, x) /\ Chain(c, x)
    BY <1>1, <1>2, <1>4, ChainRest
  <1>7. Queue' = x
    <2>1. Queue' = <<>> \o x
      BY DEF Queue, q
    <2> HIDE DEF x
    <2> QED  BY <1>5, <2>1
  <1> HIDE DEF x
  <1>8. m = Msg(c, q[1]) /\ m <= Msg(c, q[1])
    BY <1>4 DEF c, q
  <1>9. q[m].call = q[1].call /\ q[m].pos = m
    BY <1>1, <1>2, <1>4, <1>8, ChainFront
  <1>10. ASSUME x # <<>>
         PROVE  /\ 1 \in DOMAIN x /\ x[Len(x)] = q[Len(q)]
                /\ x[1].pos = 1 /\ x[1].call > q[1].call
                /\ c[x[1].call] = Confirm <=> c[q[1].call] = Cache
    <2>1. Len(q) - m \in Nat \ {0} /\ m < Len(q)
      BY <1>4, <1>5, <1>10
    <2>2. 1 \in DOMAIN x /\ x[1] = q[m + 1] /\ x[Len(x)] = q[Len(q)]
      <3> DEFINE l == Len(q) - m
      <3>1. l \in Nat \ {0} /\ m + l = Len(q)
        BY <1>4, <2>1
      <3>2. Len(x) = l /\ DOMAIN x = 1..l /\ \A i \in 1..l : x[i] = q[m + i]
        BY <1>5
      <3> HIDE DEF l
      <3>3. 1 \in 1..l /\ l \in 1..l
        BY <3>1
      <3>4. x[1] = q[m + 1] /\ x[l] = q[m + l]
        BY <3>2, <3>3
      <3> QED  BY <3>1, <3>2, <3>3, <3>4
    <2>3. /\ q[m + 1].pos = 1 /\ q[m + 1].call > q[1].call
          /\ c[q[m + 1].call] = Confirm <=> c[q[1].call] = Cache
      BY <1>1, <1>2, <1>4, <1>8, <2>1, ChainNext
    <2> QED  BY <2>2, <2>3
  <1>11. ASSUME x = <<>>
         PROVE  Whole(c, q) /\ q[Len(q)].call = q[1].call /\ (Uploads(q) <=> c[q[1].call] = Cache)
    <2>1. Len(q) = m
      BY <1>4, <1>5, <1>11
    <2>2. q[Len(q)].call = q[1].call /\ q[Len(q)].pos = Msg(c, q[Len(q)])
      BY <1>8, <1>9, <2>1 DEF Msg
    <2> QED  BY <1>2, <2>2 DEF Whole, Uploads, c
  <1>12. q[1].call \in Nat \ {0} /\ q[1].call <= Now
    <2>1. 1 \in DOMAIN q
      BY <1>4
    <2> QED  BY <1>1, <2>1, MadePiece DEF MadeBy
  <1>13. HeadOK(Queue)'
    <2>1. x # <<>> => /\ x[1].pos = 1 /\ c[x[1].call] \in DOMAIN Steps \ {"esd_send_auth"}
                      /\ x[1].call \in Nat /\ x[1].call <= Now /\ x[1].call > 1
      <3> SUFFICES ASSUME x # <<>>
                   PROVE /\ x[1].pos = 1 /\ c[x[1].call] \in DOMAIN Steps \ {"esd_send_auth"}
                         /\ x[1].call \in Nat /\ x[1].call <= Now /\ x[1].call > 1
        OBVIOUS
      <3>1. /\ x[1].call \in DOMAIN c /\ c[x[1].call] \in DOMAIN Steps /\ x[1].call \in Nat
            /\ x[1].call <= Now
        BY <1>1, <1>6, <1>10, MadePiece DEF MadeBy
      <3>2. x[1].call > 1
        BY <1>10, <1>12, <3>1
      <3>3. c[x[1].call] # "esd_send_auth"
        BY <3>1, <3>2 DEF Types, CallsOK, c
      <3> QED  BY <1>10, <3>1, <3>2, <3>3
    <2>2. ~ (Writing' /\ Now = 1)
      <3> SUFFICES ASSUME Writing, Now = 1 PROVE FALSE
        BY <1>3
      <3>1. x = <<>>
        BY <2>1
      <3>2. q[1].call < Now
        BY <1>2, <1>11, <3>1 DEF TailOK, c
      <3> QED  BY <1>12, <3>2
    <2>3. sv'.state = "NEXT_REQUEST" /\ x # <<>> => c[x[1].call] \in DOMAIN Requests
      <3>1. sv'.state = "NEXT_REQUEST" => c[q[1].call] # Cache
        BY DEF c, q
      <3> QED  BY <1>10, <2>1, <3>1, SpecialSteps
    <2>4. sv'.state = "CACHING_SAMPLE" => sv'.length = 0 /\ (x # <<>> => c[x[1].call] = Confirm)
      BY <1>10 DEF c, q
    <2> QED  BY <1>3, <1>7, <2>1, <2>2, <2>3, <2>4 DEF HeadOK, c
  <1>14. TailOK(Queue)'
    <2>1. CASE x = <<>>
      <3>1. Uploads(Queue)' = Uploads(q)
        <4>1. Uploads(q) = (c[q[1].call] = Cache)
          BY <1>11, <2>1 DEF Uploads
        <4>2. Uploads(Queue)' = (sv'.state = "CACHING_SAMPLE")
          BY <1>7, <2>1 DEF Uploads
        <4> QED  BY <4>1, <4>2 DEF c, q
      <3>2. Boundary(Uploads(q))
        BY <1>2, <1>11, <2>1 DEF TailOK, c
      <3>3. Boundary(Uploads(Queue))'
        BY <1>3, <3>1, <3>2 DEF Boundary
      <3> QED  BY <1>7, <2>1, <3>3 DEF TailOK, Whole
    <2>2. CASE x # <<>>
      <3>1. Uploads(Queue)' = Uploads(q) /\ Whole(c, x) = Whole(c, q)
        BY <1>2, <1>7, <1>10, <2>2 DEF Uploads, Whole, c
      <3>2. Boundary(Uploads(q)) => Boundary(Uploads(Queue))'
        BY <1>3, <3>1 DEF Boundary
      <3> QED  BY <1>2, <1>3, <1>7, <1>10, <2>2, <3>1, <3>2 DEF TailOK, c
    <2> QED  BY <2>1, <2>2
  <1> QED  BY <1>3, <1>6, <1>7, <1>13, <1>14 DEF StreamOK, c

\* The first m pieces have been read and answered with the outcome out.
Answered(m, out) ==
    /\ back' = back \o Reply(Owner(SubSeq(Queue, 1, m)), 1, out.words)
    /\ sv'.state = out.state /\ sv'.got = <<>>
    /\ out.state = "CACHING_SAMPLE" => sv'.length = 0
    /\ sent' = IF out.state = "NONE" THEN <<>> ELSE SubSeq(Queue, m + 1, Len(Queue))

LEMMA Handled ==
  ASSUME Types, NEW m \in 1..Len(Queue), m >= Len(sv.got), NEW r \in DOMAIN handler,
         Handle(r, SubSeq(Queue, 1, m))
  PROVE  \E out \in handler[r] : Answered(m, out)
  <1> DEFINE got == SubSeq(Queue, 1, m)
  <1>1. /\ sv.got \in Seq(Piece) /\ sent \in Seq(Piece) /\ MadeBy(calls, Queue)
        /\ Len(Queue) = Len(sv.got) + Len(sent)
    BY QueueMade
  <1>2. Queue \in Seq(Piece) /\ Len(Queue) \in Nat /\ Len(sv.got) \in Nat /\ m \in Nat
    BY <1>1 DEF MadeBy
  <1>3. Len(got) = m
    BY <1>2, Front
  <1> HIDE DEF got
  <1>4. PICK out \in handler[r] :
          /\ back' = back \o Reply(Owner(got), 1, out.words)
          /\ IF out.state = "NONE" THEN Erase
             ELSE /\ sv' = [state |-> out.state, request |-> r, got |-> <<>>,
                            length |-> IF out.state = "CACHING_SAMPLE" THEN 0
                                       ELSE data_length[r]]
                  /\ sent' = SubSeq(sent, 1 + Len(got) - Len(sv.got), Len(sent))
    BY DEF Handle, got
  <1>5. CASE out.state = "NONE"
    <2>1. sv'.state = "NONE" /\ sv'.got = <<>> /\ sent' = <<>>
      BY <1>4, <1>5 DEF Erase
    <2>2. Answered(m, out)
      BY <1>4, <1>5, <2>1 DEF Answered, got
    <2> QED  BY <2>2
  <1>6. CASE out.state # "NONE"
    <2>1. /\ sv'.state = out.state /\ sv'.got = <<>>
          /\ out.state = "CACHING_SAMPLE" => sv'.length = 0
      BY <1>4, <1>6
    <2>2. sent' = SubSeq(Queue, m + 1, Len(Queue))
      <3> DEFINE g == sv.got
                 k == m - Len(g)
      <3>1. k \in 0..Len(sent) /\ g \in Seq(Piece) /\ sent \in Seq(Piece) /\ Len(g) + k = m
        BY <1>1, <1>2
      <3>2. sent' = SubSeq(sent, k + 1, Len(sent))
        <4> DEFINE e == Len(g)
        <4>1. e \in Nat /\ m \in Nat
          BY <1>2
        <4> HIDE DEF e
        <4>2. 1 + m - e = (m - e) + 1
          BY <4>1
        <4> QED  BY <1>3, <1>4, <1>6, <4>2 DEF e
      <3> HIDE DEF g, k
      <3>3. SubSeq(sent, k + 1, Len(sent)) = SubSeq(g \o sent, Len(g) + k + 1, Len(g \o sent))
        BY <3>1, QueueSplit
      <3> QED  BY <3>1, <3>2, <3>3 DEF g, Queue
    <2> QED  BY <1>4, <1>6, <2>1, <2>2 DEF Answered, got
  <1> QED  BY <1>5, <1>6

\* A request has been read with all its parameters, and is handled.
LEMMA HandleStream ==
  ASSUME Types, StreamOK, UNCHANGED <<calls, step, last, results, open>>,
         Queue # <<>>, NEW m \in 1..Len(Queue), m = Msg(calls, Queue[1]), m >= Len(sv.got),
         NEW r \in DOMAIN handler, r = "SAMPLE_CACHE" <=> calls[Queue[1].call] = Cache,
         Handle(r, SubSeq(Queue, 1, m)), sv'.state \in Live
  PROVE  StreamOK'
  <1>1. PICK out \in handler[r] : Answered(m, out)
    BY Handled
  <1>2. /\ sv'.state = out.state /\ sv'.got = <<>> /\ out.state # "NONE"
        /\ out.state = "CACHING_SAMPLE" => sv'.length = 0
    BY <1>1 DEF Answered, Live
  <1>3. /\ sv'.state \in {"NEXT_REQUEST", "CACHING_SAMPLE"}
        /\ sv'.state = "CACHING_SAMPLE" <=> r = "SAMPLE_CACHE"
    BY <1>2, Outcomes DEF Live
  <1>4. sent' = SubSeq(Queue, m + 1, Len(Queue))
    BY <1>1, <1>2 DEF Answered
  <1> QED  BY <1>2, <1>3, <1>4, MessageRead

\* The data of a sample are read, and their size is that of the message.
LEMMA SamplePolled ==
  ASSUME Types, StreamOK, PollSample
  PROVE  /\ Queue # <<>> /\ Queue[1].pos = 1 /\ calls[Queue[1].call] = Confirm
         /\ DataSize \in 1..Len(Queue) /\ Msg(calls, Queue[1]) = DataSize
         /\ Len(sv.got) = 0 /\ Answered(DataSize, Says(<<1>>))
  <1> DEFINE q == Queue
             k == Least(DataSize - sv.length, Len(sent))
  <1>1. /\ sv.state = "CACHING_SAMPLE" /\ sent # <<>>
        /\ UNCHANGED <<calls, step, last, results, open>>
        /\ sent' = SubSeq(sent, k + 1, Len(sent))
        /\ IF sv.length + k < DataSize
           THEN sv' = [sv EXCEPT !.length = @ + k] /\ UNCHANGED back
           ELSE /\ sv' = [sv EXCEPT !.state = "NEXT_REQUEST"]
                /\ back' = back \o Reply(sent[1].call, 1, <<1>>)
    BY DEF PollSample
  <1>2. sv.got = <<>> /\ sent \in Seq(Piece) /\ MadeBy(calls, q) /\ sv \in SvType
    BY <1>1, QueueMade DEF Types, WireOK
  <1>3. q = sent
    BY <1>2 DEF Queue
  <1>4. Chain(calls, q) /\ HeadOK(q) /\ TailOK(q) /\ calls \in Seq(DOMAIN Steps)
    BY QueueMade DEF StreamOK
  <1> HIDE DEF q
  <1>5. q # <<>> /\ q[1].pos = 1 /\ calls[q[1].call] = Confirm /\ sv.length = 0
    BY <1>1, <1>3, <1>4 DEF HeadOK
  <1>6. Msg(calls, q[1]) = DataSize
    BY <1>5, SpecialSteps, Totals DEF Msg, Confirm
  <1>7. Len(q) \in DOMAIN q /\ Len(q) \in Nat
    BY <1>2, <1>5 DEF MadeBy
  <1>8. DataSize <= Len(q)
    <2> SUFFICES ASSUME Len(q) < DataSize PROVE FALSE
      BY <1>7, ProtocolAssumption
    <2> DEFINE d == Len(q)
    <2>1. d \in 1..Len(q) /\ d <= Msg(calls, q[1])
      BY <1>6, <1>7, ProtocolAssumption
    <2> HIDE DEF d
    <2>2. q[d].call = q[1].call /\ q[d].pos = d
      BY <1>2, <1>4, <1>5, <2>1, ChainFront
    <2>3. ~ Whole(calls, q)
      BY <1>5, <1>6, <1>7, <2>2, ProtocolAssumption DEF Whole, Msg, d
    <2>4. Writing /\ step > 1 /\ q[1].call = Now
      BY <1>4, <2>2, <2>3 DEF TailOK, d
    <2>5. api = Confirm
      BY <1>5, <2>4 DEF api
    <2>6. step = 1
      BY <2>4, <2>5, WritingStep, SpecialSteps
    <2> QED  BY <2>4, <2>6
  <1>9. k = DataSize
    BY <1>3, <1>5, <1>7, <1>8, ProtocolAssumption DEF Least
  <1> HIDE DEF k
  <1>10. /\ sv' = [sv EXCEPT !.state = "NEXT_REQUEST"]
         /\ back' = back \o Reply(q[1].call, 1, <<1>>)
    BY <1>1, <1>3, <1>5, <1>9, ProtocolAssumption
  <1>11. sv'.state = "NEXT_REQUEST" /\ sv'.got = <<>>
    BY <1>2, <1>10, SvState DEF States
  <1> DEFINE m == DataSize
  <1>12. m \in 1..Len(q) /\ sent' = SubSeq(q, m + 1, Len(q)) /\ m <= Msg(calls, q[1])
    BY <1>1, <1>3, <1>6, <1>7, <1>8, <1>9, ProtocolAssumption
  <1> HIDE DEF m
  <1>13. Owner(SubSeq(q, 1, m)) = q[1].call
    BY <1>2, <1>4, <1>5, <1>12, ChainFront
  <1>14. Answered(m, Says(<<1>>))
    BY <1>10, <1>11, <1>12, <1>13 DEF Answered, Says, q
  <1> QED  BY <1>2, <1>5, <1>6, <1>12, <1>14 DEF q, m

LEMMA PollSampleStream ==
  ASSUME Types, StreamOK, PollSample, sv'.state \in Live
  PROVE  StreamOK'
  <1> DEFINE m == DataSize
  <1>1. /\ Queue # <<>> /\ calls[Queue[1].call] = Confirm
        /\ m \in 1..Len(Queue) /\ m = Msg(calls, Queue[1]) /\ Answered(m, Says(<<1>>))
    BY SamplePolled
  <1> HIDE DEF m
  <1>2. UNCHANGED <<calls, step, last, results, open>>
    BY DEF PollSample
  <1>3. /\ sv'.state = "NEXT_REQUEST" /\ sv'.got = <<>>
        /\ sent' = SubSeq(Queue, m + 1, Len(Queue))
    BY <1>1 DEF Answered, Says
  <1> QED  BY <1>1, <1>2, <1>3, MessageRead DEF Confirm, Cache

\* The request word that is read is that of the call whose message is at the front.
LEMMA RequestPolled ==
  ASSUME Types, StreamOK, PollRequest, ~ Garbled'
  PROVE  LET q == Queue
             n == q[1].call
             r == Requests[calls[n]]
             got == SubSeq(q, 1, IntSize)
         IN  /\ q = sent /\ sv.got = <<>> /\ sent \in Seq(Piece) /\ MadeBy(calls, q)
             /\ q # <<>> /\ IntSize \in 1..Len(q) /\ q[1].pos = 1
             /\ n \in DOMAIN calls /\ n \in Nat \ {0} /\ calls[n] \in DOMAIN Requests
             /\ r \in DOMAIN handler \ {"CONNECT"} /\ (r = "SAMPLE_CACHE" <=> calls[n] = Cache)
             /\ data_length[r] \in Int /\ (data_length[r] = 0 => Msg(calls, q[1]) = IntSize)
             /\ got \in Seq(Piece) /\ Len(got) = IntSize /\ Owner(got) = n
             /\ IF data_length[r] = 0 THEN Handle(r, got) ELSE NeedsData(r, got) /\ UNCHANGED back
  <1> DEFINE q == Queue
             c == calls
             n == q[1].call
  <1>1. PICK k \in 1..IntSize :
         /\ k <= Len(sent)
         /\ Splits(k, IntSize, sent)
         /\ LET got == SubSeq(sent, 1, k)
                o == Owner(got)
                whole == o # 0 /\ k = IntSize /\ calls[o] \in DOMAIN Requests
            IN  \E r \in (IF whole THEN {Requests[calls[o]]} ELSE Mistaken) :
                  IF r \in {"CONNECT", "INVALID"} THEN Erase /\ UNCHANGED back
                  ELSE IF data_length[r] = 0 THEN Handle(r, got)
                  ELSE NeedsData(r, got) /\ UNCHANGED back
    BY DEF PollRequest
  <1>2. sv.state = "NEXT_REQUEST" /\ UNCHANGED <<calls, step, last, results, open>>
    BY DEF PollRequest
  <1>3. k = IntSize
    BY <1>1, SplitsGrow
  <1>4. /\ sv.got = <<>> /\ sent \in Seq(Piece) /\ MadeBy(c, q) /\ sv \in SvType
        /\ c \in Seq(DOMAIN Steps)
    BY <1>2, QueueMade DEF Types, WireOK
  <1>5. q = sent
    BY <1>4 DEF Queue
  <1>6. Chain(c, q) /\ HeadOK(q) /\ TailOK(q)
    BY DEF StreamOK
  <1>7. k \in 1..Len(q) /\ q # <<>> /\ Len(q) \in Nat /\ k \in Nat /\ 1 \in DOMAIN q
    BY <1>1, <1>3, <1>4, <1>5, ProtocolAssumption
  <1> HIDE DEF q, c
  <1>8. q[1].pos = 1 /\ c[n] \in DOMAIN Requests
    BY <1>2, <1>6, <1>7 DEF HeadOK, c
  <1>9. n \in DOMAIN c /\ n \in Nat \ {0} /\ c[n] \in DOMAIN Steps
    BY <1>4, <1>7, MadePiece
  <1> DEFINE r == Requests[c[n]]
             m == Msg(c, q[1])
             got == SubSeq(q, 1, k)
  <1>10. /\ r \in DOMAIN handler \ {"CONNECT"} /\ r # "INVALID" /\ data_length[r] \in Int
         /\ r = "SAMPLE_CACHE" <=> c[n] = Cache
    BY <1>8, Handlers, SpecialSteps
  <1>11. IF data_length[r] < 0 THEN m > IntSize ELSE m = IntSize + data_length[r]
    BY <1>8, <1>9, Totals DEF Msg
  <1>12. data_length[r] >= -1 /\ m \in Nat
    BY <1>4, <1>7, <1>10, Handlers, MadePiece
  <1>13. k <= m
    BY <1>3, <1>10, <1>11, <1>12, ProtocolAssumption
  <1>14. Owner(got) = n
    BY <1>4, <1>6, <1>7, <1>8, <1>13, ChainFront
  <1>15. IF data_length[r] = 0 THEN Handle(r, got) ELSE NeedsData(r, got) /\ UNCHANGED back
    BY <1>1, <1>3, <1>5, <1>8, <1>9, <1>10, <1>14 DEF c
  <1>16. got \in Seq(Piece) /\ Len(got) = k
    BY <1>4, <1>5, <1>7, Front
  <1>17. data_length[r] = 0 => m = IntSize
    BY <1>11, ProtocolAssumption
  <1> HIDE DEF r, m, got
  <1>18. k = IntSize /\ got = SubSeq(q, 1, IntSize)
    BY <1>3 DEF got
  <1> QED
    BY <1>3, <1>4, <1>5, <1>7, <1>8, <1>9, <1>10, <1>14, <1>15, <1>16, <1>17, <1>18
    DEF q, c, r, m

LEMMA PollRequestStream ==
  ASSUME Types, StreamOK, PollRequest, sv'.state \in Live, ~ Garbled'
  PROVE  StreamOK'
  <1> DEFINE q == Queue
             c == calls
             n == q[1].call
             r == Requests[c[n]]
             m == Msg(c, q[1])
             k == IntSize
             got == SubSeq(q, 1, k)
  <1>1. sv.state = "NEXT_REQUEST" /\ UNCHANGED <<calls, step, last, results, open>>
    BY DEF PollRequest
  <1>2. /\ q = sent /\ sv.got = <<>> /\ sent \in Seq(Piece) /\ MadeBy(c, q)
        /\ q # <<>> /\ k \in 1..Len(q) /\ q[1].pos = 1 /\ c[n] \in DOMAIN Requests
        /\ r \in DOMAIN handler \ {"CONNECT"} /\ (r = "SAMPLE_CACHE" <=> c[n] = Cache)
        /\ data_length[r] \in Int /\ (data_length[r] = 0 => m = k)
        /\ got \in Seq(Piece) /\ Len(got) = k
        /\ IF data_length[r] = 0 THEN Handle(r, got) ELSE NeedsData(r, got) /\ UNCHANGED back
    BY RequestPolled
  <1>3. Chain(c, q) /\ HeadOK(q) /\ TailOK(q)
    BY DEF StreamOK
  <1> HIDE DEF q, c, r, m, k, got
  <1>4. CASE data_length[r] = 0
    <2>1. m = k /\ m \in 1..Len(q) /\ Len(sv.got) = 0
      BY <1>2, <1>4
    <2>2. m >= Len(sv.got) /\ Handle(r, SubSeq(q, 1, m))
      BY <1>2, <1>4, <2>1, ProtocolAssumption DEF got, k
    <2>3. Queue # <<>> /\ m \in 1..Len(Queue) /\ m = Msg(calls, Queue[1]) /\ r \in DOMAIN handler
      BY <1>2, <2>1 DEF q, c, m
    <2>4. Handle(r, SubSeq(Queue, 1, m)) /\ (r = "SAMPLE_CACHE" <=> calls[Queue[1].call] = Cache)
      BY <1>2, <2>2 DEF q, c
    <2> QED  BY <1>1, <2>2, <2>3, <2>4, HandleStream
  <1>5. CASE data_length[r] # 0
    <2>1. /\ sv' = [state |-> "NEEDS_REQDATA", request |-> r, length |-> 0, got |-> got]
          /\ sent' = SubSeq(sent, 1 + Len(got), Len(sent)) /\ UNCHANGED back
      BY <1>2, <1>5 DEF NeedsData
    <2>2. sv'.state = "NEEDS_REQDATA" /\ sv'.request = r /\ sv'.length = 0 /\ sv'.got = got
      BY <2>1
    <2>3. Queue' = q
      <3>1. sent' = SubSeq(sent, k + 1, Len(sent)) /\ got = SubSeq(sent, 1, k)
        BY <1>2, <2>1, ProtocolAssumption DEF got, k
      <3>2. k \in 0..Len(sent) /\ <<>> \in Seq(Piece) /\ sent \in Seq(Piece)
        BY <1>2, ProtocolAssumption DEF k
      <3>3. (<<>> \o SubSeq(sent, 1, k)) \o SubSeq(sent, k + 1, Len(sent)) = <<>> \o sent
        BY <3>2, QueueSplit
      <3>4. <<>> \o SubSeq(sent, 1, k) = SubSeq(sent, 1, k) /\ <<>> \o sent = sent
        BY <3>2
      <3> QED  BY <1>2, <2>2, <3>1, <3>3, <3>4 DEF Queue
    <2>4. /\ Now' = Now /\ api' = api /\ Writing' = Writing /\ Reading' = Reading
          /\ Start' = Start /\ calls' = c
      BY <1>1 DEF Now, api, Writing, Reading, Step, Start, c
    <2>5. HeadOK(Queue)'
      <3>1. ~ (Writing /\ Now = 1)
        BY <1>1, <1>3 DEF HeadOK
      <3>2. Len(got) = IntSize + 0 /\ (data_length[r] < 0 \/ 0 < data_length[r])
        BY <1>2, <1>5, ProtocolAssumption DEF k
      <3> QED  BY <1>2, <2>2, <2>3, <2>4, <3>1, <3>2 DEF HeadOK, r
    <2>6. TailOK(Queue)'
      <3>1. Uploads(Queue)' = Uploads(q)
        BY <1>2, <2>3, <2>4 DEF Uploads, c
      <3>2. Boundary(Uploads(q)) => Boundary(Uploads(Queue))'
        BY <1>1, <2>4, <3>1 DEF Boundary
      <3> QED  BY <1>1, <1>3, <2>3, <2>4, <3>1, <3>2 DEF TailOK, c
    <2> QED  BY <1>3, <2>3, <2>4, <2>5, <2>6 DEF StreamOK
  <1> QED  BY <1>4, <1>5

\* How much of a message the daemon has, and waits for.
LEMMA Waiting ==
  ASSUME Types, StreamOK, sv.state = "NEEDS_REQDATA", Queue # <<>>
  PROVE  LET d == data_length[sv.request]
             m == Msg(calls, Queue[1])
         IN  /\ sv.length \in Nat /\ Len(sv.got) \in Nat /\ d \in Int /\ m \in Nat \ {0}
             /\ Len(sv.got) < m /\ Queue[1].pos = 1
             /\ d >= sv.length => m = Len(sv.got) + d - sv.length
             /\ sv.request = "SAMPLE_CACHE" <=> calls[Queue[1].call] = Cache
  <1> DEFINE q == Queue
             d == data_length[sv.request]
             m == Msg(calls, q[1])
  <1>1. /\ calls \in Seq(DOMAIN Steps) /\ Len(calls) = Now /\ MadeBy(calls, q)
        /\ Len(sv.got) \in Nat
    BY QueueMade
  <1>2. HeadOK(q)
    BY DEF StreamOK
  <1>3. 1 \in DOMAIN q
    BY <1>1 DEF MadeBy
  <1>4. /\ q[1].call \in DOMAIN calls /\ q[1].call \in Nat \ {0} /\ q[1].call <= Now
        /\ calls[q[1].call] \in DOMAIN Steps /\ m \in Nat \ {0}
    BY <1>1, <1>3, MadePiece DEF MadeBy
  <1>5. sv \in SvType /\ sv.request \in DOMAIN handler /\ sv.length \in Int
    BY DEF Types, WireOK, SvType
  <1>6. d \in Int
    BY <1>5, Handlers
  <1>7. q[1].pos = 1
    BY <1>2 DEF HeadOK
  <1>8. CASE sv.request = "CONNECT"
    <2>1. Now = 1 /\ Len(sv.got) = sv.length /\ sv.length < d
      BY <1>2, <1>8 DEF HeadOK
    <2>2. q[1].call = 1
      BY <1>4, <2>1
    <2>3. calls[q[1].call] = "esd_send_auth"
      BY <1>4, <2>2 DEF Types, CallsOK
    <2>4. m = d /\ calls[q[1].call] # Cache
      BY <1>4, <1>8, <2>3, Totals DEF Msg, Cache
    <2>5. sv.length \in Nat /\ Len(sv.got) < m /\ m = Len(sv.got) + d - sv.length
      BY <1>1, <1>5, <1>6, <2>1, <2>4
    <2> QED  BY <1>1, <1>4, <1>6, <1>7, <1>8, <2>4, <2>5
  <1>9. CASE sv.request # "CONNECT"
    <2>1. /\ sv.length \in Nat /\ Len(sv.got) = IntSize + sv.length
          /\ calls[q[1].call] \in DOMAIN Requests
          /\ sv.request = Requests[calls[q[1].call]]
          /\ (d < 0 /\ sv.length = 0) \/ sv.length < d
      BY <1>2, <1>9 DEF HeadOK
    <2>2. IF d < 0 THEN m > IntSize ELSE m = IntSize + d
      BY <1>4, <2>1, Totals DEF Msg
    <2>3. sv.request = "SAMPLE_CACHE" <=> calls[q[1].call] = Cache
      BY <2>1, SpecialSteps
    <2> DEFINE g == Len(sv.got)
               l == sv.length
    <2>4. l \in Nat /\ g = IntSize + l /\ ((d < 0 /\ l = 0) \/ l < d)
      BY <2>1
    <2> HIDE DEF g, l, d, m
    <2>5. g < m /\ (d >= l => m = g + d - l)
      BY <1>4, <1>6, <2>1, <2>2, <2>4, ProtocolAssumption
    <2> QED  BY <1>1, <1>4, <1>6, <1>7, <2>1, <2>3, <2>5 DEF g, l, d, m
  <1> QED  BY <1>8, <1>9

\* Parameters are read: too many have been, or all of them are there, or the
\* daemon goes on waiting.
LEMMA DataPolled ==
  ASSUME Types, StreamOK, PollData
  PROVE  LET q == Queue
             m == Msg(calls, q[1])
             d == data_length[sv.request]
             g == sv.got
         IN  /\ q # <<>> /\ q[1].pos = 1 /\ MadeBy(calls, q) /\ sv.request \in DOMAIN handler
             /\ sv.request = "SAMPLE_CACHE" <=> calls[q[1].call] = Cache
             /\ sv.length \in Nat /\ d \in Int
             /\ \/ sv'.state = "NONE" /\ UNCHANGED back
                \/ m \in 1..Len(q) /\ m >= Len(g) /\ Handle(sv.request, SubSeq(q, 1, m))
                \/ /\ sv'.state = sv.state /\ sv'.request = sv.request
                   /\ sv'.length \in Nat /\ sv'.length < d
                   /\ Len(sv'.got) = Len(g) + sv'.length - sv.length
                   /\ Queue' = q /\ UNCHANGED back
  <1> DEFINE q == Queue
             c == calls
             d == data_length[sv.request]
             m == Msg(c, q[1])
             g == sv.got
             k == Least(d - sv.length, Len(sent))
             got == g \o SubSeq(sent, 1, k)
  <1>1. /\ sv.state = "NEEDS_REQDATA" /\ sent # <<>>
        /\ UNCHANGED <<calls, step, last, results, open, fault>>
    BY DEF PollData
  <1>2. /\ g \in Seq(Piece) /\ sent \in Seq(Piece) /\ MadeBy(c, q)
        /\ Len(q) = Len(g) + Len(sent) /\ c \in Seq(DOMAIN Steps)
    BY QueueMade
  <1>3. q # <<>> /\ Len(q) \in Nat /\ Len(g) \in Nat /\ Len(sent) \in Nat \ {0}
    BY <1>1, <1>2
  <1>4. /\ sv.length \in Nat /\ d \in Int /\ m \in Nat \ {0}
        /\ Len(g) < m /\ q[1].pos = 1
        /\ d >= sv.length => m = Len(g) + d - sv.length
        /\ sv.request = "SAMPLE_CACHE" <=> c[q[1].call] = Cache
    BY <1>1, <1>3, Waiting
  <1>5. sv \in SvType /\ sv.request \in DOMAIN handler
    BY DEF Types, WireOK, SvType
  <1>6. CASE Insane
    <2>1. sv'.state = "NONE" /\ UNCHANGED back
      BY <1>6 DEF PollData, Erase
    <2> QED  BY <1>2, <1>3, <1>4, <1>5, <2>1
  <1>7. CASE ~ Insane
    <2>1. IF sv.length + k = d THEN Handle(sv.request, got)
          ELSE /\ sv' = [sv EXCEPT !.length = @ + k, !.got = got]
               /\ sent' = SubSeq(sent, k + 1, Len(sent))
               /\ UNCHANGED back
      BY <1>7 DEF PollData
    <2>2. d >= sv.length
      BY <1>4, <1>7 DEF Insane
    <2>3. /\ k \in 0..Len(sent) /\ k <= d - sv.length
      BY <1>3, <1>4, <2>2 DEF Least
    <2> HIDE DEF k, d, m
    <2>4. got = SubSeq(q, 1, Len(g) + k) /\ got \o SubSeq(sent, k + 1, Len(sent)) = q
      <3>1. q = g \o sent
        BY DEF Queue
      <3> HIDE DEF g, q
      <3> QED  BY <1>2, <2>3, <3>1, QueueSplit
    <2>5. Len(got) = Len(g) + k /\ got \in Seq(Piece)
      <3>1. Len(g) + k \in 0..Len(q)
        BY <1>2, <1>3, <2>3
      <3>2. q \in Seq(Piece)
        BY <1>2 DEF MadeBy
      <3> DEFINE e == Len(g) + k
      <3>3. e \in 0..Len(q) /\ got = SubSeq(q, 1, e)
        BY <2>4, <3>1
      <3> HIDE DEF e, q, got
      <3>4. Len(got) = e /\ got \in Seq(Piece)
        BY <3>2, <3>3, Front
      <3> QED  BY <3>4 DEF e
    <2> HIDE DEF got
    <2>6. CASE sv.length + k = d
      <3>1. Len(g) + k = m
        BY <1>3, <1>4, <2>2, <2>3, <2>6
      <3>2. m \in 1..Len(q) /\ m >= Len(g)
        BY <1>2, <1>3, <1>4, <2>3, <3>1
      <3>3. Handle(sv.request, SubSeq(q, 1, m))
        BY <2>1, <2>4, <2>6, <3>1
      <3> QED  BY <1>2, <1>3, <1>4, <1>5, <3>2, <3>3 DEF m, d
    <2>7. CASE sv.length + k # d
      <3> DEFINE l == sv.length + k
      <3>1. l \in Int /\ l \in Nat /\ l < d /\ Len(got) = Len(g) + l - sv.length
        <4> DEFINE e == Len(g)
                   v == sv.length
        <4>1. e \in Nat /\ v \in Nat /\ d \in Int /\ k \in Nat /\ k <= d - v /\ v + k # d
          BY <1>3, <1>4, <2>3, <2>7 DEF d
        <4> HIDE DEF e, v
        <4>2. v + k \in Nat /\ v + k < d /\ e + k = e + (v + k) - v
          BY <4>1
        <4> QED  BY <2>5, <4>2 DEF e, v
      <3>2. /\ sv'.state = sv.state /\ sv'.request = sv.request /\ sv'.length = l /\ sv'.got = got
            /\ sent' = SubSeq(sent, k + 1, Len(sent)) /\ UNCHANGED back
        <4>1. sv' = [sv EXCEPT !.length = l, !.got = got]
          BY <2>1, <2>7
        <4> DEFINE s == sv
                   t == [s EXCEPT !.length = l, !.got = got]
        <4>2. s \in SvType
          BY <1>5
        <4> HIDE DEF l, s
        <4>3. t.state = s.state /\ t.request = s.request /\ t.length = l /\ t.got = got
          BY <4>2 DEF SvType
        <4>4. sv' = t
          BY <4>1 DEF s
        <4> HIDE DEF t
        <4> QED  BY <2>1, <2>7, <4>3, <4>4 DEF s
      <3>3. Queue' = q
        BY <2>4, <3>2 DEF Queue
      <3> HIDE DEF l
      <3> QED  BY <1>2, <1>3, <1>4, <1>5, <3>1, <3>2, <3>3 DEF m, d
    <2> QED  BY <2>6, <2>7
  <1> QED  BY <1>6, <1>7

LEMMA PollDataStream ==
  ASSUME Types, StreamOK, PollData, sv'.state \in Live
  PROVE  StreamOK'
  <1> DEFINE q == Queue
             c == calls
             d == data_length[sv.request]
             m == Msg(c, q[1])
             g == sv.got
             l == sv'.length
  <1>1. /\ sv.state = "NEEDS_REQDATA"
        /\ UNCHANGED <<calls, step, last, results, open, fault>>
    BY DEF PollData
  <1>2. /\ q # <<>> /\ q[1].pos = 1 /\ MadeBy(c, q) /\ sv.request \in DOMAIN handler
        /\ sv.request = "SAMPLE_CACHE" <=> c[q[1].call] = Cache
        /\ sv.length \in Nat /\ d \in Int
    BY DataPolled
  <1>3. \/ m \in 1..Len(q) /\ m >= Len(g) /\ Handle(sv.request, SubSeq(q, 1, m))
        \/ /\ sv'.state = sv.state /\ sv'.request = sv.request /\ l \in Nat /\ l < d
           /\ Len(sv'.got) = Len(g) + l - sv.length
           /\ Queue' = q /\ UNCHANGED back
    BY DataPolled DEF Live
  <1>4. CASE m \in 1..Len(q) /\ m >= Len(g) /\ Handle(sv.request, SubSeq(q, 1, m))
    <2> HIDE DEF m
    <2> QED  BY <1>1, <1>2, <1>4, HandleStream DEF m
  <1>5. CASE /\ sv'.state = sv.state /\ sv'.request = sv.request /\ l \in Nat /\ l < d
             /\ Len(sv'.got) = Len(g) + l - sv.length
             /\ Queue' = q /\ UNCHANGED back
    <2>1. /\ Now' = Now /\ api' = api /\ Writing' = Writing /\ Reading' = Reading
          /\ Start' = Start /\ calls' = c
      BY <1>1 DEF Now, api, Writing, Reading, Step, Start
    <2>2. HeadOK(q) /\ TailOK(q) /\ Chain(c, q)
      BY DEF StreamOK
    <2> HIDE DEF q, c, l
    <2>3. HeadOK(Queue)'
      <3>1. CASE sv.request = "CONNECT"
        <4>1. /\ Len(g) = sv.length /\ Now = 1 /\ back = <<>> /\ (step = 0 => ~ open)
          BY <1>1, <2>2, <3>1 DEF HeadOK
        <4>2. Len(sv'.got) = l /\ l < data_length["CONNECT"]
          BY <1>2, <1>5, <3>1, <4>1
        <4> QED  BY <1>1, <1>2, <1>5, <2>1, <3>1, <4>1, <4>2 DEF HeadOK, l
      <3>2. CASE sv.request # "CONNECT"
        <4>1. /\ Len(g) = IntSize + sv.length /\ c[q[1].call] \in DOMAIN Requests
              /\ sv.request = Requests[c[q[1].call]] /\ ~ (Writing /\ Now = 1)
          BY <1>1, <2>2, <3>2 DEF HeadOK, c
        <4>2. Len(sv'.got) = IntSize + l /\ l < data_length[sv.request]
          BY <1>2, <1>5, <4>1, ProtocolAssumption
        <4> QED  BY <1>1, <1>2, <1>5, <2>1, <3>2, <4>1, <4>2 DEF HeadOK, l
      <3> QED  BY <3>1, <3>2
    <2>4. TailOK(Queue)'
      <3>1. Uploads(Queue)' = Uploads(q)
        BY <1>2, <1>5, <2>1 DEF Uploads, c
      <3>2. Boundary(Uploads(q)) => Boundary(Uploads(Queue))'
        BY <1>1, <2>1, <3>1 DEF Boundary
      <3> QED  BY <1>1, <1>5, <2>1, <2>2, <3>1, <3>2 DEF TailOK, c
    <2> QED  BY <1>5, <2>1, <2>2, <2>3, <2>4 DEF StreamOK
  <1> QED  BY <1>3, <1>4, <1>5

LEMMA NextStream ==
  ASSUME Types, Types', StreamInv, [Next]_vars
  PROVE  StreamInv'
  <1>1. CASE UNCHANGED vars
    BY <1>1 DEF vars, StreamInv, StreamOK, HeadOK, TailOK, Boundary, Uploads, Garbled, Queue,
                Now, api, Start, Step, Writing, Reading
  <1>2. CASE Next
    <2> SUFFICES ASSUME sv'.state \in Live, ~ Garbled'
                 PROVE  StreamOK'
      BY DEF StreamInv
    <2>1. ~ Garbled
      BY <1>2, NextGrows
    <2>2. sv.state \in Live => StreamOK
      BY <2>1 DEF StreamInv
    <2>3. ASSUME UNCHANGED sv PROVE StreamOK /\ sv.state \in Live
      BY <2>2, <2>3
    <2>4. ASSUME NEW a \in Used, Call(a) PROVE StreamOK'
      BY <2>3, <2>4, CallStream DEF Call
    <2>5. CASE Close
      BY <2>3, <2>5, CloseStream DEF Close
    <2>6. CASE Write
      BY <2>3, <2>6, WriteStream DEF Write
    <2>7. CASE WriteTimeout
      BY <2>3, <2>7, WriteTimeoutStream DEF WriteTimeout
    <2>8. CASE WriteClosed \/ ReadEnd
      BY <2>3, <2>8 DEF WriteClosed, ReadEnd, Live
    <2>9. CASE NoKey
      BY <2>9, SuffersGarbled DEF NoKey
    <2>10. CASE Read
      BY <2>3, <2>10, ReadStream DEF Read
    <2>11. CASE ReadTimeout
      BY <2>3, <2>11, ReadTimeoutStream DEF ReadTimeout
    <2>12. CASE PollRequest
      BY <2>2, <2>12, PollRequestStream DEF PollRequest, Live
    <2>13. CASE PollData
      BY <2>2, <2>13, PollDataStream DEF PollData, Live
    <2>14. CASE PollSample
      BY <2>2, <2>14, PollSampleStream DEF PollSample, Live
    <2>15. CASE PollEnd
      BY <2>15 DEF PollEnd, Erase, Live
    <2> QED
      BY <1>2, <2>4, <2>5, <2>6, <2>7, <2>8, <2>9, <2>10, <2>11, <2>12, <2>13, <2>14, <2>15
      DEF Next, Client, Server
  <1> QED  BY <1>1, <1>2

\* What has been read of a request is the beginning of a message.
LEMMA StreamAligned ==
  ASSUME Types, StreamInv
  PROVE  Aligned
  <1> SUFFICES ASSUME ~ Garbled, sv.got # <<>>
               PROVE  Owner(sv.got) # 0
    BY DEF Aligned
  <1>1. sv.state = "NEEDS_REQDATA"
    BY DEF Types, WireOK
  <1>2. StreamOK
    BY <1>1 DEF StreamInv, Live
  <1> DEFINE q == Queue
             g == sv.got
             k == Len(g)
  <1>3. /\ g \in Seq(Piece) /\ sent \in Seq(Piece) /\ MadeBy(calls, q)
        /\ Len(q) = Len(g) + Len(sent) /\ calls \in Seq(DOMAIN Steps)
    BY QueueMade
  <1>4. q # <<>> /\ k \in 1..Len(q) /\ 1 \in DOMAIN q
    BY <1>3 DEF MadeBy
  <1>5. k <= Msg(calls, q[1]) /\ q[1].pos = 1
    <2>1. /\ k \in Nat /\ Msg(calls, q[1]) \in Nat /\ k < Msg(calls, q[1]) /\ q[1].pos = 1
      BY <1>1, <1>2, <1>4, Waiting
    <2> QED  BY <2>1
  <1>6. SubSeq(q, 1, k) = g
    <2>1. q = g \o sent
      BY DEF Queue
    <2> HIDE DEF g, q
    <2> QED  BY <1>3, <2>1
  <1>7. q[1].call # 0
    BY <1>3, <1>4, MadePiece
  <1> HIDE DEF k, q
  <1>8. Owner(SubSeq(q, 1, k)) = q[1].call
    BY <1>2, <1>3, <1>4, <1>5, ChainFront DEF StreamOK, q
  <1> QED  BY <1>6, <1>7, <1>8

\* Unless something has garbled the stream, the daemon never puts a request
\* together from the pieces of two calls: what poll_client_requests() has read of a
\* request is the beginning of the message of one call, whatever calls the
\* application has made and however many answers have come too late.
THEOREM RequestsAligned == Spec => []Aligned
  <1>1. Init => Types /\ StreamInv
    BY InitTypes, InitStream
  <1>2. Types /\ StreamInv /\ [Next]_vars => (Types /\ StreamInv)'
    BY NextTypes, NextStream
  <1>3. Types /\ StreamInv => Aligned
    BY StreamAligned
  <1> QED  BY <1>1, <1>2, <1>3, PTL DEF Spec

----------------------------------------------------------------------------
(* The answers.                                                            *)

\* What is on the way to the client are whole words that answer some call.
WordsOK(b) ==
    /\ \A i \in DOMAIN b : b[i].pos \in 1..IntSize /\ b[i].call # 0
    /\ \A i \in DOMAIN b, j \in Int :
         b[i].pos + j - i \in 1..IntSize =>
           /\ j \in DOMAIN b /\ b[j].pos = b[i].pos + j - i
           /\ b[j].call = b[i].call /\ b[j].word = b[i].word /\ b[j].val = b[i].val
    /\ b # <<>> => b[1].pos = 1

LEMMA WordsFacts ==
  ASSUME NEW b \in Seq(BackPiece), WordsOK(b)
  PROVE  /\ IntSize \in Nat \ {0} /\ Len(b) \in Nat /\ DOMAIN b = 1..Len(b)
         /\ \A i \in 1..Len(b) : b[i].pos \in 1..IntSize /\ b[i].call # 0
         /\ \A i \in 1..Len(b), j \in Int :
              b[i].pos + j - i \in 1..IntSize =>
                /\ j \in 1..Len(b) /\ b[j].pos = b[i].pos + j - i
                /\ b[j].call = b[i].call /\ b[j].word = b[i].word /\ b[j].val = b[i].val
         /\ Len(b) > 0 => b[1].pos = 1
  <1>1. IntSize \in Nat \ {0} /\ Len(b) \in Nat /\ DOMAIN b = 1..Len(b)
    BY ProtocolAssumption
  <1>2. Len(b) > 0 => b # <<>>
    OBVIOUS
  <1> QED  BY <1>1, <1>2, Zenon DEF WordsOK

\* The client has read a word.
LEMMA WordsRest ==
  ASSUME NEW b \in Seq(BackPiece), WordsOK(b), IntSize <= Len(b)
  PROVE  /\ WordsOK(SubSeq(b, IntSize + 1, Len(b)))
         /\ \A i \in 1..IntSize : /\ b[i].pos = i /\ b[i].call = b[1].call
                                  /\ b[i].word = b[1].word /\ b[i].val = b[1].val
  <1> DEFINE x == SubSeq(b, IntSize + 1, Len(b))
             I == IntSize
             m == Len(b) - IntSize
  <1>1. I \in Nat \ {0} /\ Len(b) \in Nat /\ m \in Nat
    BY WordsFacts
  <1>2. x \in Seq(BackPiece) /\ Len(x) = m /\ \A i \in 1..m : x[i] = b[I + i]
    BY <1>1, Rest
  <1> HIDE DEF x
  <1>3. DOMAIN x = 1..m /\ \A i \in 1..m : I + i \in 1..Len(b) /\ x[i] = b[I + i]
    BY <1>1, <1>2
  <1>4. \A i \in 1..m : x[i].pos \in 1..I /\ x[i].call # 0
    BY <1>3, WordsFacts
  <1>5. ASSUME NEW i \in 1..I
        PROVE  /\ b[i].pos = i /\ b[i].call = b[1].call
               /\ b[i].word = b[1].word /\ b[i].val = b[1].val
    <2>1. 1 \in 1..Len(b) /\ b[1].pos = 1
      BY <1>1, WordsFacts
    <2>2. b[1].pos + i - 1 \in 1..I /\ b[1].pos + i - 1 = i /\ i \in Int
      BY <2>1, <1>1
    <2> QED  BY <2>1, <2>2, WordsFacts
  <1>6. ASSUME NEW i \in 1..m, NEW j \in Int, x[i].pos + j - i \in 1..I
        PROVE  /\ j \in 1..m /\ x[j].pos = x[i].pos + j - i
               /\ x[j].call = x[i].call /\ x[j].word = x[i].word /\ x[j].val = x[i].val
    <2> DEFINE h == I + j
    <2>1. I + i \in 1..Len(b) /\ x[i] = b[I + i] /\ x[i].pos \in 1..I /\ h \in Int
      BY <1>1, <1>3, <1>4
    <2>2. x[i].pos + h - (I + i) = x[i].pos + j - i
      BY <2>1, <1>1
    <2>3. /\ h \in 1..Len(b) /\ b[h].pos = x[i].pos + j - i
          /\ b[h].call = x[i].call /\ b[h].word = x[i].word /\ b[h].val = x[i].val
      <3> HIDE DEF h
      <3>1. b[I + i].pos + h - (I + i) \in 1..I
        BY <2>1, <2>2, <1>6
      <3>2. /\ h \in 1..Len(b) /\ b[h].pos = b[I + i].pos + h - (I + i)
            /\ b[h].call = b[I + i].call /\ b[h].word = b[I + i].word /\ b[h].val = b[I + i].val
        BY <3>1, <2>1, WordsFacts
      <3> QED  BY <3>2, <2>1, <2>2
    <2>4. h > I
      <3> SUFFICES ASSUME h <= I PROVE FALSE
        BY <1>1
      <3>1. b[h].pos = h
        BY <1>5, <2>3, <1>1
      <3>2. x[i].pos + j - i = I + j
        BY <3>1, <2>3
      <3> QED  BY <3>2, <2>1, <1>1
    <2>5. j \in 1..m /\ x[j] = b[h]
      <3>1. h \in 1..Len(b) /\ h > I /\ h = I + j
        BY <2>3, <2>4
      <3>2. j \in 1..m
        BY <3>1, <1>1
      <3> QED  BY <3>1, <3>2, <1>3
    <2> QED  BY <2>5, <2>3
  <1>7. x # <<>> => x[1].pos = 1
    <2> SUFFICES ASSUME x # <<>>, x[1].pos # 1 PROVE FALSE
      OBVIOUS
    <2>1. 1 \in 1..m
      BY <1>2, <1>1
    <2>2. x[1].pos \in 1..I /\ x[1].pos # 1
      BY <2>1, <1>4
    <2> DEFINE j == 2 - x[1].pos
    <2>3. j \in Int /\ x[1].pos + j - 1 = 1 /\ j < 1
      BY <2>2, <1>1
    <2> HIDE DEF j
    <2>4. x[1].pos + j - 1 \in 1..I
      BY <2>3, <1>1
    <2>5. j \in 1..m
      BY <2>1, <2>3, <2>4, <1>6
    <2> QED  BY <2>5, <2>3, <1>1
  <1>8. WordsOK(x)
    BY <1>3, <1>4, <1>6, <1>7, Zenon DEF WordsOK
  <1> QED  BY <1>5, <1>8 DEF x

LEMMA WordsConcat ==
  ASSUME NEW b \in Seq(BackPiece), WordsOK(b), NEW x \in Seq(BackPiece), WordsOK(x)
  PROVE  WordsOK(b \o x)
  <1> DEFINE y == b \o x
             I == IntSize
             m == Len(b)
             n == Len(x)
  <1>1. I \in Nat \ {0} /\ m \in Nat /\ n \in Nat
    BY WordsFacts
  <1>2. /\ y \in Seq(BackPiece) /\ Len(y) = m + n
        /\ \A i \in 1..(m + n) : y[i] = IF i <= m THEN b[i] ELSE x[i - m]
    BY Concat
  <1> HIDE DEF y
  <1>3. /\ DOMAIN y = 1..(m + n) /\ (\A i \in 1..m : y[i] = b[i])
        /\ \A i \in 1..n : m + i \in 1..(m + n) /\ y[m + i] = x[i]
    <2> HIDE DEF m, n
    <2>1. DOMAIN y = 1..(m + n)
      BY <1>2
    <2>2. ASSUME NEW i \in 1..m PROVE y[i] = b[i]
      <3>1. i \in 1..(m + n) /\ i <= m
        BY <1>1
      <3> QED  BY <1>2, <3>1
    <2>3. ASSUME NEW i \in 1..n PROVE m + i \in 1..(m + n) /\ y[m + i] = x[i]
      <3>1. m + i \in 1..(m + n) /\ ~ (m + i <= m) /\ (m + i) - m = i
        BY <1>1
      <3> QED  BY <1>2, <3>1
    <2> QED  BY <2>1, <2>2, <2>3
  <1>4. ASSUME NEW i \in DOMAIN y
        PROVE  /\ y[i].pos \in 1..I /\ y[i].call # 0
               /\ \A j \in Int : y[i].pos + j - i \in 1..I =>
                    /\ j \in DOMAIN y /\ y[j].pos = y[i].pos + j - i
                    /\ y[j].call = y[i].call /\ y[j].word = y[i].word /\ y[j].val = y[i].val
    <2>1. CASE i \in 1..m
      <3>1. y[i] = b[i]
        BY <2>1, <1>3
      <3>2. y[i].pos \in 1..I /\ y[i].call # 0
        BY <3>1, <2>1, WordsFacts
      <3>3. ASSUME NEW j \in Int, y[i].pos + j - i \in 1..I
            PROVE  /\ j \in DOMAIN y /\ y[j].pos = y[i].pos + j - i
                   /\ y[j].call = y[i].call /\ y[j].word = y[i].word /\ y[j].val = y[i].val
        <4>1. /\ j \in 1..m /\ b[j].pos = b[i].pos + j - i
              /\ b[j].call = b[i].call /\ b[j].word = b[i].word /\ b[j].val = b[i].val
          BY <3>1, <3>3, <2>1, WordsFacts
        <4>2. y[j] = b[j] /\ j \in DOMAIN y
          BY <4>1, <1>1, <1>3
        <4> QED  BY <4>1, <4>2, <3>1
      <3> QED  BY <3>2, <3>3
    <2>2. CASE i > m
      <3> DEFINE k == i - m
      <3>1. k \in 1..n /\ y[i] = x[k] /\ i = m + k
        BY <2>2, <1>1, <1>2, <1>3
      <3> HIDE DEF k
      <3>2. y[i].pos \in 1..I /\ y[i].call # 0
        BY <3>1, WordsFacts
      <3>3. ASSUME NEW j \in Int, y[i].pos + j - i \in 1..I
            PROVE  /\ j \in DOMAIN y /\ y[j].pos = y[i].pos + j - i
                   /\ y[j].call = y[i].call /\ y[j].word = y[i].word /\ y[j].val = y[i].val
        <4> DEFINE h == j - m
        <4>1. h \in Int /\ j = m + h /\ x[k].pos + h - k = y[i].pos + j - i
          BY <3>1, <3>2, <1>1
        <4> HIDE DEF h
        <4>2. x[k].pos + h - k \in 1..I
          BY <4>1, <3>3
        <4>3. /\ h \in 1..n /\ x[h].pos = x[k].pos + h - k
              /\ x[h].call = x[k].call /\ x[h].word = x[k].word /\ x[h].val = x[k].val
          BY <4>1, <4>2, <3>1, WordsFacts
        <4>4. y[j] = x[h] /\ j \in DOMAIN y
          BY <4>1, <4>3, <1>3
        <4> QED  BY <4>1, <4>3, <4>4, <3>1
      <3> QED  BY <3>2, <3>3
    <2> QED  BY <2>1, <2>2, <1>3, <1>1
  <1>5. y # <<>> => y[1].pos = 1
    <2> SUFFICES ASSUME y # <<>> PROVE y[1].pos = 1
      OBVIOUS
    <2>1. m > 0 \/ n > 0
      BY <1>1, <1>2
    <2>2. CASE m > 0
      <3>1. 1 \in 1..m
        BY <2>2, <1>1
      <3>2. y[1] = b[1]
        BY <3>1, <1>3
      <3> QED  BY <2>2, <3>2, WordsFacts
    <2>3. CASE m = 0 /\ n > 0
      <3>1. 1 \in 1..n /\ m + 1 = 1
        BY <2>3, <1>1
      <3>2. y[1] = x[1]
        BY <3>1, <1>3
      <3> QED  BY <3>2, <2>3, WordsFacts
    <2> QED  BY <2>1, <2>2, <2>3, <1>1
  <1>6. WordsOK(y)
    BY <1>4, <1>5, Zenon DEF WordsOK
  <1> QED  BY <1>6 DEF y

LEMMA WordsReply ==
  ASSUME NEW n \in Nat \ {0}, NEW i \in Nat, NEW words \in Seq({0, 1}), NEW x,
         IsReply(x, n, i, words)
  PROVE  WordsOK(x) /\ x \in Seq(BackPiece)
  <1>1. /\ x \in Seq(BackPiece) /\ Len(x) = IntSize * Len(words)
        /\ \A p \in DOMAIN x : x[p].call = n /\ x[p].pos \in 1..IntSize
        /\ \A p \in DOMAIN x : \E w \in 0..(Len(words) - 1) :
             /\ p = IntSize * w + x[p].pos /\ x[p].word = i + w /\ x[p].val = words[w + 1]
        /\ \A w \in 0..(Len(words) - 1), j \in 1..IntSize :
             /\ IntSize * w + j \in DOMAIN x
             /\ x[IntSize * w + j] = [call |-> n, word |-> i + w, val |-> words[w + 1],
                                      pos |-> j]
    BY Zenon DEF IsReply
  <1>2. IntSize \in Nat \ {0} /\ Len(words) \in Nat
    BY ProtocolAssumption
  <1>3. ASSUME NEW p \in DOMAIN x, NEW j \in Int, x[p].pos + j - p \in 1..IntSize
        PROVE  /\ j \in DOMAIN x /\ x[j].pos = x[p].pos + j - p
               /\ x[j].call = x[p].call /\ x[j].word = x[p].word /\ x[j].val = x[p].val
    <2>1. PICK w \in 0..(Len(words) - 1) : 
             /\ p = IntSize * w + x[p].pos /\ x[p].word = i + w /\ x[p].val = words[w + 1]
      BY <1>1, Zenon
    <2> DEFINE y == IntSize * w
               q == x[p].pos + j - p
    <2>2. y \in Nat
      BY <1>2, SMT
    <2>3. q \in 1..IntSize
      BY <1>3
    <2> HIDE DEF q
    <2>4. /\ y + q \in DOMAIN x
          /\ x[y + q] = [call |-> n, word |-> i + w, val |-> words[w + 1], pos |-> q]
      BY <1>1, <2>3, Zenon
    <2>5. p = y + x[p].pos /\ x[p].pos \in 1..IntSize /\ x[p].call = n
      BY <1>1, <2>1, Zenon
    <2> HIDE DEF y
    <2>6. j = y + q
      BY <2>2, <2>5, <1>2 DEF q
    <2>7. /\ x[y + q].pos = q /\ x[y + q].call = n /\ x[y + q].word = i + w
          /\ x[y + q].val = words[w + 1]
      BY <2>4
    <2>8. q = x[p].pos + j - p
      BY DEF q
    <2> QED  BY <2>1, <2>4, <2>5, <2>6, <2>7, <2>8
  <1>4. x # <<>> => x[1].pos = 1
    <2> SUFFICES ASSUME x # <<>> PROVE x[1].pos = 1
      OBVIOUS
    <2>1. 1 \in DOMAIN x
      BY <1>1
    <2>2. Len(words) # 0
      <3>1. PICK w \in 0..(Len(words) - 1) : TRUE
        BY <2>1, <1>1, Zenon
      <3> QED  BY <3>1, <1>2
    <2>3. 0 \in 0..(Len(words) - 1) /\ 1 \in 1..IntSize
      BY <2>2, <1>2
    <2>4. IntSize * 0 + 1 = 1
      BY <1>2
    <2>5. x[IntSize * 0 + 1] = [call |-> n, word |-> i + 0, val |-> words[0 + 1], pos |-> 1]
      BY <1>1, <2>3, Zenon
    <2> QED  BY <2>4, <2>5
  <1>5. WordsOK(x)
    <2>1. \A p \in DOMAIN x : x[p].pos \in 1..IntSize /\ x[p].call # 0
      BY <1>1, Zenon
    <2> QED  BY <2>1, <1>3, <1>4, Zenon DEF WordsOK
  <1> QED  BY <1>1, <1>5

----------------------------------------------------------------------------
(* The daemon answers a call when it has its whole message.                *)

\* The outcomes of the handler that call a leads to; those of read_sample() for
\* the data of a sample.
AnswersTo(a) ==
    IF a = "esd_send_auth" THEN handler["CONNECT"]
    ELSE IF a = Confirm THEN {Says(<<1>>)}
    ELSE handler[Requests[a]]

LEMMA AnswersTyped ==
  ASSUME NEW a \in DOMAIN Steps, NEW out \in AnswersTo(a)
  PROVE  out.words \in Seq({0, 1}) /\ out.state \in States
  <1>1. CASE a = "esd_send_auth"
    BY <1>1, Handlers, Outcomes DEF AnswersTo, States
  <1>2. CASE a = Confirm
    <2>1. out = Says(<<1>>)
      BY <1>2, SpecialSteps DEF AnswersTo, Confirm
    <2> QED  BY <2>1 DEF Says, States
  <1>3. CASE a # "esd_send_auth" /\ a # Confirm
    <2>1. a \in DOMAIN Requests /\ out \in handler[Requests[a]]
      BY <1>3, SpecialSteps DEF AnswersTo
    <2>2. Requests[a] \in DOMAIN handler
      BY <2>1, Handlers
    <2> QED  BY <2>1, <2>2, Outcomes DEF States
  <1> QED  BY <1>1, <1>2, <1>3

\* Nothing was answered; or the first message was, which is all there.
Unanswered == UNCHANGED back /\ (sv'.state = "NONE" \/ (sv'.state \in Live /\ Queue' = Queue))
FirstAnswered(out) ==
    LET m == Msg(calls, Queue[1])
    IN  /\ m \in 1..Len(Queue)
        /\ back' = back \o Reply(Queue[1].call, 1, out.words)
        /\ sv'.state = out.state
        /\ out.state # "NONE" => Queue' = SubSeq(Queue, m + 1, Len(Queue))

LEMMA AnsweredFirst ==
  ASSUME Types, StreamOK, Queue # <<>>, Queue[1].pos = 1,
         NEW m \in 1..Len(Queue), m = Msg(calls, Queue[1]), NEW out, Answered(m, out)
  PROVE  FirstAnswered(out)
  <1>1. calls \in Seq(DOMAIN Steps) /\ MadeBy(calls, Queue) /\ Chain(calls, Queue)
    BY QueueMade DEF StreamOK
  <1>2. m <= Msg(calls, Queue[1])
    OBVIOUS
  <1>3. Owner(SubSeq(Queue, 1, m)) = Queue[1].call
    BY <1>1, <1>2, ChainFront
  <1>4. out.state # "NONE" => Queue' = SubSeq(Queue, m + 1, Len(Queue))
    <2> SUFFICES ASSUME out.state # "NONE"
                 PROVE  Queue' = SubSeq(Queue, m + 1, Len(Queue))
      OBVIOUS
    <2> DEFINE x == SubSeq(Queue, m + 1, Len(Queue))
    <2>1. sv'.got = <<>> /\ sent' = x
      BY DEF Answered
    <2>2. x \in Seq(Piece)
      BY <1>1, ChainRest DEF MadeBy
    <2> HIDE DEF x
    <2>3. Queue' = x
      BY <2>1, <2>2 DEF Queue
    <2> QED  BY <2>3 DEF x
  <1> QED  BY <1>3, <1>4 DEF Answered, FirstAnswered

LEMMA Polled ==
  ASSUME Types, StreamOK, PollRequest \/ PollData \/ PollSample, ~ Garbled'
  PROVE  /\ UNCHANGED <<calls, step, last, results, open>>
         /\ Queue # <<>> /\ Queue[1].pos = 1
         /\ Unanswered \/ \E out \in AnswersTo(calls[Queue[1].call]) : FirstAnswered(out)
  <1> DEFINE q == Queue
             c == calls
             n == q[1].call
             m == Msg(c, q[1])
  <1>1. CASE PollRequest
    <2> DEFINE r == Requests[c[n]]
               got == SubSeq(q, 1, IntSize)
    <2>1. /\ q = sent /\ sv.got = <<>> /\ sent \in Seq(Piece)
          /\ q # <<>> /\ IntSize \in 1..Len(q) /\ q[1].pos = 1 /\ c[n] \in DOMAIN Requests
          /\ r \in DOMAIN handler \ {"CONNECT"}
          /\ (data_length[r] = 0 => m = IntSize)
          /\ got \in Seq(Piece) /\ Len(got) = IntSize
          /\ IF data_length[r] = 0 THEN Handle(r, got) ELSE NeedsData(r, got) /\ UNCHANGED back
      BY <1>1, RequestPolled
    <2>2. UNCHANGED <<calls, step, last, results, open>>
      BY <1>1 DEF PollRequest
    <2>3. CASE data_length[r] = 0
      <3>1. m \in 1..Len(q) /\ Handle(r, SubSeq(q, 1, m)) /\ m >= Len(sv.got)
        BY <2>1, <2>3, ProtocolAssumption
      <3> HIDE DEF m
      <3>2. PICK out \in handler[r] : Answered(m, out)
        BY <2>1, <3>1, Handled
      <3>3. FirstAnswered(out)
        BY <2>1, <3>1, <3>2, AnsweredFirst DEF m
      <3>4. out \in AnswersTo(c[n])
        BY <2>1, <3>2, SpecialSteps DEF AnswersTo
      <3> QED  BY <2>1, <2>2, <3>3, <3>4
    <2>4. CASE data_length[r] # 0
      <3> HIDE DEF r, got, q
      <3>1. /\ sv' = [state |-> "NEEDS_REQDATA", request |-> r, length |-> 0, got |-> got]
            /\ sent' = SubSeq(sent, 1 + Len(got), Len(sent)) /\ UNCHANGED back
        BY <2>1, <2>4 DEF NeedsData
      <3>2. sv'.state = "NEEDS_REQDATA" /\ sv'.got = got
        BY <3>1
      <3> DEFINE k == IntSize
      <3>3. k \in 0..Len(sent) /\ <<>> \in Seq(Piece) /\ sent \in Seq(Piece)
        BY <2>1, ProtocolAssumption
      <3>4. sent' = SubSeq(sent, k + 1, Len(sent)) /\ got = SubSeq(sent, 1, k)
        <4>1. 1 + Len(got) = k + 1 /\ q = sent
          BY <2>1, ProtocolAssumption
        <4> QED  BY <3>1, <4>1 DEF got
      <3> HIDE DEF k
      <3>5. (<<>> \o SubSeq(sent, 1, k)) \o SubSeq(sent, k + 1, Len(sent)) = <<>> \o sent
        BY <3>3, QueueSplit
      <3>6. <<>> \o SubSeq(sent, 1, k) = SubSeq(sent, 1, k) /\ <<>> \o sent = sent
        BY <3>3
      <3>7. Queue' = q
        BY <2>1, <3>2, <3>4, <3>5, <3>6 DEF Queue
      <3> QED  BY <2>1, <2>2, <3>1, <3>2, <3>7 DEF Unanswered, Live, q
    <2> QED  BY <2>3, <2>4
  <1>2. CASE PollData
    <2> DEFINE r == sv.request
    <2>1. /\ q # <<>> /\ q[1].pos = 1 /\ MadeBy(c, q) /\ r \in DOMAIN handler
          /\ \/ sv'.state = "NONE" /\ UNCHANGED back
             \/ m \in 1..Len(q) /\ m >= Len(sv.got) /\ Handle(r, SubSeq(q, 1, m))
             \/ sv'.state = sv.state /\ Queue' = q /\ UNCHANGED back
      BY <1>2, DataPolled
    <2>2. UNCHANGED <<calls, step, last, results, open>> /\ sv.state = "NEEDS_REQDATA"
      BY <1>2 DEF PollData
    <2>3. CASE \/ sv'.state = "NONE" /\ UNCHANGED back
               \/ sv'.state = sv.state /\ Queue' = q /\ UNCHANGED back
      BY <2>1, <2>2, <2>3 DEF Unanswered, Live
    <2>4. CASE m \in 1..Len(q) /\ m >= Len(sv.got) /\ Handle(r, SubSeq(q, 1, m))
      <3> HIDE DEF m
      <3>1. PICK out \in handler[r] : Answered(m, out)
        BY <2>1, <2>4, Handled
      <3>2. FirstAnswered(out)
        BY <2>1, <2>4, <3>1, AnsweredFirst DEF m
      <3>3. out \in AnswersTo(c[n])
        <4>1. HeadOK(q)
          BY DEF StreamOK
        <4>2. CASE r = "CONNECT"
          <5>1. Now = 1
            BY <2>2, <4>1, <4>2 DEF HeadOK
          <5>2. 1 \in DOMAIN q /\ c \in Seq(DOMAIN Steps) /\ Len(c) = Now
            BY <2>1, QueueMade DEF MadeBy
          <5>3. n \in Nat \ {0} /\ n <= 1 /\ n \in DOMAIN c
            BY <2>1, <5>1, <5>2, MadePiece DEF MadeBy
          <5>4. c[n] = "esd_send_auth"
            BY <5>3 DEF Types, CallsOK
          <5> QED  BY <3>1, <4>2, <5>4 DEF AnswersTo
        <4>3. CASE r # "CONNECT"
          <5>1. c[n] \in DOMAIN Requests /\ r = Requests[c[n]]
            BY <2>2, <4>1, <4>3 DEF HeadOK
          <5> QED  BY <3>1, <5>1, SpecialSteps DEF AnswersTo
        <4> QED  BY <4>2, <4>3
      <3> QED  BY <2>1, <2>2, <3>2, <3>3
    <2> QED  BY <2>1, <2>3, <2>4
  <1>3. CASE PollSample
    <2> DEFINE d == DataSize
    <2>1. /\ q # <<>> /\ q[1].pos = 1 /\ c[n] = Confirm
          /\ d \in 1..Len(q) /\ d = m /\ Answered(d, Says(<<1>>))
      BY <1>3, SamplePolled
    <2>2. UNCHANGED <<calls, step, last, results, open>>
      BY <1>3 DEF PollSample
    <2> HIDE DEF d
    <2>3. FirstAnswered(Says(<<1>>))
      BY <2>1, AnsweredFirst
    <2>4. Says(<<1>>) \in AnswersTo(c[n])
      BY <2>1, SpecialSteps DEF AnswersTo, Confirm
    <2> QED  BY <2>1, <2>2, <2>3, <2>4
  <1> QED  BY <1>1, <1>2, <1>3

----------------------------------------------------------------------------
(* What the client reads.                                                  *)

BackInv == ~ Garbled => WordsOK(back)

\* A whole word that is read has its call and its value.
LEMMA WordRead ==
  ASSUME Types, WordsOK(back), IntSize <= Len(back)
  PROVE  Word(IntSize) = [call |-> back[1].call, word |-> back[1].word, val |-> back[1].val]
  <1>1. back \in Seq(BackPiece) /\ Len(back) \in Nat /\ IntSize \in Nat \ {0}
    BY ProtocolAssumption DEF Types, WireOK
  <1>2. ASSUME NEW i \in 1..IntSize
        PROVE  back[i] = [back[1] EXCEPT !.pos = i]
    <2> DEFINE x == back[i]
               y == back[1]
    <2>1. x.pos = i /\ x.call = y.call /\ x.word = y.word /\ x.val = y.val
      BY <1>1, WordsRest
    <2>2. x \in BackPiece /\ y \in BackPiece
      BY <1>1
    <2> HIDE DEF x, y
    <2>3. x = [y EXCEPT !.pos = i]
      BY <2>1, <2>2 DEF BackPiece
    <2> QED  BY <2>3 DEF x, y
  <1> QED  BY <1>2 DEF Word

\* The client reads a whole word, unless the stream is garbled.
LEMMA WordTaken ==
  ASSUME Types, Read, ~ Garbled'
  PROVE  /\ Reading /\ IntSize \in 1..Len(back) /\ UNCHANGED <<calls, sent, sv, fault>>
         /\ back' = SubSeq(back, IntSize + 1, Len(back))
         /\ GoOn(AfterRead(Word(IntSize)), Word(IntSize))
  <1>1. Reading /\ Step.size = IntSize /\ UNCHANGED <<calls, sent, sv>>
    BY ReadingStep DEF Read
  <1>2. PICK k \in 1..Step.size :
         /\ k <= Len(back)
         /\ back' = SubSeq(back, k + 1, Len(back))
         /\ IF k = Step.size THEN GoOn(AfterRead(Word(k)), Word(k)) ELSE Failed
         /\ Splits(k, Step.size, back)
    BY DEF Read
  <1>3. k = Step.size /\ UNCHANGED fault
    BY <1>2, SplitsGrow
  <1>4. IntSize \in Nat \ {0} /\ Len(back) \in Nat
    BY ProtocolAssumption DEF Types, WireOK
  <1> QED  BY <1>1, <1>2, <1>3, <1>4

\* What a call returns.
LEMMA NewResult ==
  ASSUME Types, Next, ~ Garbled'
  PROVE  \/ UNCHANGED results
         \/ \E r : /\ step # 0 /\ results' = Append(results, r)
                   /\ r \in {Fail, Socket} \/ (r = Word(IntSize) /\ Read)
  <1>1. ASSUME NEW s, NEW r, GoOn(s, r), s \notin DOMAIN Steps[api]
        PROVE  results' = Append(results, r)
    BY <1>1 DEF GoOn, Returned
  <1>2. ASSUME NEW s, NEW r, GoOn(s, r), s \in DOMAIN Steps[api]
        PROVE  UNCHANGED results
    BY <1>2 DEF GoOn
  <1>3. ASSUME Failed, step # 0
        PROVE  UNCHANGED results \/ (step # 0 /\ results' = Append(results, Fail))
    BY <1>3 DEF Failed, Returned
  <1>4. CASE Write
    <2> DEFINE r == IF step = Len(Steps[api]) THEN Socket ELSE last
    <2>1. GoOn(step + 1, r) /\ Writing
      BY <1>4 DEF Write
    <2>2. CASE step + 1 \in DOMAIN Steps[api]
      BY <1>2, <2>1, <2>2
    <2>3. CASE step + 1 \notin DOMAIN Steps[api]
      <3>1. api \in DOMAIN Steps /\ step \in DOMAIN Steps[api]
        BY <2>1, WritingStep
      <3>2. step = Len(Steps[api])
        BY <2>3, <3>1, StepTyped
      <3>3. r = Socket
        BY <3>2
      <3> HIDE DEF r
      <3>4. results' = Append(results, r) /\ step # 0
        BY <1>1, <2>1, <2>3 DEF Writing
      <3> QED  BY <3>3, <3>4
    <2> QED  BY <2>2, <2>3
  <1>5. CASE Read
    <2>1. Reading /\ GoOn(AfterRead(Word(IntSize)), Word(IntSize))
      BY <1>5, WordTaken
    <2> QED  BY <1>1, <1>2, <1>5, <2>1 DEF Reading
  <1>6. CASE WriteTimeout \/ WriteClosed \/ ReadTimeout \/ ReadEnd
    BY <1>3, <1>6 DEF WriteTimeout, WriteClosed, Killed, ReadTimeout, ReadEnd, Writing, Reading
  <1>7. CASE NoKey
    BY <1>7, SuffersGarbled DEF NoKey
  <1>8. CASE (\E a \in Used : Call(a)) \/ Close \/ Server
    BY <1>8 DEF Call, Close, Server, PollRequest, PollData, PollSample, PollEnd
  <1> QED  BY <1>4, <1>5, <1>6, <1>7, <1>8 DEF Next, Client

LEMMA ResultIndex ==
  ASSUME Types, step # 0, NEW r, results' = Append(results, r)
  PROVE  /\ DOMAIN results' = DOMAIN results \cup {Now} /\ results'[Now] = r
         /\ \A n \in DOMAIN results : results'[n] = results[n]
  <1>1. results \in Seq(WordType) /\ Len(results) = Now - 1 /\ Now \in Nat \ {0}
    BY StepNow, ApiTyped DEF Types, ClientOK
  <1> HIDE DEF Now
  <1> QED  BY <1>1

LEMMA InitBack == Init => BackInv
  <1> SUFFICES ASSUME Init PROVE WordsOK(back)
    BY DEF BackInv
  <1>1. back = <<>>
    BY DEF Init
  <1> QED  BY <1>1 DEF WordsOK

LEMMA AnswerWords ==
  ASSUME Types, StreamOK, WordsOK(back), PollRequest \/ PollData \/ PollSample, ~ Garbled'
  PROVE  WordsOK(back')
  <1> DEFINE n == Queue[1].call
  <1>1. Queue # <<>>
    BY Polled
  <1>2. calls \in Seq(DOMAIN Steps) /\ MadeBy(calls, Queue) /\ 1 \in DOMAIN Queue
    BY <1>1, QueueMade DEF MadeBy
  <1>3. n \in Nat \ {0} /\ calls[n] \in DOMAIN Steps
    BY <1>2, MadePiece
  <1>4. CASE UNCHANGED back
    BY <1>4
  <1>5. ASSUME NEW out \in AnswersTo(calls[n]), FirstAnswered(out)
        PROVE  WordsOK(back')
    <2> DEFINE words == out.words
               x == Reply(n, 1, words)
    <2>1. words \in Seq({0, 1}) /\ n \in Nat /\ 1 \in Nat
      BY <1>3, <1>5, AnswersTyped
    <2>2. back' = back \o x
      BY <1>5 DEF FirstAnswered
    <2> HIDE DEF n, words
    <2>3. IsReply(x, n, 1, words)
      BY <2>1, ReplyPieces
    <2> HIDE DEF x
    <2>4. WordsOK(x) /\ x \in Seq(BackPiece)
      BY <1>3, <2>1, <2>3, WordsReply
    <2>5. back \in Seq(BackPiece)
      BY DEF Types, WireOK
    <2> QED  BY <2>2, <2>4, <2>5, WordsConcat
  <1> QED  BY <1>4, <1>5, Polled DEF Unanswered

LEMMA NextBack ==
  ASSUME Types, StreamInv, BackInv, [Next]_vars
  PROVE  BackInv'
  <1>1. CASE UNCHANGED vars
    BY <1>1 DEF vars, BackInv, Garbled
  <1>2. CASE Next
    <2> SUFFICES ASSUME ~ Garbled' PROVE WordsOK(back')
      BY DEF BackInv, WordsOK
    <2>1. WordsOK(back) /\ (sv.state \in Live => StreamOK)
      BY <1>2, NextGrows DEF BackInv, StreamInv
    <2>2. CASE UNCHANGED back
      BY <2>1, <2>2
    <2>3. CASE Read
      <3>1. back \in Seq(BackPiece)
        BY DEF Types, WireOK
      <3>2. IntSize <= Len(back) /\ back' = SubSeq(back, IntSize + 1, Len(back))
        BY <2>3, WordTaken, ProtocolAssumption
      <3> QED  BY <2>1, <3>1, <3>2, WordsRest
    <2>4. CASE PollRequest \/ PollData \/ PollSample
      BY <2>1, <2>4, AnswerWords DEF PollRequest, PollData, PollSample, Live
    <2> QED
      BY <1>2, <2>2, <2>3, <2>4
      DEF Next, Client, Server, Call, Close, Write, WriteTimeout, WriteClosed, NoKey, ReadTimeout,
          ReadEnd, PollEnd
  <1> QED  BY <1>1, <1>2

\* What a call has returned was an answer.
ResultsInv == ~ Garbled => \A n \in DOMAIN results : results[n] # Fail => results[n].call # 0

LEMMA NextResults ==
  ASSUME Types, BackInv, ResultsInv, [Next]_vars
  PROVE  ResultsInv'
  <1>1. CASE UNCHANGED vars
    BY <1>1 DEF vars, ResultsInv, Garbled
  <1>2. CASE Next
    <2> SUFFICES ASSUME ~ Garbled', NEW n \in DOMAIN results', results'[n] # Fail
                 PROVE  results'[n].call # 0
      BY DEF ResultsInv
    <2>1. WordsOK(back) /\ \A i \in DOMAIN results : results[i] # Fail => results[i].call # 0
      BY <1>2, NextGrows DEF BackInv, ResultsInv
    <2>2. CASE UNCHANGED results
      BY <2>1, <2>2
    <2>3. ASSUME NEW r, step # 0, results' = Append(results, r),
                 r \in {Fail, Socket} \/ (r = Word(IntSize) /\ Read)
          PROVE  results'[n].call # 0
      <3>1. /\ DOMAIN results' = DOMAIN results \cup {Now} /\ results'[Now] = r
            /\ \A i \in DOMAIN results : results'[i] = results[i]
        BY <2>3, ResultIndex
      <3>2. CASE n # Now
        BY <2>1, <3>1, <3>2
      <3>3. CASE n = Now /\ r = Socket
        BY <3>1, <3>3, ApiTyped DEF Types, Socket
      <3>4. CASE n = Now /\ r = Word(IntSize) /\ Read
        <4>1. IntSize \in 1..Len(back)
          BY <3>4, WordTaken
        <4>2. back \in Seq(BackPiece) /\ IntSize <= Len(back) /\ 1 \in 1..Len(back)
          BY <4>1, ProtocolAssumption DEF Types, WireOK
        <4>3. r.call = back[1].call
          BY <2>1, <3>4, <4>2, WordRead
        <4>4. back[1].call # 0
          BY <2>1, <4>2, WordsFacts
        <4> QED  BY <3>1, <3>4, <4>3, <4>4
      <3> QED  BY <2>3, <3>1, <3>2, <3>3, <3>4
    <2> QED  BY <1>2, <2>2, <2>3, NewResult
  <1> QED  BY <1>1, <1>2

----------------------------------------------------------------------------
(* How many words a request is answered with, and a call reads.            *)

\* The words a call reads; esd_get_all_info() reads as many as there are.
Count(a) == IF a \in Keyed THEN 2 ELSE IF a = "esd_get_server_info" THEN 3 ELSE 1

\* A call with the steps x reads c words, once each.
ReadsWords(x, c) ==
    \A s \in DOMAIN x :
      /\ s - 1 \in DOMAIN x /\ x[s - 1].op = "write" /\ x[s].op = "read" => Len(x) - s + 1 = c
      /\ x[s].more = 0

LEMMA CallReads ==
  ASSUME NEW a \in DOMAIN Steps, a # "esd_get_all_info"
  PROVE  ReadsWords(Steps[a], Count(a))
  <1>1. ReadsWords(esd_send_auth, 1) /\ ReadsWords(WithAuth, 2) /\ ReadsWords(esd_get_latency, 1)
    BY DEF ReadsWords, esd_send_auth, WithAuth, esd_get_latency, W, R
  <1>2. ReadsWords(Stream, 1) /\ ReadsWords(esd_sample_cache, 1)
    BY DEF ReadsWords, Stream, esd_sample_cache, W, R
  <1>3. /\ ReadsWords(esd_confirm_sample_cache, 1) /\ ReadsWords(esd_sample_getid, 1)
        /\ ReadsWords(OfSample, 1)
    BY DEF ReadsWords, esd_confirm_sample_cache, esd_sample_getid, OfSample, W, R
  <1>4. ReadsWords(esd_get_server_info, 3)
    BY DEF ReadsWords, esd_get_server_info, Writes, Reads
  <1>5. ReadsWords(Pan, 1) /\ ReadsWords(esd_get_standby_mode, 1)
    BY DEF ReadsWords, Pan, esd_get_standby_mode, Writes, Reads
  <1> QED
    BY <1>1, <1>2, <1>3, <1>4, <1>5
    DEF Count, Keyed, Steps, esd_lock, esd_unlock, esd_standby, esd_resume, esd_play_stream,
        esd_record_stream, esd_monitor_stream, esd_filter_stream, esd_sample_free,
        esd_sample_play, esd_sample_loop, esd_sample_stop, esd_sample_kill,
        esd_set_stream_pan, esd_set_default_sample_pan

\* Only the calls that ask for a stream end with a write, and they read nothing.
LEMMA StreamCalls ==
  ASSUME NEW a \in DOMAIN Steps, NEW s \in DOMAIN Steps[a]
  PROVE  /\ a \in Streaming => Steps[a][s].op = "write"
         /\ Steps[a][s].op = "write" /\ s + 1 \notin DOMAIN Steps[a] => a \in Streaming
  <1> DEFINE Ends(x) == \A t \in DOMAIN x : x[t].op = "write" => t + 1 \in DOMAIN x
  <1>1. \A t \in DOMAIN Stream : Stream[t].op = "write"
    BY DEF Stream, W
  <1>2. Ends(esd_send_auth) /\ Ends(WithAuth) /\ Ends(esd_get_latency) /\ Ends(OfSample)
    BY DEF esd_send_auth, WithAuth, esd_get_latency, OfSample, W, R
  <1>3. Ends(esd_sample_cache) /\ Ends(esd_confirm_sample_cache) /\ Ends(esd_sample_getid)
    BY DEF esd_sample_cache, esd_confirm_sample_cache, esd_sample_getid, W, R
  <1>4. Ends(esd_get_server_info) /\ Ends(Pan) /\ Ends(esd_get_standby_mode)
    BY DEF esd_get_server_info, Pan, esd_get_standby_mode, Writes, Reads
  <1>5. Ends(esd_get_all_info)
    BY DEF esd_get_all_info, esd_get_server_info, Writes, Reads
  <1>6. a \in Streaming => Steps[a] = Stream
    BY DEF Streaming, Steps, esd_play_stream, esd_record_stream, esd_monitor_stream,
           esd_filter_stream
  <1> HIDE DEF Ends
  <1>7. a \notin Streaming => Ends(Steps[a])
    BY <1>2, <1>3, <1>4, <1>5
    DEF Streaming, Steps, esd_lock, esd_unlock, esd_standby, esd_resume, esd_sample_free,
        esd_sample_play, esd_sample_loop, esd_sample_stop, esd_sample_kill,
        esd_set_stream_pan, esd_set_default_sample_pan
  <1> QED  BY <1>1, <1>6, <1>7 DEF Ends

\* A refusal without words is followed by the end of the connection; one with
\* words has as many as an answer.
LEMMA AnswerCount ==
  ASSUME NEW a \in DOMAIN Steps, a # "esd_get_all_info", NEW out \in AnswersTo(a)
  PROVE  IF a \in Streaming
         THEN out.words = <<>> /\ out.state \in {"NONE", "STREAMING_DATA"}
         ELSE /\ Len(out.words) = Count(a) \/ (out.words = <<>> /\ out.state = "NONE")
              /\ out.state # "STREAMING_DATA"
  <1>1. CASE a = "esd_send_auth"
    <2>1. out \in {Says(<<1>>), Fails(<<0>>), Fails(<<1>>)}
      BY <1>1 DEF AnswersTo, handler, esd_proto_connect
    <2> QED  BY <1>1, <2>1 DEF Says, Fails, Count, Keyed, Streaming
  <1>2. CASE a = Confirm
    <2>1. out = Says(<<1>>)
      BY <1>2 DEF AnswersTo, Confirm
    <2> QED  BY <1>2, <2>1 DEF Says, Count, Keyed, Streaming, Confirm
  <1>3. CASE a \in Streaming
    <2>1. out \in NewStreamOutcomes
      BY <1>3 DEF AnswersTo, Confirm, Streaming, Requests, handler, esd_proto_stream_play,
                  esd_proto_stream_recorder, esd_proto_stream_monitor, esd_proto_stream_filter
    <2> QED  BY <1>3, <2>1 DEF NewStreamOutcomes, Fails
  <1>4. CASE a \in Keyed
    <2>1. out \in {Says(<<1, 1>>), Fails(<<0, 0>>), Fails(<<1, 0>>)}
      BY <1>4 DEF AnswersTo, Confirm, Keyed, Requests, handler, esd_proto_lock, esd_proto_unlock,
                  esd_proto_standby, esd_proto_resume
    <2> QED  BY <1>4, <2>1 DEF Says, Fails, Count, Keyed, Streaming
  <1>5. CASE a = "esd_get_server_info"
    <2>1. out = Says(<<0, 1, 1>>)
      BY <1>5 DEF AnswersTo, Confirm, Requests, handler, esd_proto_server_info
    <2> QED  BY <1>5, <2>1 DEF Says, Count, Keyed, Streaming
  <1>6. CASE a \in {"esd_sample_cache", "esd_sample_kill"}
    <2>1. out \in {[words |-> <<1>>, state |-> "CACHING_SAMPLE"], Fails(<<>>)}
      BY <1>6 DEF AnswersTo, Confirm, Requests, handler, esd_proto_sample_cache,
                  esd_proto_unimplemented
    <2>2. a \notin Streaming /\ Count(a) = 1
      BY <1>6 DEF Count, Keyed, Streaming
    <2>3. CASE out = [words |-> <<1>>, state |-> "CACHING_SAMPLE"]
      BY <2>2, <2>3
    <2>4. CASE out = Fails(<<>>)
      BY <2>2, <2>4 DEF Fails
    <2> QED  BY <2>1, <2>3, <2>4
  <1>7. CASE a \notin Keyed \cup Streaming \cup
                {"esd_send_auth", Confirm, "esd_get_server_info", "esd_sample_cache", "esd_sample_kill"}
    <2>1. out \in {Says(<<1>>), Says(<<0>>)}
      BY <1>7
      DEF AnswersTo, Confirm, Keyed, Streaming, Steps, Requests, handler, esd_proto_sample_getid,
          esd_proto_sample_free, esd_proto_sample_play, esd_proto_sample_loop,
          esd_proto_sample_stop, esd_proto_stream_pan, esd_proto_sample_pan,
          esd_proto_standby_mode, esd_proto_get_latency
    <2>2. a \notin Streaming /\ Count(a) = 1
      BY <1>7 DEF Count
    <2>3. Len(out.words) = 1 /\ out.state = "NEXT_REQUEST"
      BY <2>1 DEF Says
    <2> QED  BY <2>2, <2>3
  <1> QED  BY <1>1, <1>2, <1>3, <1>4, <1>5, <1>6, <1>7

\* From the i-th word on there are the samples up to the one with id 0.
SamplesAt(words, i) ==
    \/ Len(words) = i + 1 /\ words[i] = 0
    \/ Len(words) = i + 3 /\ words[i] = 1 /\ words[i + 2] = 0

\* From the i-th word on there are the players up to the one with id 0, and then
\* the samples.
PlayersAt(words, i) ==
    \/ words[i] = 0 /\ SamplesAt(words, i + 2)
    \/ words[i] = 1 /\ words[i + 2] = 0 /\ SamplesAt(words, i + 4)

\* The words are those that call a has left to read from step s on, v being the
\* value of the word before.
Fits(a, s, v, words) ==
    IF a # "esd_get_all_info" THEN Len(words) = Len(Steps[a]) - s + 1
    ELSE \/ s \in 3..6 /\ PlayersAt(words, 7 - s)
         \/ s = 7 /\ v = 0 /\ SamplesAt(words, 2)
         \/ s = 7 /\ v = 1 /\ words[2] = 0 /\ SamplesAt(words, 4)
         \/ s = 8 /\ SamplesAt(words, 1)
         \/ s = 9 /\ v = 0 /\ Len(words) = 1
         \/ s = 9 /\ v = 1 /\ Len(words) = 3 /\ words[2] = 0

\* What the concatenation of two lists is, as far as it matters.
Joined(z, x, y) ==
    /\ Len(z) = Len(x) + Len(y)
    /\ \A i \in 1..Len(x) : z[i] = x[i]
    /\ Len(y) > 0 => z[Len(x) + 1] = y[1]

LEMMA Appended ==
  ASSUME NEW B, NEW x \in Seq(B), NEW y \in Seq(B)
  PROVE  x \o y \in Seq(B) /\ Joined(x \o y, x, y)
  <1>1. /\ x \o y \in Seq(B) /\ Len(x \o y) = Len(x) + Len(y)
        /\ \A i \in 1..Len(x) : (x \o y)[i] = x[i]
        /\ Len(y) > 0 => (x \o y)[Len(x) + 1] = y[1]
    OBVIOUS
  <1> QED  BY <1>1, Zenon DEF Joined

LEMMA AllInfoWords ==
  ASSUME NEW h, NEW p, NEW e, NEW s, NEW x, NEW y, NEW z, NEW words,
         Joined(x, h, p), Joined(y, x, e), Joined(z, y, s), Joined(words, z, e),
         Len(h) = 3, Len(e) = 2, e[1] = 0,
         Len(p) = 0 \/ (Len(p) = 2 /\ p[1] = 1), Len(s) = 0 \/ (Len(s) = 2 /\ s[1] = 1)
  PROVE  PlayersAt(words, 4)
  <1> DEFINE l == Len(x)
             k == Len(z)
  <1>1. /\ l = 3 + Len(p) /\ l \in {3, 5}
        /\ Len(p) = 2 => x[4] = 1
    <2>1. /\ Len(x) = 3 + Len(p)
          /\ Len(p) > 0 => x[3 + 1] = p[1]
      BY DEF Joined
    <2>2. Len(p) \in {0, 2} /\ (Len(p) = 2 => p[1] = 1)
      OBVIOUS
    <2>3. CASE Len(p) = 0
      BY <2>1, <2>3
    <2>4. CASE Len(p) = 2
      BY <2>1, <2>2, <2>4
    <2> QED  BY <2>2, <2>3, <2>4
  <1>2. Len(y) = l + 2 /\ (\A i \in 1..l : y[i] = x[i]) /\ y[l + 1] = 0
    BY <1>1 DEF Joined
  <1> HIDE DEF l, k
  <1>3. /\ k = (l + 2) + Len(s) /\ (\A i \in 1..(l + 2) : z[i] = y[i])
        /\ Len(s) = 2 => z[l + 3] = 1
    BY <1>1, <1>2 DEF Joined, k
  <1>4. k \in Nat
    BY <1>1, <1>3
  <1>5. /\ Len(words) = k + 2 /\ (\A i \in 1..k : words[i] = z[i])
        /\ words[k + 1] = 0
    BY <1>4 DEF Joined, k
  <1>6. SamplesAt(words, l + 3)
    <2>1. CASE Len(s) = 0
      <3>1. Len(words) = (l + 3) + 1 /\ words[l + 3] = 0
        BY <1>1, <1>3, <1>5, <2>1
      <3> QED  BY <3>1 DEF SamplesAt
    <2>2. CASE Len(s) = 2
      <3>1. l + 3 \in 1..k /\ k + 1 = (l + 3) + 2 /\ k + 2 = (l + 3) + 3
        BY <1>1, <1>3, <2>2
      <3>2. Len(words) = (l + 3) + 3 /\ words[l + 3] = 1 /\ words[(l + 3) + 2] = 0
        BY <1>3, <1>5, <2>2, <3>1
      <3> QED  BY <3>2 DEF SamplesAt
    <2> QED  BY <2>1, <2>2
  <1>7. \A i \in 1..(l + 2) : words[i] = y[i]
    BY <1>1, <1>3, <1>4, <1>5
  <1>8. CASE Len(p) = 0
    <2>1. l = 3
      BY <1>1, <1>8
    <2>2. words[4] = 0
      BY <1>2, <1>7, <2>1
    <2> QED  BY <1>6, <2>1, <2>2 DEF PlayersAt
  <1>9. CASE Len(p) = 2
    <2>1. l = 5 /\ x[4] = 1
      BY <1>1, <1>9
    <2>2. words[4] = 1 /\ words[6] = 0
      BY <1>2, <1>7, <2>1
    <2> QED  BY <1>6, <2>1, <2>2 DEF PlayersAt
  <1> QED  BY <1>8, <1>9

LEMMA AllInfoAnswer ==
  ASSUME NEW out \in AnswersTo("esd_get_all_info")
  PROVE  PlayersAt(out.words, 4) /\ out.state = "NEXT_REQUEST"
  <1>1. out \in esd_proto_all_info
    BY DEF AnswersTo, Confirm, Requests, handler
  <1>2. PICK p \in {<<>>, <<1, 1>>}, s \in {<<>>, <<1, 1>>} :
          out = Says(<<0, 1, 1>> \o p \o <<0, 0>> \o s \o <<0, 0>>)
    BY <1>1 DEF esd_proto_all_info
  <1>3. out.state = "NEXT_REQUEST" /\ out.words = <<0, 1, 1>> \o p \o <<0, 0>> \o s \o <<0, 0>>
    BY <1>2 DEF Says
  <1> DEFINE B == {0, 1}
             h == <<0, 1, 1>>
             e == <<0, 0>>
  <1>4. /\ h \in Seq(B) /\ e \in Seq(B) /\ p \in Seq(B) /\ s \in Seq(B)
        /\ Len(h) = 3 /\ Len(e) = 2 /\ e[1] = 0
        /\ Len(p) = 0 \/ (Len(p) = 2 /\ p[1] = 1)
        /\ Len(s) = 0 \/ (Len(s) = 2 /\ s[1] = 1)
    <2>1. h \in Seq(B) /\ e \in Seq(B) /\ p \in Seq(B) /\ s \in Seq(B)
      BY SomeWords
    <2>2. Len(h) = 3 /\ Len(e) = 2 /\ e[1] = 0
      OBVIOUS
    <2>3. Len(p) = 0 \/ (Len(p) = 2 /\ p[1] = 1)
      OBVIOUS
    <2>4. Len(s) = 0 \/ (Len(s) = 2 /\ s[1] = 1)
      OBVIOUS
    <2> QED  BY <2>1, <2>2, <2>3, <2>4
  <1>5. out.words = (((h \o p) \o e) \o s) \o e
    BY <1>3
  <1> HIDE DEF B, h, e
  <1>6. PlayersAt((((h \o p) \o e) \o s) \o e, 4)
    <2>1. h \o p \in Seq(B) /\ Joined(h \o p, h, p)
      BY <1>4, Appended, Zenon
    <2> DEFINE x == h \o p
    <2> HIDE DEF x
    <2>2. x \o e \in Seq(B) /\ Joined(x \o e, x, e) /\ Joined(x, h, p)
      BY <1>4, <2>1, Appended, Zenon DEF x
    <2> DEFINE y == x \o e
    <2> HIDE DEF y
    <2>3. y \o s \in Seq(B) /\ Joined(y \o s, y, s) /\ Joined(y, x, e)
      BY <1>4, <2>2, Appended, Zenon DEF y
    <2> DEFINE z == y \o s
    <2> HIDE DEF z
    <2>4. Joined(z \o e, z, e) /\ Joined(z, y, s)
      BY <1>4, <2>3, Appended, Zenon DEF z
    <2>5. PlayersAt(z \o e, 4)
      BY <1>4, <2>2, <2>3, <2>4, AllInfoWords, Zenon
    <2> QED  BY <2>5 DEF x, y, z
  <1> QED  BY <1>3, <1>5, <1>6

LEMMA TailWords ==
  ASSUME NEW words \in Seq({0, 1}), Len(words) > 0
  PROVE  /\ Tail(words) \in Seq({0, 1}) /\ Len(Tail(words)) = Len(words) - 1
         /\ \A i \in 1..(Len(words) - 1) : Tail(words)[i] = words[i + 1]
  OBVIOUS

LEMMA SamplesTail ==
  ASSUME NEW words \in Seq({0, 1}), NEW i \in Nat \ {0}, SamplesAt(words, i + 1)
  PROVE  Len(words) > i + 1 /\ SamplesAt(Tail(words), i)
  <1> DEFINE t == Tail(words)
  <1>1. Len(words) > i + 1 /\ Len(words) \in Nat
    BY DEF SamplesAt
  <1>2. Len(t) = Len(words) - 1 /\ \A j \in 1..(Len(words) - 1) : t[j] = words[j + 1]
    BY <1>1, TailWords
  <1> HIDE DEF t
  <1>3. CASE Len(words) = (i + 1) + 1 /\ words[i + 1] = 0
    <2>1. i \in 1..(Len(words) - 1)
      BY <1>3
    <2>2. Len(t) = i + 1 /\ t[i] = 0
      BY <1>2, <1>3, <2>1
    <2> QED  BY <1>1, <2>2 DEF SamplesAt, t
  <1>4. CASE Len(words) = (i + 1) + 3 /\ words[i + 1] = 1 /\ words[(i + 1) + 2] = 0
    <2>1. i \in 1..(Len(words) - 1) /\ i + 2 \in 1..(Len(words) - 1) /\ (i + 1) + 2 = (i + 2) + 1
      BY <1>4
    <2>2. Len(t) = i + 3 /\ t[i] = 1 /\ t[i + 2] = words[(i + 2) + 1]
      BY <1>2, <1>4, <2>1
    <2> QED  BY <1>1, <1>4, <2>1, <2>2 DEF SamplesAt, t
  <1> QED  BY <1>3, <1>4 DEF SamplesAt

LEMMA PlayersTail ==
  ASSUME NEW words \in Seq({0, 1}), NEW i \in Nat \ {0}, PlayersAt(words, i + 1)
  PROVE  Len(words) > i + 1 /\ PlayersAt(Tail(words), i)
  <1> DEFINE t == Tail(words)
  <1>1. CASE words[i + 1] = 0 /\ SamplesAt(words, (i + 1) + 2)
    <2>1. (i + 1) + 2 = (i + 2) + 1 /\ i + 2 \in Nat \ {0}
      OBVIOUS
    <2>2. Len(words) > (i + 2) + 1 /\ SamplesAt(t, i + 2)
      BY <1>1, <2>1, SamplesTail
    <2>3. t[i] = words[i + 1] /\ Len(words) > i + 1
      BY <2>2, TailWords
    <2> QED  BY <1>1, <2>2, <2>3 DEF PlayersAt
  <1>2. CASE words[i + 1] = 1 /\ words[(i + 1) + 2] = 0 /\ SamplesAt(words, (i + 1) + 4)
    <2>1. (i + 1) + 4 = (i + 4) + 1 /\ i + 4 \in Nat \ {0} /\ (i + 1) + 2 = (i + 2) + 1
      OBVIOUS
    <2>2. Len(words) > (i + 4) + 1 /\ SamplesAt(t, i + 4)
      BY <1>2, <2>1, SamplesTail
    <2>3. t[i] = words[i + 1] /\ t[i + 2] = words[(i + 2) + 1] /\ Len(words) > i + 1
      BY <2>2, TailWords
    <2> QED  BY <1>2, <2>1, <2>2, <2>3 DEF PlayersAt
  <1> QED  BY <1>1, <1>2 DEF PlayersAt

LEMMA AllInfoSteps ==
  /\ Len(Steps["esd_get_all_info"]) = 9 /\ "esd_get_all_info" \in DOMAIN Steps
  /\ \A s \in 1..9 : /\ Steps["esd_get_all_info"][s].op = IF s < 3 THEN "write" ELSE "read"
                     /\ Steps["esd_get_all_info"][s].more =
                          IF s = 7 THEN 6 ELSE IF s = 9 THEN 8 ELSE 0
  <1>1. /\ Len(esd_get_all_info) = 9
        /\ \A s \in 1..9 : /\ esd_get_all_info[s].op = IF s < 3 THEN "write" ELSE "read"
                           /\ esd_get_all_info[s].more =
                                IF s = 7 THEN 6 ELSE IF s = 9 THEN 8 ELSE 0
    BY DEF esd_get_all_info, esd_get_server_info, Writes, Reads
  <1>2. Steps["esd_get_all_info"] = esd_get_all_info /\ "esd_get_all_info" \in DOMAIN Steps
    BY DEF Steps
  <1> QED  BY <1>1, <1>2

\* The daemon answers with what the call that has sent its message reads; or it
\* closes the connection.
LEMMA FirstFits ==
  ASSUME NEW a \in DOMAIN Steps, NEW s \in DOMAIN Steps[a], s - 1 \in DOMAIN Steps[a],
         Steps[a][s - 1].op = "write", Steps[a][s].op = "read", NEW v,
         NEW out \in AnswersTo(a)
  PROVE  /\ Fits(a, s, v, out.words) \/ (out.words = <<>> /\ out.state = "NONE")
         /\ out.state # "STREAMING_DATA"
  <1>1. CASE a # "esd_get_all_info"
    <2>1. a \notin Streaming
      BY StreamCalls
    <2>2. /\ Len(out.words) = Count(a) \/ (out.words = <<>> /\ out.state = "NONE")
          /\ out.state # "STREAMING_DATA"
      BY <1>1, <2>1, AnswerCount
    <2>3. Len(Steps[a]) - s + 1 = Count(a)
      BY <1>1, CallReads DEF ReadsWords
    <2> QED  BY <1>1, <2>2, <2>3 DEF Fits
  <1>2. CASE a = "esd_get_all_info"
    <2>1. PlayersAt(out.words, 4) /\ out.state = "NEXT_REQUEST"
      BY <1>2, AllInfoAnswer
    <2>2. s \in 1..9 /\ s - 1 \in 1..9
      BY <1>2, AllInfoSteps, StepTyped
    <2>3. ~ (s < 3) /\ s - 1 < 3
      BY <1>2, <2>2, AllInfoSteps
    <2>4. s = 3 /\ 7 - 3 = 4
      BY <2>2, <2>3
    <2> QED  BY <1>2, <2>1, <2>4 DEF Fits
  <1> QED  BY <1>1, <1>2

\* After a word has been read, the rest is what is left to read.
LEMMA FitsNext ==
  ASSUME NEW a \in DOMAIN Steps, NEW s \in DOMAIN Steps[a], Steps[a][s].op = "read",
         NEW v \in Int, NEW words \in Seq({0, 1}), Fits(a, s, v, words),
         NEW t, t = IF Steps[a][s].more # 0 /\ v > 0 THEN Steps[a][s].more ELSE s + 1
  PROVE  /\ Len(words) > 0
         /\ IF t \in DOMAIN Steps[a] THEN Fits(a, t, words[1], Tail(words))
            ELSE Tail(words) = <<>>
  <1> DEFINE x == Tail(words)
  <1>1. Len(words) \in Nat /\ DOMAIN Steps[a] = 1..Len(Steps[a]) /\ Len(Steps[a]) \in Nat
    BY StepTyped
  <1>2. CASE a # "esd_get_all_info"
    <2>1. Steps[a][s].more = 0
      BY <1>2, CallReads DEF ReadsWords
    <2>2. t = s + 1 /\ Len(words) = Len(Steps[a]) - s + 1
      BY <1>2, <2>1 DEF Fits
    <2>3. Len(words) > 0
      BY <1>1, <2>2
    <2>4. x \in Seq({0, 1}) /\ Len(x) = Len(words) - 1
      BY <2>3, TailWords
    <2> HIDE DEF x
    <2>5. CASE t \in DOMAIN Steps[a]
      <3>1. Len(x) = Len(Steps[a]) - t + 1
        BY <1>1, <2>2, <2>4
      <3> QED  BY <1>2, <2>3, <2>5, <3>1 DEF Fits, x
    <2>6. CASE t \notin DOMAIN Steps[a]
      <3>1. Len(x) = 0
        BY <1>1, <2>2, <2>4, <2>6
      <3>2. x = <<>>
        BY <2>4, <3>1
      <3> QED  BY <2>3, <2>6, <3>2 DEF x
    <2> QED  BY <2>5, <2>6
  <1>3. CASE a = "esd_get_all_info"
    <2>1. s \in 1..9 /\ DOMAIN Steps[a] = 1..9 /\ ~ (s < 3)
      BY <1>1, <1>3, AllInfoSteps
    <2>2. Steps[a][s].more = IF s = 7 THEN 6 ELSE IF s = 9 THEN 8 ELSE 0
      BY <1>3, <2>1, AllInfoSteps
    <2>3. t = IF s = 7 /\ v > 0 THEN 6 ELSE IF s = 9 /\ v > 0 THEN 8 ELSE s + 1
      BY <2>1, <2>2
    <2>4. CASE s \in 3..5 /\ PlayersAt(words, 7 - s)
      <3> DEFINE i == 6 - s
      <3>1. i \in Nat \ {0} /\ 7 - s = i + 1 /\ t = s + 1 /\ 7 - t = i /\ t \in 3..6
        BY <2>3, <2>4
      <3> HIDE DEF i
      <3>2. Len(words) > i + 1 /\ PlayersAt(x, i)
        BY <2>4, <3>1, PlayersTail
      <3>3. Len(words) > 0 /\ t \in DOMAIN Steps[a]
        <4>1. t \in 1..9
          BY <3>1
        <4>2. Len(words) > 0
          BY <1>1, <3>1, <3>2
        <4> QED  BY <2>1, <4>1, <4>2
      <3> HIDE DEF x
      <3>4. Fits(a, t, words[1], x)
        BY <1>3, <3>1, <3>2 DEF Fits
      <3> QED  BY <3>3, <3>4 DEF x
    <2>5. CASE s = 6 /\ PlayersAt(words, 1)
      <3>1. t = 7 /\ t \in DOMAIN Steps[a]
        BY <2>1, <2>3, <2>5
      <3>2. CASE words[1] = 0 /\ SamplesAt(words, 3)
        <4>1. Len(words) > 3 /\ SamplesAt(x, 2)
          <5>1. 3 = 2 + 1 /\ 2 \in Nat \ {0}
            OBVIOUS
          <5> QED  BY <3>2, <5>1, SamplesTail
        <4> QED  BY <1>1, <1>3, <3>1, <3>2, <4>1 DEF Fits
      <3>3. CASE words[1] = 1 /\ words[3] = 0 /\ SamplesAt(words, 5)
        <4>1. Len(words) > 5 /\ SamplesAt(x, 4)
          <5>1. 5 = 4 + 1 /\ 4 \in Nat \ {0}
            OBVIOUS
          <5> QED  BY <3>3, <5>1, SamplesTail
        <4>2. x[2] = words[3] /\ Len(words) > 0
          BY <1>1, <4>1, TailWords
        <4> HIDE DEF x
        <4>3. Fits(a, t, words[1], x)
          BY <1>3, <3>1, <3>3, <4>1, <4>2 DEF Fits
        <4> QED  BY <3>1, <4>2, <4>3 DEF x
      <3> QED  BY <2>5, <3>2, <3>3 DEF PlayersAt
    <2>6. CASE s = 7 /\ v = 0 /\ SamplesAt(words, 2)
      <3>1. t = 8 /\ t \in DOMAIN Steps[a]
        BY <2>1, <2>3, <2>6
      <3>2. Len(words) > 2 /\ SamplesAt(x, 1)
        <4>1. 2 = 1 + 1 /\ 1 \in Nat \ {0}
          OBVIOUS
        <4> QED  BY <2>6, <4>1, SamplesTail
      <3> QED  BY <1>1, <1>3, <3>1, <3>2 DEF Fits
    <2>7. CASE s = 7 /\ v = 1 /\ words[2] = 0 /\ SamplesAt(words, 4)
      <3>1. t = 6 /\ t \in DOMAIN Steps[a] /\ 7 - t = 1 /\ t \in 3..6
        BY <2>1, <2>3, <2>7
      <3>2. Len(words) > 4 /\ SamplesAt(x, 3)
        <4>1. 4 = 3 + 1 /\ 3 \in Nat \ {0}
          OBVIOUS
        <4> QED  BY <2>7, <4>1, SamplesTail
      <3>3. x[1] = words[2] /\ Len(words) > 0
        BY <1>1, <3>2, TailWords
      <3> HIDE DEF x
      <3>4. PlayersAt(x, 1)
        BY <2>7, <3>2, <3>3 DEF PlayersAt
      <3>5. Fits(a, t, words[1], x)
        BY <1>3, <3>1, <3>4 DEF Fits
      <3> QED  BY <3>1, <3>3, <3>5 DEF x
    <2>8. CASE s = 8 /\ SamplesAt(words, 1)
      <3>1. t = 9 /\ t \in DOMAIN Steps[a]
        BY <2>1, <2>3, <2>8
      <3>2. Len(words) > 0
        BY <2>8 DEF SamplesAt
      <3>3. Len(x) = Len(words) - 1 /\ \A i \in 1..(Len(words) - 1) : x[i] = words[i + 1]
        BY <3>2, TailWords
      <3> HIDE DEF x
      <3>4. \/ words[1] = 0 /\ Len(x) = 1
            \/ words[1] = 1 /\ Len(x) = 3 /\ x[2] = 0
        BY <1>1, <2>8, <3>3 DEF SamplesAt
      <3>5. Fits(a, t, words[1], x)
        BY <1>3, <3>1, <3>4 DEF Fits
      <3> QED  BY <3>1, <3>2, <3>5 DEF x
    <2>9. CASE s = 9 /\ v = 0 /\ Len(words) = 1
      <3>1. t = 10 /\ t \notin DOMAIN Steps[a]
        BY <2>1, <2>3, <2>9
      <3>2. Len(words) > 0
        BY <2>9
      <3>3. x \in Seq({0, 1}) /\ Len(x) = Len(words) - 1
        BY <3>2, TailWords
      <3> HIDE DEF x
      <3>4. x = <<>>
        BY <2>9, <3>3
      <3> QED  BY <3>1, <3>2, <3>4 DEF x
    <2>10. CASE s = 9 /\ v = 1 /\ Len(words) = 3 /\ words[2] = 0
      <3>1. t = 8 /\ t \in DOMAIN Steps[a]
        BY <2>1, <2>3, <2>10
      <3>2. Len(x) = 2 /\ x[1] = words[2]
        <4>1. Len(words) > 0
          BY <2>10
        <4>2. Len(x) = Len(words) - 1 /\ \A i \in 1..(Len(words) - 1) : x[i] = words[i + 1]
          BY <4>1, TailWords
        <4> HIDE DEF x
        <4> QED  BY <2>10, <4>2
      <3> HIDE DEF x
      <3>3. SamplesAt(x, 1)
        BY <2>10, <3>2 DEF SamplesAt
      <3>4. Fits(a, t, words[1], x)
        BY <1>3, <3>1, <3>3 DEF Fits
      <3> QED  BY <2>10, <3>1, <3>4 DEF x
    <2>11. s \in 3..6 => s \in 3..5 \/ (s = 6 /\ 7 - s = 1)
      OBVIOUS
    <2> QED  BY <1>3, <2>4, <2>5, <2>6, <2>7, <2>8, <2>9, <2>10, <2>11 DEF Fits
  <1> QED  BY <1>2, <1>3

LEMMA Distributes ==
  ASSUME NEW k \in Nat, NEW w \in Nat
  PROVE  k * (w + 1) = k * w + k /\ k * w \in Nat
  BY SMT

\* What is left of a reply when the first word has been read.
LEMMA ReplyRest ==
  ASSUME NEW b, NEW n \in Nat, NEW i \in Nat, NEW words \in Seq({0, 1}),
         IsReply(b, n, i, words), Len(words) > 0
  PROVE  /\ IntSize \in 1..Len(b) /\ b[1].call = n /\ b[1].val = words[1]
         /\ IsReply(SubSeq(b, IntSize + 1, Len(b)), n, i + 1, Tail(words))
  <1> DEFINE I == IntSize
             x == SubSeq(b, I + 1, Len(b))
             t == Tail(words)
             l == Len(words) - 1
             L == I * l
  <1>1. I \in Nat \ {0} /\ l \in Nat /\ Len(words) = l + 1
    BY ProtocolAssumption
  <1>2. L \in Nat /\ I * (l + 1) = L + I
    BY <1>1, Distributes
  <1>3. /\ b \in Seq(BackPiece) /\ Len(b) = I * (l + 1)
        /\ \A p \in DOMAIN b : b[p].call = n /\ b[p].pos \in 1..I
        /\ \A p \in DOMAIN b : \E w \in 0..l :
             p = I * w + b[p].pos /\ b[p].word = i + w /\ b[p].val = words[w + 1]
        /\ \A w \in 0..l, j \in 1..I :
             /\ I * w + j \in DOMAIN b
             /\ b[I * w + j] = [call |-> n, word |-> i + w, val |-> words[w + 1], pos |-> j]
    BY <1>1, Zenon DEF IsReply
  <1>4. t \in Seq({0, 1}) /\ Len(t) = l /\ \A w \in 1..l : t[w] = words[w + 1]
    BY TailWords
  <1> HIDE DEF L, t, l
  <1>5. Len(b) = L + I /\ DOMAIN b = 1..(L + I) /\ I \in 0..Len(b) /\ I \in 1..Len(b)
    BY <1>1, <1>2, <1>3
  <1>6. x \in Seq(BackPiece) /\ Len(x) = L /\ \A p \in 1..L : x[p] = b[I + p]
    <2>1. /\ x \in Seq(BackPiece) /\ Len(x) = Len(b) - I
          /\ \A p \in 1..(Len(b) - I) : x[p] = b[I + p]
      <3>1. b \in Seq(BackPiece)
        BY <1>3
      <3>2. I \in 0..Len(b)
        BY <1>5
      <3> HIDE DEF I
      <3> QED  BY <3>1, <3>2, Rest
    <2>2. Len(b) - I = L
      BY <1>1, <1>2, <1>5
    <2> QED  BY <2>1, <2>2
  <1> HIDE DEF x
  <1>7. DOMAIN x = 1..L /\ \A p \in 1..L : I + p \in DOMAIN b
    BY <1>1, <1>2, <1>5, <1>6
  <1>8. b[1].call = n /\ b[1].val = words[1]
    <2>1. 0 \in 0..l /\ 1 \in 1..I /\ I * 0 + 1 = 1 /\ 0 + 1 = 1
      BY <1>1
    <2>2. b[I * 0 + 1] = [call |-> n, word |-> i + 0, val |-> words[0 + 1], pos |-> 1]
      BY <1>3, <2>1, Zenon
    <2> QED  BY <2>1, <2>2
  <1>9. ASSUME NEW p \in DOMAIN x
        PROVE  x[p].call = n /\ x[p].pos \in 1..I
    <2>1. I + p \in DOMAIN b /\ x[p] = b[I + p]
      BY <1>6, <1>7
    <2>2. b[I + p].call = n /\ b[I + p].pos \in 1..I
      BY <1>3, <2>1, Zenon
    <2> QED  BY <2>1, <2>2
  <1>10. ASSUME NEW w \in 0..(l - 1), NEW j \in 1..I
         PROVE  /\ I * w + j \in DOMAIN x
                /\ x[I * w + j] = [call |-> n, word |-> (i + 1) + w, val |-> t[w + 1], pos |-> j]
    <2> DEFINE W0 == I * w
               W1 == I * (w + 1)
    <2>1. w \in Nat /\ w + 1 \in 0..l /\ w + 1 \in 1..l /\ i + (w + 1) = (i + 1) + w
      BY <1>1
    <2>2. W0 \in Nat /\ W1 = W0 + I
      BY <1>1, <2>1, Distributes
    <2>3. /\ W1 + j \in DOMAIN b
          /\ b[W1 + j] = [call |-> n, word |-> i + (w + 1), val |-> words[(w + 1) + 1],
                          pos |-> j]
      BY <1>3, <2>1, Zenon
    <2>4. words[(w + 1) + 1] = t[w + 1]
      BY <1>4, <2>1
    <2> HIDE DEF W0, W1
    <2>5. W0 + j \in 1..L /\ W1 + j = I + (W0 + j)
      BY <1>1, <1>2, <1>5, <2>2, <2>3
    <2>6. x[W0 + j] = b[W1 + j]
      BY <1>6, <2>5
    <2>7. /\ W0 + j \in DOMAIN x
          /\ x[W0 + j] = [call |-> n, word |-> (i + 1) + w, val |-> t[w + 1], pos |-> j]
      BY <1>7, <2>1, <2>3, <2>4, <2>5, <2>6
    <2> QED  BY <2>7 DEF W0
  <1>11. ASSUME NEW p \in DOMAIN x
         PROVE  \E w \in 0..(l - 1) :
                  p = I * w + x[p].pos /\ x[p].word = (i + 1) + w /\ x[p].val = t[w + 1]
    <2>1. p \in 1..L /\ I + p \in DOMAIN b /\ x[p] = b[I + p]
      BY <1>6, <1>7
    <2> DEFINE y == x[p]
               q == I + p
    <2>2. PICK u \in 0..l :
            q = I * u + b[q].pos /\ b[q].word = i + u /\ b[q].val = words[u + 1]
      BY <1>3, <2>1, Zenon
    <2>3. y.pos \in 1..I /\ q = I * u + y.pos /\ y.word = i + u /\ y.val = words[u + 1]
      BY <1>9, <2>1, <2>2, Zenon
    <2> HIDE DEF y, q
    <2>4. u # 0
      <3> SUFFICES ASSUME u = 0 PROVE FALSE
        OBVIOUS
      <3>1. I * u = 0
        BY <1>1
      <3> QED  BY <1>1, <1>2, <2>1, <2>3, <3>1 DEF q
    <2> DEFINE w == u - 1
               W0 == I * w
    <2>5. w \in Nat /\ u = w + 1 /\ w \in 0..(l - 1) /\ w + 1 \in 1..l /\ i + u = (i + 1) + w
      BY <1>1, <2>4
    <2>6. t[w + 1] = words[u + 1]
      BY <1>4, <2>5
    <2> HIDE DEF w
    <2>7. W0 \in Nat /\ I * u = W0 + I
      BY <1>1, <2>5, Distributes
    <2> HIDE DEF W0
    <2>8. p = W0 + y.pos
      <3>1. I + p = (W0 + I) + y.pos
        BY <2>3, <2>7, Zenon DEF q
      <3>2. p \in Nat /\ y.pos \in Nat
        BY <1>1, <1>2, <2>1, <2>3
      <3> QED  BY <1>1, <2>7, <3>1, <3>2
    <2>9. p = I * w + x[p].pos /\ x[p].word = (i + 1) + w /\ x[p].val = t[w + 1]
      BY <2>3, <2>5, <2>6, <2>8 DEF W0, y
    <2> QED  BY <2>5, <2>9
  <1>12. IsReply(x, n, i + 1, t)
    BY <1>4, <1>6, <1>9, <1>10, <1>11, Zenon DEF IsReply, L
  <1> QED  BY <1>5, <1>8, <1>12 DEF x, t

\* A reply without words is none.
LEMMA ReplyNone ==
  ASSUME NEW b, NEW n, NEW i, IsReply(b, n, i, <<>>)
  PROVE  b = <<>>
  <1>1. b \in Seq(BackPiece) /\ Len(b) = IntSize * Len(<<>>)
    BY Zenon DEF IsReply
  <1>2. IntSize * Len(<<>>) = 0
    BY ProtocolAssumption
  <1> QED  BY <1>1, <1>2

----------------------------------------------------------------------------
(* While nothing has gone wrong there is one call at a time.               *)

\* The daemon has closed the connection, and nothing is left to read.
Ended == sv.state = "NONE" /\ back = <<>>

\* The message is on its way, and the client waits for the first word.
Waits == sv.state \in Live /\ Queue # <<>> /\ back = <<>> /\ Steps[api][step - 1].op = "write"

\* The daemon has answered, with what the call has left to read.
Answering ==
    /\ sv.state \in Live => Queue = <<>>
    /\ \E i \in Nat, words \in Seq({0, 1}) :
         IsReply(back, Now, i, words) /\ Fits(api, step, last.val, words)

OneCall ==
    /\ sv.state \in Live => \A i \in DOMAIN Queue : Queue[i].call = Now
    /\ step = 0 => back = <<>> /\ (sv.state \in Live => Queue = <<>> \/ api \in Streaming)
    /\ Writing => back = <<>>
    /\ sv.state = "STREAMING_DATA" => step = 0 /\ api \in Streaming
    /\ Reading => Ended \/ Waits \/ Answering

OwnResults == \A n \in DOMAIN results : results[n] # Fail => results[n].call = n

OneInv == fault = {} => OneCall /\ OwnResults

LEMMA InitOne == Init => OneInv
  <1> SUFFICES ASSUME Init PROVE OneCall /\ OwnResults
    BY DEF OneInv
  <1>1. /\ Queue = <<>> /\ back = <<>> /\ step = 1 /\ api = "esd_send_auth" /\ results = <<>>
        /\ sv.state = "NEEDS_REQDATA"
    BY DEF Init, Queue, Now, api
  <1>2. Steps["esd_send_auth"][1].op = "write"
    BY DEF Steps, esd_send_auth, W
  <1>3. ~ Reading
    BY <1>1, <1>2 DEF Reading, Step
  <1>4. OneCall
    BY <1>1, <1>3 DEF OneCall
  <1>5. OwnResults
    BY <1>1 DEF OwnResults
  <1> QED  BY <1>4, <1>5

LEMMA NoFault ==
  ASSUME fault = {}
  PROVE  ~ Garbled
  BY DEF Garbled

LEMMA FaultGrows ==
  ASSUME Next
  PROVE  fault \subseteq fault'
  <1>1. ASSUME NEW f, Suffers(f) PROVE fault \subseteq fault'
    BY <1>1 DEF Suffers
  <1>2. ASSUME NEW k, NEW size, NEW wire, Splits(k, size, wire) PROVE fault \subseteq fault'
    BY <1>1, <1>2 DEF Splits
  <1>3. CASE WriteTimeout \/ NoKey
    BY <1>1, <1>3 DEF WriteTimeout, NoKey
  <1>4. CASE Read \/ PollRequest
    BY <1>2, <1>4 DEF Read, PollRequest
  <1>5. CASE (\E a \in Used : Call(a)) \/ Close \/ Write \/ WriteClosed \/ ReadTimeout \/ ReadEnd
    BY <1>5 DEF Call, Close, Write, WriteClosed, Killed, ReadTimeout, ReadEnd
  <1>6. CASE PollData \/ PollSample \/ PollEnd
    BY <1>6 DEF PollData, PollSample, PollEnd
  <1> QED  BY <1>3, <1>4, <1>5, <1>6 DEF Next, Client, Server

LEMMA EndedOne ==
  ASSUME Ended'
  PROVE  OneCall'
  BY DEF Ended, OneCall, Live

\* The daemon goes away.
LEMMA ErasedOne ==
  ASSUME OneCall, UNCHANGED <<calls, step, last, back>>, sv'.state = "NONE"
  PROVE  OneCall'
  <1>1. Now' = Now /\ api' = api /\ Writing' = Writing /\ Reading' = Reading
    BY DEF Now, api, Writing, Reading, Step
  <1>2. sv'.state \notin Live /\ sv'.state # "STREAMING_DATA"
    BY DEF Live
  <1>3. Answering => Answering'
    BY <1>1, <1>2 DEF Answering
  <1>4. Ended \/ Waits => Ended'
    BY DEF Ended, Waits
  <1> QED  BY <1>1, <1>2, <1>3, <1>4 DEF OneCall

LEMMA SameOne ==
  ASSUME OneCall, UNCHANGED <<calls, step, last, back>>, Queue' = Queue,
         sv'.state \in Live, sv.state \in Live
  PROVE  OneCall'
  <1>1. Now' = Now /\ api' = api /\ Writing' = Writing /\ Reading' = Reading
    BY DEF Now, api, Writing, Reading, Step
  <1>2. sv'.state # "STREAMING_DATA" /\ sv.state # "NONE"
    BY DEF Live
  <1>3. Answering => Answering'
    BY <1>1 DEF Answering
  <1>4. Waits => Waits'
    BY <1>1 DEF Waits
  <1>5. ~ Ended
    BY <1>2 DEF Ended
  <1> QED  BY <1>1, <1>2, <1>3, <1>4, <1>5 DEF OneCall

LEMMA CallOne ==
  ASSUME Types, OneCall, NEW a \in Used, Call(a)
  PROVE  OneCall'
  <1>1. /\ step = 0 /\ step' = 1 /\ calls' = Append(calls, a) /\ UNCHANGED <<sent, back, sv>>
        /\ api \notin Streaming
    BY DEF Call
  <1>2. a \in DOMAIN Steps /\ calls \in Seq(DOMAIN Steps)
    BY ConversationAssumption DEF Types, CallsOK
  <1>3. api' = a
    BY <1>1, <1>2 DEF api, Now
  <1>4. Steps[a][1].op = "write"
    BY <1>2, StepsOK DEF ShapeOK
  <1>5. ~ Reading'
    BY <1>1, <1>3, <1>4 DEF Reading, Step
  <1>6. Queue' = Queue
    BY <1>1 DEF Queue
  <1>7. sv.state # "STREAMING_DATA" /\ (sv.state \in Live => Queue = <<>>) /\ back = <<>>
    BY <1>1 DEF OneCall
  <1> QED  BY <1>1, <1>5, <1>6, <1>7 DEF OneCall

LEMMA CloseOne ==
  ASSUME OneCall, Close
  PROVE  OneCall'
  <1>1. UNCHANGED <<calls, step, last, back, sv, sent>>
    BY DEF Close
  <1>2. /\ Queue' = Queue /\ Now' = Now /\ api' = api
        /\ Writing' = Writing /\ Reading' = Reading
    BY <1>1 DEF Queue, Now, api, Writing, Reading, Step
  <1>3. Answering' = Answering /\ Waits' = Waits /\ Ended' = Ended
    BY <1>1, <1>2 DEF Answering, Waits, Ended
  <1> QED  BY <1>1, <1>2, <1>3 DEF OneCall

\* The client writes a field of the call being made.
LEMMA WriteOne ==
  ASSUME Types, OneCall, Write
  PROVE  OneCall'
  <1>1. Writing /\ sv.state # "NONE" /\ UNCHANGED <<calls, back, sv, fault>>
    BY DEF Write
  <1>2. /\ api \in DOMAIN Steps /\ step \in DOMAIN Steps[api] /\ Step = Steps[api][step]
        /\ Step.op = "write" /\ step \in Nat \ {0} /\ Step.size \in Nat \ {0}
        /\ Now \in Nat \ {0} /\ Start \in Nat \ {0}
    BY <1>1, WritingStep
  <1> DEFINE q == Queue
             n == Now
             b == Start
             k == Step.size
             y == Pieces(n, b, k)
  <1>3. sv.got \in Seq(Piece) /\ sent \in Seq(Piece) /\ q \in Seq(Piece)
    BY QueueMade DEF MadeBy
  <1>4. y \in Seq(Piece) /\ Len(y) = k /\ \A j \in 1..k : y[j].call = n
    <2>1. CallsOK /\ b \in Nat \ {0} /\ k \in Nat
      BY <1>2 DEF Types
    <2> QED  BY <2>1, NowPieces
  <1>5. Queue' = q \o y
    <2>1. sent' = sent \o y /\ sv' = sv
      BY <1>1 DEF Write
    <2> DEFINE g == sv.got
    <2>2. g \in Seq(Piece) /\ sent \in Seq(Piece) /\ y \in Seq(Piece)
      BY <1>3, <1>4
    <2> HIDE DEF g, y
    <2>3. g \o (sent \o y) = (g \o sent) \o y
      BY <2>2
    <2> QED  BY <2>1, <2>3 DEF Queue, g
  <1>6. sv.state \in Live
    <2>1. sv.state \in States
      BY DEF Types, WireOK, SvType
    <2>2. sv.state # "STREAMING_DATA"
      BY <1>2 DEF OneCall
    <2> QED  BY <1>1, <2>1, <2>2 DEF States, Live
  <1>7. step' = (IF step + 1 \in DOMAIN Steps[api] THEN step + 1 ELSE 0)
    BY DEF Write, GoOn, Returned
  <1>8. Now' = n /\ api' = api
    BY <1>1 DEF Now, api
  <1>9. back = <<>> /\ \A i \in DOMAIN q : q[i].call = n
    BY <1>1, <1>6 DEF OneCall
  <1>10. k \in Nat \ {0}
    BY <1>2
  <1> HIDE DEF q, n, b, k, y
  <1> DEFINE x == q \o y
  <1>11. x # <<>> /\ \A i \in DOMAIN x : x[i].call = n
    <2>1. x \in Seq(Piece) /\ Len(x) = Len(q) + k
      <3>1. x \in Seq(Piece) /\ Len(x) = Len(q) + Len(y)
        BY <1>3, <1>4, Concat, Zenon
      <3> QED  BY <1>4, <3>1
    <2>2. \A i \in DOMAIN x : x[i] = IF i <= Len(q) THEN q[i] ELSE y[i - Len(q)]
      BY <1>3, <1>4, <1>10
    <2> HIDE DEF x
    <2>3. ASSUME NEW i \in DOMAIN x PROVE x[i].call = n
      <3>1. CASE i <= Len(q)
        BY <1>3, <1>9, <2>1, <2>2, <3>1
      <3>2. CASE i > Len(q)
        <4>1. i - Len(q) \in 1..k
          BY <1>3, <1>10, <2>1, <3>2
        <4> QED  BY <1>3, <1>4, <2>1, <2>2, <3>2, <4>1
      <3> QED  BY <1>3, <2>1, <3>1, <3>2
    <2> QED  BY <1>3, <1>10, <2>1, <2>3
  <1> HIDE DEF x
  <1>12. Queue' = x
    BY <1>5 DEF x
  <1>13. CASE step + 1 \in DOMAIN Steps[api]
    <2>1. step' = step + 1 /\ step' - 1 = step /\ step' # 0
      BY <1>2, <1>7, <1>13
    <2>2. Waits'
      BY <1>1, <1>2, <1>6, <1>8, <1>9, <1>11, <1>12, <2>1 DEF Waits
    <2> QED  BY <1>1, <1>6, <1>8, <1>9, <1>11, <1>12, <2>1, <2>2 DEF OneCall, Live
  <1>14. CASE step + 1 \notin DOMAIN Steps[api]
    <2>1. step' = 0 /\ ~ Reading'
      BY <1>7, <1>14 DEF Reading
    <2>2. api \in Streaming
      BY <1>2, <1>14, StreamCalls
    <2> QED  BY <1>1, <1>6, <1>8, <1>9, <1>11, <1>12, <2>1, <2>2 DEF OneCall, Live
  <1> QED  BY <1>13, <1>14

\* A call that could not be sent at all.
LEMMA WriteTimeoutOne ==
  ASSUME Types, StreamInv, OneCall, WriteTimeout, ~ Garbled'
  PROVE  OneCall'
  <1>1. Writing /\ Failed /\ sv.state # "NONE" /\ UNCHANGED <<calls, back, sv>>
    BY DEF WriteTimeout
  <1>2. PICK k \in 0..(Step.size - 1) :
          /\ sent' = sent \o Pieces(Now, Start, k)
          /\ IF Unsent(k) THEN UNCHANGED fault ELSE Suffers("torn")
    BY DEF WriteTimeout
  <1>3. k = 0 /\ step = 1 /\ Step.fail = 0 /\ UNCHANGED fault
    BY <1>2, SuffersGarbled DEF Unsent
  <1>4. sent' = sent
    <2>1. Pieces(Now, Start, 0) = <<>>
      BY DEF Pieces
    <2>2. sent \in Seq(Piece)
      BY QueueMade
    <2> QED  BY <1>2, <1>3, <2>1, <2>2
  <1>5. step' = 0 /\ ~ Reading' /\ ~ Writing'
    BY <1>1, <1>3 DEF Failed, Returned, Reading, Writing
  <1>6. Queue' = Queue /\ Now' = Now /\ api' = api
    BY <1>1, <1>4 DEF Queue, Now, api
  <1>7. back = <<>> /\ sv.state # "STREAMING_DATA"
    BY <1>1, <1>3 DEF OneCall
  <1>8. sv.state \in Live => Queue = <<>>
    <2> SUFFICES ASSUME sv.state \in Live, Queue # <<>>
                 PROVE  FALSE
      OBVIOUS
    <2>1. ~ Garbled
      BY Types, <1>3, NextGrows DEF Next, Client
    <2>2. TailOK(Queue)
      BY <2>1 DEF StreamInv, StreamOK
    <2>3. ~ (step > 1)
      BY <1>3
    <2>4. Queue[Len(Queue)].call < Now
      BY <1>1, <2>2, <2>3 DEF TailOK
    <2>5. Queue \in Seq(Piece) /\ Now \in Nat
      BY QueueMade, ApiTyped DEF MadeBy, Types
    <2>6. Len(Queue) \in DOMAIN Queue
      BY <2>5
    <2>7. Queue[Len(Queue)].call = Now
      BY <2>6 DEF OneCall
    <2> QED  BY <2>4, <2>5, <2>7
  <1> QED  BY <1>1, <1>5, <1>6, <1>7, <1>8 DEF OneCall

\* The client reads a word of the answer to the call being made.
LEMMA ReadOne ==
  ASSUME Types, OneCall, Read, ~ Garbled'
  PROVE  OneCall' /\ Word(IntSize).call = Now
  <1>1. /\ Reading /\ IntSize \in 1..Len(back) /\ UNCHANGED <<calls, sent, sv, fault>>
        /\ back' = SubSeq(back, IntSize + 1, Len(back))
        /\ GoOn(AfterRead(Word(IntSize)), Word(IntSize))
    BY WordTaken
  <1>2. /\ api \in DOMAIN Steps /\ step \in DOMAIN Steps[api] /\ Step = Steps[api][step]
        /\ Step.op = "read" /\ step # 0 /\ Now \in Nat \ {0}
    BY <1>1, ReadingStep
  <1>3. Answering
    <2>1. back # <<>>
      BY DEF Read
    <2> QED  BY <1>1, <2>1 DEF OneCall, Ended, Waits
  <1>4. PICK i \in Nat, words \in Seq({0, 1}) :
          IsReply(back, Now, i, words) /\ Fits(api, step, last.val, words)
    BY <1>3 DEF Answering
  <1> DEFINE w == Word(IntSize)
             t == AfterRead(w)
             rest == Tail(words)
             n == Now
             v == last.val
  <1>5. /\ Len(words) > 0
        /\ IF t \in DOMAIN Steps[api] THEN Fits(api, t, words[1], rest) ELSE rest = <<>>
    <2>1. v \in Int
      BY DEF Types, ClientOK, WordType
    <2>2. t = IF Steps[api][step].more # 0 /\ v > 0 THEN Steps[api][step].more ELSE step + 1
      BY <1>2 DEF AfterRead
    <2>3. Steps[api][step].op = "read"
      BY <1>2
    <2> HIDE DEF t
    <2> QED  BY <1>2, <1>4, <2>1, <2>2, <2>3, FitsNext
  <1> HIDE DEF n
  <1>6. n \in Nat \ {0} /\ n \in Nat /\ IsReply(back, n, i, words)
    BY <1>2, <1>4 DEF n
  <1>7. back[1].call = n /\ back[1].val = words[1] /\ IsReply(back', n, i + 1, rest)
    BY <1>1, <1>5, <1>6, ReplyRest
  <1>8. w.call = n /\ w.val = words[1]
    <2>1. WordsOK(back)
      BY <1>4, <1>6, WordsReply
    <2>2. IntSize <= Len(back)
      BY <1>1, ProtocolAssumption
    <2>3. w = [call |-> back[1].call, word |-> back[1].word, val |-> back[1].val]
      BY <2>1, <2>2, WordRead
    <2> QED  BY <1>7, <2>3
  <1>9. rest \in Seq({0, 1}) /\ i + 1 \in Nat
    BY <1>5, TailWords
  <1>10. t \in DOMAIN Steps[api] => Steps[api][t].op = "read" /\ t # 0
    <2>1. t \in DOMAIN Steps[api] => Steps[api][t].op = "read"
      BY <1>2, ReadsOn DEF AfterRead
    <2>2. 0 \notin DOMAIN Steps[api]
      BY <1>2, StepTyped
    <2> QED  BY <2>1, <2>2
  <1> HIDE DEF w, t, rest
  <1>11. GoOn(t, w)
    BY <1>1 DEF w, t
  <1>12. Now' = Now /\ api' = api /\ Queue' = Queue /\ sv'.state = sv.state
    BY <1>1 DEF Now, api, Queue
  <1>13. /\ sv.state \in Live => Queue = <<>>
         /\ sv.state # "STREAMING_DATA"
    BY <1>2, <1>3 DEF Answering, OneCall
  <1>14. CASE t \in DOMAIN Steps[api]
    <2>1. step' = t /\ last' = w
      BY <1>11, <1>14 DEF GoOn
    <2>2. ~ Writing' /\ step' # 0
      BY <1>10, <1>12, <1>14, <2>1 DEF Writing, Step
    <2>3. Fits(api, t, w.val, rest)
      BY <1>5, <1>8, <1>14
    <2>4. Answering'
      <3>1. IsReply(back', Now', i + 1, rest) /\ Fits(api', step', last'.val, rest)
        BY <1>7, <1>12, <2>1, <2>3 DEF n
      <3> QED  BY <1>9, <1>12, <1>13, <3>1 DEF Answering
    <2>5. OneCall'
      BY <1>12, <1>13, <2>2, <2>4 DEF OneCall
    <2> QED  BY <1>8, <2>5 DEF w, n
  <1>15. CASE t \notin DOMAIN Steps[api]
    <2>1. step' = 0 /\ ~ Writing' /\ ~ Reading'
      BY <1>11, <1>15 DEF GoOn, Returned, Writing, Reading
    <2>2. rest = <<>>
      BY <1>5, <1>15
    <2>3. back' = <<>>
      BY <1>7, <2>2, ReplyNone
    <2>4. OneCall'
      BY <1>12, <1>13, <2>1, <2>3 DEF OneCall
    <2> QED  BY <1>8, <2>4 DEF w, n
  <1> QED  BY <1>14, <1>15

\* The daemon handles the message of the call being made.
LEMMA PollOne ==
  ASSUME Types, StreamInv, OneCall, PollRequest \/ PollData \/ PollSample, ~ Garbled'
  PROVE  OneCall'
  <1>1. sv.state \in Live
    BY DEF PollRequest, PollData, PollSample, Live
  <1>2. ~ Garbled
    BY NextGrows DEF Next, Server
  <1>3. StreamOK
    BY <1>1, <1>2 DEF StreamInv
  <1> DEFINE q == Queue
             c == calls
             n == Now
             m == Msg(c, q[1])
  <1>4. /\ UNCHANGED <<calls, step, last, results, open>> /\ q # <<>> /\ q[1].pos = 1
        /\ Unanswered \/ \E out \in AnswersTo(c[q[1].call]) : FirstAnswered(out)
    BY <1>3, Polled
  <1>5. /\ c \in Seq(DOMAIN Steps) /\ MadeBy(c, q) /\ Chain(c, q) /\ TailOK(q)
        /\ api = c[n] /\ api \in DOMAIN Steps /\ n \in Nat \ {0}
    BY <1>3, QueueMade, ApiTyped DEF StreamOK, Types
  <1>6. q \in Seq(Piece) /\ Len(q) \in Nat \ {0} /\ DOMAIN q = 1..Len(q)
    BY <1>4, <1>5 DEF MadeBy
  <1>7. \A i \in 1..Len(q) : q[i].call = n
    BY <1>1, <1>6 DEF OneCall
  <1>8. /\ Now' = Now /\ api' = api /\ Writing' = Writing /\ Reading' = Reading
        /\ UNCHANGED <<calls, step, last>>
    BY <1>4 DEF Now, api, Writing, Reading, Step
  <1>9. CASE Unanswered
    BY <1>1, <1>8, <1>9, ErasedOne, SameOne DEF Unanswered
  <1>10. ASSUME NEW out \in AnswersTo(api), FirstAnswered(out)
         PROVE  OneCall'
    <2>1. /\ m \in 1..Len(q) /\ back' = back \o Reply(n, 1, out.words)
          /\ sv'.state = out.state
          /\ out.state # "NONE" => Queue' = SubSeq(q, m + 1, Len(q))
      BY <1>6, <1>7, <1>10 DEF FirstAnswered
    <2>2. m = Len(q)
      <3> SUFFICES ASSUME m < Len(q) PROVE FALSE
        BY <1>6, <2>1
      <3>1. q[m + 1].call > q[1].call
        BY <1>4, <1>5, <2>1, ChainNext
      <3>2. q[m + 1].call = n /\ q[1].call = n
        BY <1>6, <1>7, <2>1
      <3> QED  BY <1>5, <3>1, <3>2
    <2>3. out.state # "NONE" => Queue' = <<>>
      <3> HIDE DEF q
      <3>1. SubSeq(q, Len(q) + 1, Len(q)) = <<>>
        BY <1>6
      <3> QED  BY <2>1, <2>2, <3>1
    <2>4. ~ Writing
      <3> SUFFICES ASSUME Writing PROVE FALSE
        OBVIOUS
      <3>1. m <= Msg(c, q[1])
        BY <1>6, <2>1
      <3>2. q[m].call = q[1].call /\ q[m].pos = m
        BY <1>4, <1>5, <2>1, <3>1, ChainFront
      <3>3. Whole(c, q)
        BY <2>2, <3>2 DEF Whole, Msg
      <3>4. q[Len(q)].call < n /\ q[Len(q)].call = n
        BY <1>4, <1>5, <1>6, <1>7, <3>3 DEF TailOK
      <3> QED  BY <1>5, <3>4
    <2>5. out.words \in Seq({0, 1})
      BY <1>5, <1>10, AnswersTyped
    <2> DEFINE words == out.words
               x == Reply(n, 1, words)
    <2> HIDE DEF n, m, q, words
    <2>6. IsReply(x, n, 1, words)
      BY <1>5, <2>5, ReplyPieces DEF words
    <2>7. back' = back \o x
      BY <2>1 DEF words
    <2> HIDE DEF x
    <2>8. back = <<>> => back' = x
      <3>1. x \in Seq(BackPiece)
        BY <2>6, Zenon DEF IsReply
      <3> QED  BY <2>7, <3>1
    <2>9. CASE step = 0
      <3>1. back = <<>> /\ api \in Streaming
        BY <1>1, <1>4, <2>9 DEF OneCall, q
      <3>2. words = <<>> /\ out.state \in {"NONE", "STREAMING_DATA"}
        <4>1. api # "esd_get_all_info"
          BY <3>1 DEF Streaming
        <4> QED  BY <1>5, <1>10, <3>1, <4>1, AnswerCount DEF words
      <3>3. back' = <<>>
        BY <2>6, <2>8, <3>1, <3>2, ReplyNone
      <3>4. sv'.state \notin Live
        BY <2>1, <3>2 DEF Live
      <3>5. ~ Reading' /\ ~ Writing'
        BY <1>8, <2>9 DEF Reading, Writing
      <3> QED  BY <1>8, <2>9, <3>1, <3>3, <3>4, <3>5 DEF OneCall
    <2>10. CASE Reading
      <3>1. Waits
        BY <1>1, <1>4, <2>10 DEF OneCall, Ended, Answering, Live, q
      <3>2. /\ step \in DOMAIN Steps[api] /\ Steps[api][step].op = "read" /\ step # 0 /\ step # 1
        BY <2>10, ReadingStep
      <3>3. step - 1 \in DOMAIN Steps[api]
        BY <1>5, <3>2, StepTyped
      <3>4. back = <<>> /\ Steps[api][step - 1].op = "write"
        BY <3>1 DEF Waits
      <3>5. /\ Fits(api, step, last.val, words) \/ (words = <<>> /\ out.state = "NONE")
            /\ out.state # "STREAMING_DATA"
        BY <1>5, <1>10, <3>2, <3>3, <3>4, FirstFits DEF words
      <3>6. CASE words = <<>> /\ out.state = "NONE"
        <4>1. back' = <<>>
          BY <2>6, <2>8, <3>4, <3>6, ReplyNone
        <4> QED  BY <2>1, <3>6, <4>1, EndedOne DEF Ended
      <3>7. CASE Fits(api, step, last.val, words)
        <4>1. sv'.state \in Live => Queue' = <<>>
          BY <2>1, <2>3 DEF Live
        <4>2. IsReply(back', Now', 1, words) /\ Fits(api', step', last'.val, words)
          BY <1>8, <2>6, <2>8, <3>4, <3>7 DEF n
        <4>3. Answering'
          <5>1. words \in Seq({0, 1}) /\ 1 \in Nat
            BY <2>5 DEF words
          <5> QED  BY <4>1, <4>2, <5>1 DEF Answering
        <4> QED  BY <1>8, <2>1, <2>4, <3>2, <3>5, <4>1, <4>3 DEF OneCall
      <3> QED  BY <3>5, <3>6, <3>7
    <2>11. step = 0 \/ Reading
      BY <2>4, StepNow DEF Types, Writing, Reading
    <2> QED  BY <2>9, <2>10, <2>11
  <1>11. c[q[1].call] = api
    BY <1>5, <1>6, <1>7
  <1> QED  BY <1>4, <1>9, <1>10, <1>11

LEMMA NextOneCall ==
  ASSUME Types, StreamInv, OneCall, Next, fault' = {}
  PROVE  OneCall'
  <1>1. ~ Garbled'
    BY DEF Garbled
  <1>2. CASE \E a \in Used : Call(a)
    BY <1>2, CallOne
  <1>3. CASE Close \/ Write \/ Read
    BY <1>1, <1>3, CloseOne, WriteOne, ReadOne
  <1>4. CASE WriteTimeout
    BY <1>1, <1>4, WriteTimeoutOne
  <1>5. CASE WriteClosed
    <2>1. back = <<>> /\ sv.state = "NONE" /\ UNCHANGED <<back, sv>>
      BY <1>5 DEF WriteClosed, OneCall
    <2> QED  BY <2>1, EndedOne DEF Ended
  <1>6. CASE ReadEnd
    BY <1>6, EndedOne DEF ReadEnd, Ended
  <1>7. CASE NoKey \/ ReadTimeout
    BY <1>7 DEF NoKey, ReadTimeout, Suffers
  <1>8. CASE PollRequest \/ PollData \/ PollSample
    BY <1>1, <1>8, PollOne
  <1>9. CASE PollEnd
    BY <1>9, ErasedOne DEF PollEnd, Erase
  <1> QED
    BY <1>2, <1>3, <1>4, <1>5, <1>6, <1>7, <1>8, <1>9 DEF Next, Client, Server

LEMMA NextOwn ==
  ASSUME Types, OneCall, OwnResults, Next, fault' = {}
  PROVE  OwnResults'
  <1>1. ~ Garbled'
    BY DEF Garbled
  <1>2. CASE UNCHANGED results
    BY <1>2 DEF OwnResults
  <1>3. ASSUME NEW r, step # 0, results' = Append(results, r),
               r \in {Fail, Socket} \/ (r = Word(IntSize) /\ Read)
        PROVE  OwnResults'
    <2>1. /\ DOMAIN results' = DOMAIN results \cup {Now} /\ results'[Now] = r
          /\ \A n \in DOMAIN results : results'[n] = results[n]
      BY <1>3, ResultIndex
    <2>2. r = Fail \/ r.call = Now
      BY <1>1, <1>3, ReadOne DEF Socket
    <2> QED  BY <2>1, <2>2 DEF OwnResults
  <1> QED  BY <1>1, <1>2, <1>3, NewResult

LEMMA NextOne ==
  ASSUME Types, StreamInv, OneInv, [Next]_vars
  PROVE  OneInv'
  <1>1. CASE UNCHANGED vars
    <2>1. /\ UNCHANGED <<calls, step, last, back, sv, sent, results, fault>>
          /\ Queue' = Queue /\ Now' = Now /\ api' = api
          /\ Writing' = Writing /\ Reading' = Reading
      BY <1>1 DEF vars, Queue, Now, api, Writing, Reading, Step
    <2>2. Answering' = Answering /\ Waits' = Waits /\ Ended' = Ended
      BY <2>1 DEF Answering, Waits, Ended
    <2>3. OneCall' = OneCall /\ OwnResults' = OwnResults
      BY <2>1, <2>2 DEF OneCall, OwnResults
    <2> QED  BY <2>1, <2>3 DEF OneInv
  <1>2. CASE Next
    <2> SUFFICES ASSUME fault' = {} PROVE OneCall' /\ OwnResults'
      BY DEF OneInv
    <2>1. OneCall /\ OwnResults
      BY <1>2, FaultGrows DEF OneInv
    <2> QED  BY <1>2, <2>1, NextOneCall, NextOwn
  <1> QED  BY <1>1, <1>2

LEMMA AnswersMatched ==
  ASSUME Types, ResultsInv, OneInv
  PROVE  Matched
  <1>1. fault = {} =>
          /\ \A n \in DOMAIN results : results[n] # Fail => results[n].call = n
          /\ step = 0 => back = <<>>
    BY DEF OneInv, OneCall, OwnResults
  <1>2. ASSUME ~ Garbled, NEW n \in DOMAIN results, results[n] # Fail
        PROVE  results[n].call \in 1..n
    <2>1. results[n].call # 0
      BY <1>2 DEF ResultsInv
    <2>2. results \in Seq(WordType) /\ results[n].call <= n
      BY <1>2 DEF Types, ClientOK
    <2>3. results[n] \in WordType /\ n \in Nat
      BY <1>2, <2>2
    <2>4. results[n].call \in Nat
      BY <2>3 DEF WordType
    <2> QED  BY <2>1, <2>2, <2>3, <2>4
  <1> QED  BY <1>1, <1>2 DEF Matched

\* While nothing has gone wrong on the connection every call of esdlib.c and
\* esdmgr.c returns the answer to its own request, and reads all of it: the replies
\* the handlers of proto.c write are as many words as the call reads, also when a
\* request is refused or a list has an end.  After answers that came too late a
\* call may get the answer to an earlier one, but never something that is none.
THEOREM CallsMatched == Spec => []Matched
  <1> DEFINE Inv == Types /\ StreamInv /\ BackInv /\ ResultsInv /\ OneInv
  <1>1. Init => Inv
    <2>1. Init => ResultsInv
      BY DEF Init, ResultsInv
    <2> QED  BY <2>1, InitTypes, InitStream, InitBack, InitOne
  <1>2. Inv /\ [Next]_vars => Inv'
    BY NextTypes, NextStream, NextBack, NextResults, NextOne
  <1>3. Inv => Matched
    BY AnswersMatched
  <1> QED  BY <1>1, <1>2, <1>3, PTL DEF Spec
============================================================================
