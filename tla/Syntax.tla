------------------------------- MODULE Syntax -------------------------------
(***************************************************************************)
(* Header syntax as a sequence of elements <<width, name, value>>: width   *)
(* n > 0 is an n-bit field, 0 an unsigned and -1 a signed Exp-Golomb code. *)
(* A writer is the sequence it emits for a header, a reader the sequence   *)
(* it consumes while the stream carries the values of that header; the     *)
(* header comes back exactly when the two are the same sequence, because   *)
(* the first element in which they differ is where the reader loses its    *)
(* place.  A header is a record of the fields that decide what follows;    *)
(* a field it does not have is carried as 0.  Flags are 0 or 1.            *)
(***************************************************************************)
EXTENDS Integers, Sequences, TLC

\* The value a header carries in a field
Val(h, f) == IF f \in DOMAIN h THEN h[f] ELSE 0

\* Header h with the fields of record fields, its own or others, in place
With(h, fields) ==
  [f \in DOMAIN h \cup DOMAIN fields |-> IF f \in DOMAIN fields THEN fields[f] ELSE h[f]]

\* Fields fs of header h, n bits each
U(n, h, fs) == [i \in DOMAIN fs |-> <<n, fs[i], Val(h, fs[i])>>]
Ue(h, fs) == U(0, h, fs)
Se(h, fs) == U(-1, h, fs)

\* One element with a value of its own
El(n, f, v) == <<<<n, f, v>>>>
Reserved(n) == El(n, "reserved", 0)

When(c, s) == IF c THEN s ELSE <<>>
Either(c, s, t) == IF c THEN s ELSE t

\* The loop for i in 1..n
Each(n, F(_)) ==
  LET cat[k \in 0 .. n] == IF k = 0 THEN <<>> ELSE cat[k - 1] \o F(k) IN cat[n]

\* (n as f64).log2().ceil() as usize
CeilLog2(n) == IF n <= 1 THEN 0 ELSE CHOOSE k \in 1 .. 31 : 2^(k - 1) < n /\ n <= 2^k

CeilDiv(a, b) == (a + b - 1) \div b
Within(v, lo, hi) == lo <= v /\ v <= hi
=============================================================================
