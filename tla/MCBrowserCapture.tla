--------------------------- MODULE MCBrowserCapture ---------------------------
(* The capture suite, and what is made of its records. *)
EXTENDS BrowserCapture

List(items) == [kind |-> "list", items |-> items]
Scalar(value) == [kind |-> "scalar", items |-> << value >>]

Hello(order, shares, token) ==
  [order   |-> order,
   ciphers |-> List(<< 1, 2 >>),
   content |-> [groups |-> List(<< 1, 2 >>), shares |-> List(shares),
                token |-> Scalar(token)]]

\* Two orders of the same extensions, of which the last one keeps its place, with
\* a list that varies in an entry or in its length and a value that varies.
Hellos ==
  {Hello(order, shares, token) :
     order  \in {<< "groups", "shares", "token" >>, << "shares", "groups", "token" >>},
     shares \in {<< 1, 2 >>, << 1, 3 >>, << 1 >>},
     token  \in {1, 2}}
\* A handshake with fewer extensions, and one with another first share.
Short == Hello(<< "groups", "shares" >>, << 1, 2 >>, 1)
Other == Hello(<< "groups", "shares", "token" >>, << 2, 2 >>, 1)

SomeBaselines == {b \in SUBSET Hellos : Cardinality(b) \in 1 .. 3}
SomeCandidates == {c \in SUBSET (Hellos \cup {Short, Other}) : Cardinality(c) \in 1 .. 2}

=============================================================================
