----------------------------- MODULE MCAcceptKey ------------------------------
(* An instance of AcceptKey for TLC: Base64 on every input of up to four of    *)
(* some bytes, a few random keys, and client keys of every length in a range   *)
(* that meets each place at which a message can end in a block.                *)
EXTENDS AcceptKey

\* All bits set, none, and bits on both sides of the boundaries between digits.
Samples == {0, 1, 44, 127, 130, 255}
SmallInputs == UNION {[1..n -> Samples] : n \in 0..4}

RandomKeys == {SampleNonce, [i \in 1..16 |-> 0], [i \in 1..16 |-> 255]}

\* The first has a text that base64_dec_len measures in 16 bits, the second has not.
Lengthy == {[i \in 1..n |-> i % 256] : n \in {4095, 4096}}

KeyInputs == SmallInputs \union RandomKeys \union Lengthy

KeysOfLength(lengths) == {[i \in 1..l |-> 1 + ((7 * i) % 255)] : l \in lengths}
AllLengths == KeysOfLength(1..94)

KeyMessages ==
  {<<>>} \union {Updates(k) : k \in ClientKeys}
         \union {Updates(Text(base64_encode(i))) : i \in RandomKeys}
===============================================================================
