------------------------------ MODULE NetTypes ------------------------------
(***************************************************************************)
(* Addresses as the agent computes with them and writes them: masks and    *)
(* the text of an IPv6 address (netfind_types.c), the network of an        *)
(* address and the description of an adapter's networks                    *)
(* (module/ethcap/ethcap_network.c).  An address is the sequence of its    *)
(* octets, an IPv6 address to be written that of its words, and the text   *)
(* of a word is one item.                                                  *)
(***************************************************************************)
EXTENDS Integers, Sequences, SequencesExt, FiniteSetsExt, Bitwise

CONSTANT Width    \* a size_t is less than it

nf_ip_mask(ip, mask) == [i \in DOMAIN ip |-> ip[i] & mask[i]]

Ones(b) == 8 - Min({k \in 0..7 : (b \div 2^k) % 2 = 1})

(* Mutant of Counted: the octet that is zero first is not looked for. *)
AllCounted(mask) == {i \in DOMAIN mask : mask[i] = 255}

(* The octets before the first that is zero. *)
Counted(mask) == {i \in DOMAIN mask : \A j \in 1..i : mask[j] # 0}

nf_mask_cidr(mask) == MapThenSumSet(LAMBDA i : Ones(mask[i]), Counted(mask))

(* ethcap_network_initialize: a mask of all ones makes no network. *)
Ignored(mask) == Last(mask) = 255
Network(ip, mask) == [addr |-> nf_ip_mask(ip, mask), mask |-> mask, cidr |-> nf_mask_cidr(mask)]

(* The test of ethcap_networks_is_cap_local. *)
InSubnet(ip, net) == Len(ip) = Len(net.addr) /\ nf_ip_mask(ip, net.mask) = net.addr

-----------------------------------------------------------------------------
(* Mutant of Longer: the last of equal runs is taken. *)
NotShorter(n, m) == n >= m

(* A run of zeroes is longer than the one found before it. *)
Longer(n, m) == n > m

(* nf_ip62str looks for the words lo .. hi - 1 to leave out, counted from 0; *)
(* a is where a run began, or -1.  The end of the address ends a run.        *)
Scan(words, s, b) ==
    IF b < 8 /\ words[b + 1] = "0" THEN [s EXCEPT !.a = IF @ = -1 THEN b ELSE @]
    ELSE IF s.a # -1 /\ Longer(b - s.a, s.hi - s.lo) THEN [a |-> -1, lo |-> s.a, hi |-> b]
    ELSE [s EXCEPT !.a = -1]

Compressed(words) ==
    LET s == FoldLeft(LAMBDA t, b : Scan(words, t, b - 1), [a |-> 0, lo |-> 0, hi |-> 0], [b \in 1..9 |-> b])
    IN  IF s.hi = s.lo + 1 THEN <<0, 0>> ELSE <<s.lo, s.hi>>

(* Mutant of Colon: one more follows the words that are left out. *)
ColonAfter(i, hi) == IF i # 0 THEN <<":">> ELSE <<>>

Colon(i, hi) == IF i # 0 /\ i # hi THEN <<":">> ELSE <<>>

nf_ip62str(words) ==
    LET lo == Compressed(words)[1]
        hi == Compressed(words)[2]
    IN  FlattenSeq([n \in 1..8 |->
            LET i == n - 1
            IN  IF i >= lo /\ i < hi THEN (IF i = lo THEN <<":", ":">> ELSE <<>>)
                                     ELSE Colon(i, hi) \o <<words[n]>>])

-----------------------------------------------------------------------------
(* ethcap_networks_describe: where it writes next and how much room it takes *)
(* to be left, a size_t, after networks with texts of these lengths.  A text *)
(* that snprintf cuts off counts with its whole length.                      *)
Separated(out) ==
    IF out.pos > 0 /\ out.len >= 2 THEN [pos |-> out.pos + 2, len |-> out.len - 2] ELSE out

(* Mutant of Written: what was written is not taken off the room. *)
WrittenAgain(out, chars) == [pos |-> out.pos + chars, len |-> out.len]

Written(out, chars) == [pos |-> out.pos + chars, len |-> (out.len - chars) % Width]

Described(texts, size) ==
    FoldLeft(LAMBDA out, chars : Written(Separated(out), chars), [pos |-> 0, len |-> size], texts)
=============================================================================
