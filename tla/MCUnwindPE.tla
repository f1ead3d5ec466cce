----------------------------- MODULE MCUnwindPE -----------------------------
(***************************************************************************)
(* A small instance of UnwindPE for TLC: bytes of three bits, 32-bit and   *)
(* 64-bit words in bytes, aligned and unaligned tables.                    *)
(***************************************************************************)
EXTENDS UnwindPE

\* The values at the limits of what N bytes hold.
Limits(n, signed) ==
    LET top == Pow(2, ByteBits * n)
    IN  {0, 1, top \div 2 - 1} \cup
        IF signed THEN {-(top \div 2), -1} ELSE {top \div 2, top - 1}

MCBases == [textrel |-> 5, datarel |-> 70, funcrel |-> 9]
=============================================================================
