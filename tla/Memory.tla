------------------------------- MODULE Memory -------------------------------
(***************************************************************************)
(* Buffers, as the C++ code sees them.  A buffer is a sequence of bytes;   *)
(* addresses are the C++ ones, the first byte is at address 0.  Every      *)
(* access is total here: a read outside the buffer returns NoByte and a    *)
(* write outside it is dropped, so that staying inside is a property of    *)
(* the machines and not an assumption of their definitions.                *)
(***************************************************************************)
EXTENDS Integers, Sequences

Byte == 0 .. 255
NoByte == 256

At(base, i) == IF i \in 0 .. Len(base) - 1 THEN base[i + 1] ELSE NoByte

\* The load of k bytes at address i.
Load(base, i, k) == [j \in 1 .. k |-> At(base, i + j - 1)]

\* The buffer after the bytes have been stored at address i.
Store(base, i, bytes) ==
  [j \in 1 .. Len(base) |->
     IF j \in i + 1 .. i + Len(bytes) THEN bytes[j - i] ELSE base[j]]

\* The end of the furthest access so far, once [from, from + size) is touched.
Reach(end, from, size) == IF from + size > end THEN from + size ELSE end
=============================================================================
