------------------------------ MODULE MCBoot -------------------------------
(* Boot at its real sizes, addresses counted from the start of RAM; the     *)
(* image of the kernel with its wallpaper takes about 3 MB.                 *)
EXTENDS Boot

MCSizeMod  == 1024 * 1024 * 1024
MCStackTop == 3 * 1024 * 1024

(* The file is not there, with nothing else or with one whose name begins   *)
(* alike; is all there is; comes before that one, behind it, or third.      *)
MCOrders ==
  {<<>>, <<"etc/ramfb.old">>, <<"etc/ramfb">>, <<"etc/ramfb", "etc/ramfb.old">>,
   <<"etc/ramfb.old", "etc/ramfb">>, <<"other", "etc/ramfb.old", "etc/ramfb">>}

(* Selectors 0x20, 0x21, .. in the order of the entries, stored swapped. *)
MCDirectories ==
  {[i \in DOMAIN names |-> [name |-> names[i], select |-> bswap(31 + i)]] : names \in MCOrders}

(* What is on the stack: nothing, or a count of two and an entry that fits. *)
MCLeftovers ==
  {[count |-> 0, qfile |-> [name |-> "", select |-> 0]],
   [count |-> bswap(2), qfile |-> [name |-> "etc/ramfb", select |-> bswap(33)]]}

=============================================================================
