---------------------------- MODULE ScreenProofs ----------------------------
(***************************************************************************)
(* Proofs about Screen, for every set of threads, every frame and every    *)
(* number of draws.  The screen is current when all is quiet because any   *)
(* byte that is out of date is still to be copied by some flush, or has    *)
(* been set back by one that was preempted between its load and its store. *)
(***************************************************************************)
EXTENDS Screen, TLAPS

(* No copy of a byte is newer than what the back buffer holds. *)
Versions ==
  /\ \A b \in Bytes : back_buffer[b] <= draws
  /\ \A t \in Threads : pc[t] = "store" => reg[t] <= back_buffer[i[t]]

(* Thread t's flush will still bring byte b up to date. *)
WillCopy(t, b) ==
  /\ pc[t] # "print"
  /\ \/ i[t] < b
     \/ i[t] = b /\ pc[t] = "load"
     \/ i[t] = b /\ pc[t] = "store" /\ reg[t] = back_buffer[b]

(* A byte out of date has been set back, or is still to be copied. *)
LateIsCopied ==
  \A b \in Bytes \ torn :
    fb[b] = back_buffer[b] \/ \E t \in Threads : WillCopy(t, b)

IInv == TypeOK /\ Versions /\ LateIsCopied

-----------------------------------------------------------------------------
LEMMA InitInv == Init => IInv
<1> SUFFICES ASSUME Init PROVE IInv  OBVIOUS
<1>1. TypeOK  BY ScreenAssumption DEF Init, TypeOK, Bytes
<1>2. Versions  BY ScreenAssumption DEF Init, Versions, Bytes
<1>3. LateIsCopied  BY DEF Init, LateIsCopied
<1> QED  BY <1>1, <1>2, <1>3 DEF IInv

(* A draw leaves every byte to the flush that follows it. *)
LEMMA DrawKeeps ==
  ASSUME IInv, NEW t \in Threads, fkprintf(t)
  PROVE  IInv'
<1> USE ScreenAssumption
<1>0. TypeOK /\ Versions /\ LateIsCopied  BY DEF IInv
<1>1. draws' = draws + 1 /\ draws' \in 0 .. MaxDraws /\ draws \in 0 .. MaxDraws
  BY <1>0 DEF fkprintf, TypeOK
<1>2. PICK S \in SUBSET Bytes :
        back_buffer' = [b \in Bytes |-> IF b \in S THEN draws' ELSE back_buffer[b]]
  BY DEF fkprintf
<1>3. \A b \in Bytes : back_buffer'[b] \in 0 .. MaxDraws
                       /\ back_buffer[b] \in 0 .. MaxDraws
                       /\ back_buffer'[b] <= draws'
                       /\ back_buffer[b] <= back_buffer'[b]
  BY <1>0, <1>1, <1>2 DEF TypeOK, Versions
<1>4. back_buffer' \in [Bytes -> 0 .. MaxDraws]  BY <1>2, <1>3
<1>5. /\ pc' = [pc EXCEPT ![t] = "load"] /\ i' = [i EXCEPT ![t] = 0]
      /\ fb' = fb /\ reg' = reg /\ torn' = torn
  BY DEF fkprintf
<1>6. pc'[t] = "load" /\ i'[t] = 0 /\ 0 \in Bytes
  BY <1>0, <1>5 DEF TypeOK, Bytes
<1>7. \A u \in Threads : u # t => pc'[u] = pc[u] /\ i'[u] = i[u] /\ reg'[u] = reg[u]
  BY <1>0, <1>5 DEF TypeOK
<1>8. TypeOK'
  <2>1. pc' \in [Threads -> {"print", "load", "store"}] /\ i' \in [Threads -> 0 .. fb_size]
    BY <1>0, <1>5 DEF TypeOK
  <2>2. \A u \in Threads : pc'[u] # "print" => i'[u] \in Bytes
    BY <1>0, <1>6, <1>7 DEF TypeOK
  <2> QED  BY <1>0, <1>1, <1>4, <1>5, <2>1, <2>2 DEF TypeOK
<1>9. Versions'
  <2>1. ASSUME NEW u \in Threads, pc'[u] = "store"
        PROVE  reg'[u] <= back_buffer'[i'[u]]
    <3>1. u # t  BY <1>6, <2>1
    <3>2. i[u] \in Bytes /\ reg[u] <= back_buffer[i[u]] /\ reg[u] \in 0 .. MaxDraws
      BY <1>0, <1>7, <2>1, <3>1 DEF TypeOK, Versions
    <3> QED  BY <1>3, <1>7, <3>1, <3>2
  <2> QED  BY <1>3, <2>1 DEF Versions
<1>10. LateIsCopied'
  <2>1. ASSUME NEW b \in Bytes
        PROVE  WillCopy(t, b)'
    BY <1>6, <2>1 DEF WillCopy, Bytes
  <2> QED  BY <2>1 DEF LateIsCopied
<1> QED  BY <1>8, <1>9, <1>10 DEF IInv

(* A load fetches the byte as it is drawn now. *)
LEMMA LoadKeeps ==
  ASSUME IInv, NEW t \in Threads, load(t)
  PROVE  IInv'
<1> USE ScreenAssumption
<1>0. TypeOK /\ Versions /\ LateIsCopied  BY DEF IInv
<1>1. /\ pc[t] = "load" /\ reg' = [reg EXCEPT ![t] = back_buffer[i[t]]]
      /\ pc' = [pc EXCEPT ![t] = "store"]
      /\ back_buffer' = back_buffer /\ fb' = fb /\ i' = i
      /\ draws' = draws /\ torn' = torn
  BY DEF load
<1>2. i[t] \in Bytes /\ back_buffer[i[t]] \in 0 .. MaxDraws
  BY <1>0, <1>1 DEF TypeOK
<1>3. pc'[t] = "store" /\ reg'[t] = back_buffer[i[t]]
  BY <1>0, <1>1 DEF TypeOK
<1>4. \A u \in Threads : u # t => pc'[u] = pc[u] /\ reg'[u] = reg[u]
  BY <1>0, <1>1 DEF TypeOK
<1>5. TypeOK'
  <2>1. pc' \in [Threads -> {"print", "load", "store"}] /\ reg' \in [Threads -> 0 .. MaxDraws]
    BY <1>0, <1>1, <1>2 DEF TypeOK
  <2>2. \A u \in Threads : pc'[u] # "print" => i'[u] \in Bytes
    BY <1>0, <1>1, <1>2, <1>4 DEF TypeOK
  <2> QED  BY <1>0, <1>1, <2>1, <2>2 DEF TypeOK
<1>6. Versions'
  <2>1. back_buffer[i[t]] <= back_buffer[i[t]]  BY <1>2
  <2> QED  BY <1>0, <1>1, <1>3, <1>4, <2>1 DEF Versions
<1>7. LateIsCopied'
  <2>1. ASSUME NEW b \in Bytes, NEW u \in Threads, WillCopy(u, b)
        PROVE  WillCopy(u, b)'
    <3>1. CASE u = t  BY <1>1, <1>3, <2>1, <3>1 DEF WillCopy
    <3>2. CASE u # t  BY <1>1, <1>4, <2>1, <3>2 DEF WillCopy
    <3> QED  BY <3>1, <3>2
  <2> QED  BY <1>0, <1>1, <2>1 DEF LateIsCopied
<1> QED  BY <1>5, <1>6, <1>7 DEF IInv

(* A store shows the newest version, or leaves the byte to another flush,  *)
(* or sets it back.                                                        *)
LEMMA StoreKeeps ==
  ASSUME IInv, NEW t \in Threads, store(t)
  PROVE  IInv'
<1> USE ScreenAssumption
<1>0. TypeOK /\ Versions /\ LateIsCopied  BY DEF IInv
<1> DEFINE b == i[t]
<1>1. /\ pc[t] = "store"
      /\ fb' = [fb EXCEPT ![b] = reg[t]]
      /\ torn' = IF reg[t] < fb[b] THEN torn \cup {b}
                 ELSE IF reg[t] = back_buffer[b] THEN torn \ {b} ELSE torn
      /\ i' = [i EXCEPT ![t] = b + 1]
      /\ pc' = [pc EXCEPT ![t] = IF b + 1 < fb_size THEN "load" ELSE "print"]
      /\ back_buffer' = back_buffer /\ reg' = reg /\ draws' = draws
  BY DEF store, Continues
<1>2. /\ b \in Bytes /\ reg[t] \in 0 .. MaxDraws /\ fb[b] \in 0 .. MaxDraws
      /\ back_buffer[b] \in 0 .. MaxDraws /\ reg[t] <= back_buffer[b]
  BY <1>0, <1>1 DEF TypeOK, Versions
<1>3. i'[t] = b + 1 /\ pc'[t] = (IF b + 1 < fb_size THEN "load" ELSE "print")
  BY <1>0, <1>1 DEF TypeOK
<1>4. \A u \in Threads : u # t => pc'[u] = pc[u] /\ i'[u] = i[u] /\ reg'[u] = reg[u]
  BY <1>0, <1>1 DEF TypeOK
<1>5. fb'[b] = reg[t] /\ \A c \in Bytes : c # b => fb'[c] = fb[c]
  BY <1>0, <1>1, <1>2 DEF TypeOK
<1>6. TypeOK'
  <2>1. /\ fb' \in [Bytes -> 0 .. MaxDraws] /\ torn' \subseteq Bytes
    BY <1>0, <1>1, <1>2 DEF TypeOK
  <2>2. b + 1 \in 0 .. fb_size  BY <1>2 DEF Bytes
  <2>3. i' \in [Threads -> 0 .. fb_size] /\ pc' \in [Threads -> {"print", "load", "store"}]
    BY <1>0, <1>1, <2>2 DEF TypeOK
  <2>4. ASSUME NEW u \in Threads, pc'[u] # "print" PROVE i'[u] \in Bytes
    <3>1. CASE u = t
      BY <1>2, <1>3, <2>2, <2>4, <3>1 DEF Bytes
    <3>2. CASE u # t
      BY <1>0, <1>4, <2>4, <3>2 DEF TypeOK
    <3> QED  BY <3>1, <3>2
  <2>5. /\ back_buffer' \in [Bytes -> 0 .. MaxDraws] /\ reg' \in [Threads -> 0 .. MaxDraws]
        /\ draws' \in 0 .. MaxDraws
    BY <1>0, <1>1 DEF TypeOK
  <2> QED  BY <2>1, <2>3, <2>4, <2>5, Zenon DEF TypeOK
<1>7. Versions'
  BY <1>0, <1>1, <1>3, <1>4 DEF Versions
<1>8. LateIsCopied'
  <2> SUFFICES ASSUME NEW c \in Bytes, c \notin torn'
               PROVE  fb'[c] = back_buffer[c] \/ \E u \in Threads : WillCopy(u, c)'
    BY <1>1 DEF LateIsCopied
  <2>1. ASSUME NEW u \in Threads, u # t, WillCopy(u, c)
        PROVE  WillCopy(u, c)'
    BY <1>1, <1>4, <2>1 DEF WillCopy
  <2>2. CASE c = b
    <3>1. CASE reg[t] = back_buffer[b]  BY <1>5, <2>2, <3>1
    <3>2. CASE reg[t] # back_buffer[b]
      <4>1. ~ (reg[t] < fb[b])  BY <1>1, <2>2
      <4>2. c \notin torn  BY <1>1, <2>2, <3>2, <4>1
      <4>3. fb[c] # back_buffer[c]  BY <1>2, <2>2, <3>2, <4>1
      <4>4. PICK u \in Threads : WillCopy(u, c)  BY <1>0, <4>2, <4>3 DEF LateIsCopied
      <4>5. ~ WillCopy(t, c)  BY <1>1, <1>2, <2>2, <3>2 DEF WillCopy, Bytes
      <4> QED  BY <2>1, <4>4, <4>5
    <3> QED  BY <3>1, <3>2
  <2>3. CASE c # b
    <3>1. c \notin torn  BY <1>1, <2>3
    <3>2. CASE fb[c] = back_buffer[c]  BY <1>5, <2>3, <3>2
    <3>3. CASE fb[c] # back_buffer[c]
      <4>1. PICK u \in Threads : WillCopy(u, c)  BY <1>0, <3>1, <3>3 DEF LateIsCopied
      <4>2. CASE u # t  BY <2>1, <4>1, <4>2
      <4>3. CASE u = t
        <5>1. b < c  BY <2>3, <4>1, <4>3 DEF WillCopy
        <5>2. b + 1 <= c /\ b + 1 < fb_size  BY <1>2, <5>1 DEF Bytes
        <5>3. WillCopy(t, c)'  BY <1>2, <1>3, <5>2 DEF WillCopy, Bytes
        <5> QED  BY <5>3
      <4> QED  BY <4>2, <4>3
    <3> QED  BY <3>2, <3>3
  <2> QED  BY <2>2, <2>3
<1> QED  BY <1>6, <1>7, <1>8 DEF IInv

LEMMA NextInv == IInv /\ [Next]_vars => IInv'
<1> SUFFICES ASSUME IInv, [Next]_vars PROVE IInv'  OBVIOUS
<1>1. ASSUME NEW t \in Threads, fkprintf(t) PROVE IInv'  BY <1>1, DrawKeeps
<1>2. ASSUME NEW t \in Threads, load(t) PROVE IInv'  BY <1>2, LoadKeeps
<1>3. ASSUME NEW t \in Threads, store(t) PROVE IInv'  BY <1>3, StoreKeeps
<1>4. CASE UNCHANGED vars
  BY <1>4 DEF IInv, TypeOK, Versions, LateIsCopied, WillCopy, vars
<1> QED  BY <1>1, <1>2, <1>3, <1>4 DEF Next, Flush, AllAsleep

(* The invariant holds throughout. *)
LEMMA Safe == Spec => []IInv
BY InitInv, NextInv, PTL DEF Spec

-----------------------------------------------------------------------------
(* Every index of kmemcpy stays inside the frame (flush, fb.c:288). *)
THEOREM ScreenTyped == Spec => []TypeOK
<1>1. IInv => TypeOK  BY DEF IInv
<1> QED  BY <1>1, Safe, PTL

(***************************************************************************)
(* When no thread is inside flush, the screen shows what has been drawn in *)
(* every byte that no preempted flush has set back.                        *)
(***************************************************************************)
THEOREM ScreenIsCurrent == Spec => []QuietIsCurrent
<1>1. IInv => QuietIsCurrent
  BY DEF IInv, LateIsCopied, QuietIsCurrent, Quiet, WillCopy
<1> QED  BY <1>1, Safe, PTL

=============================================================================
