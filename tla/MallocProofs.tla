---------------------------- MODULE MallocProofs ----------------------------
(***************************************************************************)
(* Malloc keeps its heap whole for every heap size, every set of request   *)
(* sizes and every sequence of calls.                                      *)
(***************************************************************************)
EXTENDS Malloc, FiniteSetTheorems, TLAPS

-----------------------------------------------------------------------------
(* The parts of the inductive invariant, over any header map m, first block *)
(* h and heap end e, so that they can be stated of a half-finished kfree.    *)

EndOf(m, b) == b + HEADER_SIZE + m[b].size

(* Every block lies between the first block and the end of the heap. *)
Placed(m, h, e) ==
  /\ DOMAIN m \subseteq Nat \ {NULL}
  /\ m \in [DOMAIN m -> Header]
  /\ h \in DOMAIN m /\ e \in Nat
  /\ \A b \in DOMAIN m : h <= b /\ EndOf(m, b) <= e /\ b % ALIGNMENT = 0

Linked(m, h, e) ==
  \A b \in DOMAIN m :
    /\ m[b].next # NULL => /\ m[b].next \in DOMAIN m
                           /\ m[b].next = EndOf(m, b)
                           /\ m[m[b].next].prev = b
    /\ m[b].prev # NULL => m[b].prev \in DOMAIN m /\ m[m[b].prev].next = b
    /\ m[b].next = NULL => EndOf(m, b) = e
    /\ m[b].prev = NULL => b = h

Disjoint(m) == \A a, b \in DOMAIN m : a < b => EndOf(m, a) <= b

Covered(m, h, e) ==
  \A x \in h .. (e - 1) : \E b \in DOMAIN m : b <= x /\ x < EndOf(m, b)

Layout(m, h, e) ==
  Placed(m, h, e) /\ Linked(m, h, e) /\ Disjoint(m) /\ Covered(m, h, e)

(* No two neighbours are free, except that block c may have free ones. *)
CoalescedBut(m, c) ==
  \A b \in DOMAIN m :
    m[b].is_free /\ m[b].next # NULL /\ b # c /\ m[b].next # c =>
      ~m[m[b].next].is_free

(* The pointers in o are those to the blocks that are not free. *)
Held(m, o) ==
  /\ DOMAIN o \subseteq Nat
  /\ \A b \in DOMAIN m : ~m[b].is_free => b + HEADER_SIZE \in DOMAIN o
  /\ \A p \in DOMAIN o : /\ p - HEADER_SIZE \in DOMAIN m
                         /\ ~m[p - HEADER_SIZE].is_free
                         /\ o[p] <= m[p - HEADER_SIZE].size

(* What the walk of kmalloc has behind it does not fit. *)
Walked ==
  /\ pc = "walk" => /\ size % ALIGNMENT = 0 /\ request <= size
                    /\ current # NULL => current \in DOMAIN mem
                    /\ \A b \in DOMAIN mem : current = NULL \/ b < current => ~Fits(b)
  /\ pc = "boot" => free_list_head = NULL

IInv ==
  /\ TypeOK
  /\ Walked
  /\ StackTop <= heap_end
  /\ free_list_head = NULL => DOMAIN mem = {} /\ DOMAIN owned = {}
  /\ free_list_head # NULL => /\ StackTop <= free_list_head
                              /\ Layout(mem, free_list_head, heap_end)
                              /\ CoalescedBut(mem, NULL)
                              /\ Held(mem, owned)

-----------------------------------------------------------------------------
(* What the operators on the list return. *)

(* ALIGN rounds up to a multiple of ALIGNMENT, away from the wrap-around. *)
LEMMA ALIGNValue ==
  ASSUME NEW n \in Nat, n + ALIGNMENT <= SIZE_MOD
  PROVE  /\ ALIGN(n) \in Nat /\ n <= ALIGN(n)
         /\ ALIGN(n) % ALIGNMENT = 0
         /\ n % ALIGNMENT = 0 => ALIGN(n) = n
<1>1. (n + (ALIGNMENT - 1)) % SIZE_MOD = n + 7
  BY HeapAssumption DEF ALIGNMENT
<1> QED BY <1>1 DEF ALIGN, ALIGNMENT

(* Setting is_free changes that flag and nothing else. *)
Flagged(m, b, f, g) ==
  /\ DOMAIN g = DOMAIN m /\ g \in [DOMAIN m -> Header]
  /\ g[b].is_free = f
  /\ \A c \in DOMAIN m : /\ g[c].size = m[c].size
                         /\ g[c].next = m[c].next
                         /\ g[c].prev = m[c].prev
                         /\ c # b => g[c].is_free = m[c].is_free

LEMMA FlagValue ==
  ASSUME NEW m, m \in [DOMAIN m -> Header], NEW b \in DOMAIN m, NEW f \in BOOLEAN
  PROVE  Flagged(m, b, f, [m EXCEPT ![b].is_free = f])
BY DEF Header, Flagged

(* What Join(m, a, b) is, field by field. *)
Joined(m, a, b, j) ==
  /\ DOMAIN j = DOMAIN m \ {b} /\ j \in [DOMAIN j -> Header]
  /\ j[a].size = m[a].size + HEADER_SIZE + m[b].size
  /\ j[a].next = m[b].next /\ j[a].prev = m[a].prev
  /\ j[a].is_free = m[a].is_free
  /\ \A c \in DOMAIN m \ {a, b} :
       /\ j[c].size = m[c].size /\ j[c].is_free = m[c].is_free
       /\ j[c].next = m[c].next
       /\ j[c].prev = IF c = m[b].next THEN a ELSE m[c].prev

LEMMA JoinValue ==
  ASSUME NEW m, m \in [DOMAIN m -> Header], DOMAIN m \subseteq Nat \ {NULL},
         NEW a \in DOMAIN m, NEW b \in DOMAIN m, a # b,
         m[b].next = NULL \/ m[b].next \in DOMAIN m \ {a, b}
  PROVE  Joined(m, a, b, Join(m, a, b))
<1> DEFINE j == Join(m, a, b)
<1> DEFINE k == [m EXCEPT ![a].size = m[a].size + HEADER_SIZE + m[b].size,
                          ![a].next = m[b].next]
           l == SetPrev(k, m[b].next, a)
<1>1. m[a].size + HEADER_SIZE + m[b].size \in Nat /\ m[b].next \in Nat /\ a \in Nat
  BY DEF Header, HEADER_SIZE
<1>2. /\ DOMAIN k = DOMAIN m /\ k \in [DOMAIN m -> Header]
      /\ k[a].size = m[a].size + HEADER_SIZE + m[b].size /\ k[a].next = m[b].next
      /\ k[a].is_free = m[a].is_free /\ k[a].prev = m[a].prev
      /\ \A c \in DOMAIN m \ {a} : k[c] = m[c]
  <2> DEFINE i == [m EXCEPT ![a].size = m[a].size + HEADER_SIZE + m[b].size]
  <2>1. /\ DOMAIN i = DOMAIN m /\ i \in [DOMAIN m -> Header]
        /\ i[a].size = m[a].size + HEADER_SIZE + m[b].size
        /\ i[a].next = m[a].next
        /\ i[a].is_free = m[a].is_free /\ i[a].prev = m[a].prev
        /\ \A c \in DOMAIN m \ {a} : i[c] = m[c]
    BY <1>1 DEF Header
  <2>2. k = [i EXCEPT ![a].next = m[b].next]
    OBVIOUS
  <2> HIDE DEF i, k
  <2> QED BY <1>1, <2>1, <2>2 DEF Header
<1>3. /\ DOMAIN l = DOMAIN m /\ l \in [DOMAIN m -> Header]
      /\ \A c \in DOMAIN m :
           /\ l[c].size = k[c].size /\ l[c].is_free = k[c].is_free
           /\ l[c].next = k[c].next
           /\ l[c].prev = IF c = m[b].next THEN a ELSE k[c].prev
  <2> HIDE DEF k
  <2>1. CASE m[b].next = NULL
    BY <1>2, <2>1 DEF SetPrev
  <2>2. CASE m[b].next # NULL
    BY <1>1, <1>2, <2>2 DEF SetPrev, Header
  <2> QED BY <2>1, <2>2
<1>4. j = Drop(l, b)
  BY DEF Join
<1> HIDE DEF j, k, l
<1>5. Joined(m, a, b, j)
  BY <1>2, <1>3, <1>4 DEF Drop, Joined
<1> QED BY <1>5 DEF j

(* What Split(m, b, s) is, field by field. *)
SplitAt(m, b, s, rest, j) ==
  /\ DOMAIN j = DOMAIN m \cup {rest} /\ j \in [DOMAIN j -> Header]
  /\ j[b].size = s /\ j[b].next = rest
  /\ j[b].prev = m[b].prev /\ j[b].is_free = m[b].is_free
  /\ j[rest].size = m[b].size - s - HEADER_SIZE /\ j[rest].is_free
  /\ j[rest].next = m[b].next /\ j[rest].prev = b
  /\ \A c \in DOMAIN m \ {b} :
       /\ j[c].size = m[c].size /\ j[c].is_free = m[c].is_free
       /\ j[c].next = m[c].next
       /\ j[c].prev = IF c = m[b].next THEN rest ELSE m[c].prev

LEMMA SplitValue ==
  ASSUME NEW m, m \in [DOMAIN m -> Header], DOMAIN m \subseteq Nat \ {NULL},
         NEW b \in DOMAIN m, NEW s \in Nat, m[b].size >= s + HEADER_SIZE + ALIGNMENT,
         NEW rest, rest = b + HEADER_SIZE + s, rest \notin DOMAIN m,
         m[b].next = NULL \/ m[b].next \in DOMAIN m \ {b}
  PROVE  SplitAt(m, b, s, rest, Split(m, b, s))
<1> DEFINE j == Split(m, b, s)
<1> DEFINE H == [size |-> m[b].size - s - HEADER_SIZE, is_free |-> TRUE,
                 next |-> m[b].next, prev |-> b]
           k == Add(m, rest, H)
           l == SetPrev(k, m[b].next, rest)
<1>1. H \in Header /\ rest \in Nat /\ rest # b /\ rest # NULL
  BY DEF Header, HEADER_SIZE, ALIGNMENT, NULL
<1>2. /\ DOMAIN k = DOMAIN m \cup {rest} /\ k \in [DOMAIN m \cup {rest} -> Header]
      /\ k[rest] = H /\ \A c \in DOMAIN m : k[c] = m[c]
  <2> HIDE DEF H
  <2> QED BY <1>1 DEF Add
<1>3. /\ DOMAIN l = DOMAIN m \cup {rest} /\ l \in [DOMAIN m \cup {rest} -> Header]
      /\ \A c \in DOMAIN m \cup {rest} :
           /\ l[c].size = k[c].size /\ l[c].is_free = k[c].is_free
           /\ l[c].next = k[c].next
           /\ l[c].prev = IF c = m[b].next THEN rest ELSE k[c].prev
  <2> HIDE DEF k
  <2>1. CASE m[b].next = NULL
    BY <1>1, <1>2, <2>1 DEF SetPrev, NULL, HEADER_SIZE
  <2>2. CASE m[b].next # NULL
    BY <1>1, <1>2, <2>2 DEF SetPrev, Header
  <2> QED BY <2>1, <2>2
<1>4. j = [l EXCEPT ![b].size = s, ![b].next = rest]
  BY DEF Split
<1> HIDE DEF j
<1>5. /\ DOMAIN j = DOMAIN l /\ j \in [DOMAIN l -> Header]
      /\ j[b].size = s /\ j[b].next = rest
      /\ j[b].is_free = l[b].is_free /\ j[b].prev = l[b].prev
      /\ \A c \in DOMAIN l \ {b} : j[c] = l[c]
  <2> HIDE DEF l
  <2> DEFINE i == [l EXCEPT ![b].size = s]
  <2>1. /\ DOMAIN i = DOMAIN l /\ i \in [DOMAIN l -> Header]
        /\ i[b].size = s /\ i[b].next = l[b].next
        /\ i[b].is_free = l[b].is_free /\ i[b].prev = l[b].prev
        /\ \A c \in DOMAIN l \ {b} : i[c] = l[c]
    BY <1>3 DEF Header
  <2>2. j = [i EXCEPT ![b].next = rest]
    BY <1>4
  <2> HIDE DEF i
  <2> QED BY <1>1, <1>3, <2>1, <2>2 DEF Header
<1> HIDE DEF k, l
<1>6. /\ b \in DOMAIN l \ {rest} /\ DOMAIN j = DOMAIN m \cup {rest}
      /\ l[b].is_free = m[b].is_free /\ l[b].prev = m[b].prev
  <2>1. b # m[b].next
    OBVIOUS
  <2>2. k[b] = m[b]
    BY <1>2
  <2> HIDE DEF H
  <2> QED BY <1>1, <1>3, <1>5, <2>1, <2>2
<1>7. \A c \in DOMAIN m \ {b} :
        /\ j[c].size = m[c].size /\ j[c].is_free = m[c].is_free
        /\ j[c].next = m[c].next
        /\ j[c].prev = IF c = m[b].next THEN rest ELSE m[c].prev
  BY <1>2, <1>3, <1>5
<1>8. /\ j[rest].size = m[b].size - s - HEADER_SIZE /\ j[rest].is_free
      /\ j[rest].next = m[b].next /\ j[rest].prev = b
  BY <1>1, <1>2, <1>3, <1>5
<1>9. SplitAt(m, b, s, rest, j)
  BY <1>3, <1>5, <1>6, <1>7, <1>8 DEF SplitAt
<1> QED BY <1>9 DEF j

-----------------------------------------------------------------------------
(* The layout of the heap survives each of them. *)

LEMMA FlagLayout ==
  ASSUME NEW m, NEW h, NEW e, Layout(m, h, e), NEW b \in DOMAIN m, NEW f \in BOOLEAN,
         NEW g, Flagged(m, b, f, g)
  PROVE  Layout(g, h, e)
<1>1. /\ DOMAIN g = DOMAIN m /\ g \in [DOMAIN m -> Header]
      /\ \A c \in DOMAIN m : /\ g[c].size = m[c].size
                             /\ g[c].next = m[c].next
                             /\ g[c].prev = m[c].prev
  BY DEF Flagged
<1>2. \A c \in DOMAIN m : EndOf(g, c) = EndOf(m, c)
  BY <1>1 DEF EndOf
<1>3. Placed(g, h, e) /\ Disjoint(g) /\ Covered(g, h, e)
  BY <1>1, <1>2 DEF Layout, Placed, Disjoint, Covered
<1>4. Linked(g, h, e)
  <2>1. ASSUME NEW c \in DOMAIN m
        PROVE  /\ g[c].next # NULL => /\ g[c].next \in DOMAIN m
                                      /\ g[c].next = EndOf(g, c)
                                      /\ g[g[c].next].prev = c
               /\ g[c].prev # NULL => /\ g[c].prev \in DOMAIN m
                                      /\ g[g[c].prev].next = c
               /\ g[c].next = NULL => EndOf(g, c) = e
               /\ g[c].prev = NULL => c = h
    <3>1. /\ g[c].next = m[c].next /\ g[c].prev = m[c].prev
          /\ EndOf(g, c) = EndOf(m, c)
      BY <1>1, <1>2
    <3>2. m[c].next # NULL => g[m[c].next].prev = m[m[c].next].prev
      BY <1>1 DEF Layout, Linked
    <3>3. m[c].prev # NULL => g[m[c].prev].next = m[m[c].prev].next
      BY <1>1 DEF Layout, Linked
    <3> QED BY <3>1, <3>2, <3>3 DEF Layout, Linked
  <2> QED BY <1>1, <2>1 DEF Linked
<1> QED BY <1>3, <1>4 DEF Layout

(* A block's successor lies behind it, where it ends. *)
LEMMA NextIsBehind ==
  ASSUME NEW m, NEW h, NEW e, Layout(m, h, e), NEW b \in DOMAIN m
  PROVE  /\ b \in Nat /\ m[b].size \in Nat /\ b < EndOf(m, b)
         /\ m[b].next # NULL => m[b].next \in DOMAIN m /\ b < m[b].next
         /\ m[b].prev # NULL => m[b].prev \in DOMAIN m /\ m[b].prev < b
<1>1. \A c \in DOMAIN m : c \in Nat /\ m[c].size \in Nat /\ c < EndOf(m, c)
  BY DEF Layout, Placed, Header, EndOf, HEADER_SIZE
<1>2. m[b].next # NULL => m[b].next \in DOMAIN m /\ b < m[b].next
  BY <1>1 DEF Layout, Linked
<1>3. m[b].prev # NULL => m[b].prev \in DOMAIN m /\ m[b].prev < b
  BY <1>1 DEF Layout, Linked, Placed
<1> QED BY <1>1, <1>2, <1>3

LEMMA JoinLayout ==
  ASSUME NEW m, NEW h, NEW e, Layout(m, h, e),
         NEW a \in DOMAIN m, NEW b \in DOMAIN m, m[a].next = b
  PROVE  Layout(Join(m, a, b), h, e) /\ Joined(m, a, b, Join(m, a, b))
<1> DEFINE n == m[b].next
           j == Join(m, a, b)
<1>0. b # NULL
  BY DEF Layout, Placed
<1>1. /\ a < b /\ a \in Nat /\ b \in Nat
      /\ b = EndOf(m, a) /\ m[b].prev = a
      /\ b < EndOf(m, b)
      /\ n # NULL => n \in DOMAIN m /\ b < n
  BY <1>0, NextIsBehind DEF Layout, Linked
<1>2. /\ m \in [DOMAIN m -> Header] /\ DOMAIN m \subseteq Nat \ {NULL}
      /\ m[a].size \in Nat /\ m[b].size \in Nat
      /\ n # a /\ (n = NULL \/ n \in DOMAIN m \ {a, b})
  <2>1. m \in [DOMAIN m -> Header] /\ DOMAIN m \subseteq Nat \ {NULL}
    BY DEF Layout, Placed
  <2>2. m[a].size \in Nat /\ m[b].size \in Nat
    BY <1>1, NextIsBehind
  <2>3. n # a /\ (n = NULL \/ n \in DOMAIN m \ {a, b})
    <3>1. CASE n = NULL
      BY <1>1, <2>1, <3>1
    <3>2. CASE n # NULL
      <4>1. n \in Nat
        BY <1>1, <2>1, <3>2
      <4> HIDE DEF n
      <4> QED BY <1>1, <3>2, <4>1
    <3> QED BY <3>1, <3>2
  <2> QED BY <2>1, <2>2, <2>3
<1>3. Joined(m, a, b, j)
  <2>1. a # b /\ (m[b].next = NULL \/ m[b].next \in DOMAIN m \ {a, b})
    BY <1>1, <1>2
  <2> HIDE DEF n, j
  <2> QED BY <1>2, <2>1, JoinValue DEF j
<1> HIDE DEF j
<1>f. /\ DOMAIN j = DOMAIN m \ {b} /\ j \in [DOMAIN j -> Header]
       /\ j[a].size = m[a].size + HEADER_SIZE + m[b].size
       /\ j[a].next = n /\ j[a].prev = m[a].prev
       /\ \A c \in DOMAIN m \ {a, b} :
           /\ j[c].size = m[c].size /\ j[c].next = m[c].next
           /\ j[c].prev = IF c = n THEN a ELSE m[c].prev
  BY <1>3 DEF Joined
<1>4. /\ EndOf(j, a) = EndOf(m, b)
      /\ \A c \in DOMAIN m \ {a, b} : EndOf(j, c) = EndOf(m, c)
  <2>1. b = a + HEADER_SIZE + m[a].size /\ HEADER_SIZE \in Nat
    BY <1>1 DEF EndOf, HEADER_SIZE
  <2>2. a + HEADER_SIZE + (m[a].size + HEADER_SIZE + m[b].size) = b + HEADER_SIZE + m[b].size
    BY <1>1, <1>2, <2>1
  <2>3. EndOf(j, a) = EndOf(m, b)
    BY <1>f, <2>2 DEF EndOf
  <2>4. \A c \in DOMAIN m \ {a, b} : EndOf(j, c) = EndOf(m, c)
    BY <1>f DEF EndOf
  <2> QED BY <2>3, <2>4
<1>5. \A c \in DOMAIN m : c \in Nat /\ EndOf(m, c) \in Nat
  BY <1>2 DEF EndOf, Header, HEADER_SIZE
<1>6. Placed(j, h, e)
  <2>1. h \in DOMAIN j
    BY <1>1, <1>f, <1>5 DEF Layout, Placed
  <2>2. \A c \in DOMAIN j : h <= c /\ EndOf(j, c) <= e /\ c % ALIGNMENT = 0
    BY <1>1, <1>f, <1>4 DEF Layout, Placed
  <2> QED BY <1>2, <1>f, <2>1, <2>2 DEF Layout, Placed
<1>7. Disjoint(j)
  <2>1. ASSUME NEW c \in DOMAIN j, NEW d \in DOMAIN j, c < d
        PROVE  EndOf(j, c) <= d
    <3>1. CASE c = a
      <4>1. b <= d /\ d # b
        BY <1>1, <1>f, <2>1, <3>1 DEF Layout, Disjoint
      <4>2. b < d
        BY <1>1, <1>f, <1>5, <4>1
      <4> QED BY <1>1, <1>f, <1>4, <3>1, <4>2 DEF Layout, Disjoint
    <3>2. CASE c # a
      BY <1>f, <1>4, <2>1, <3>2 DEF Layout, Disjoint
    <3> QED BY <3>1, <3>2
  <2> QED BY <2>1 DEF Disjoint
<1>8. Covered(j, h, e)
  <2>1. ASSUME NEW x \in h .. (e - 1)
        PROVE  \E c \in DOMAIN j : c <= x /\ x < EndOf(j, c)
    <3>1. PICK c \in DOMAIN m : c <= x /\ x < EndOf(m, c)
      BY DEF Layout, Covered
    <3>2. h \in Nat /\ e \in Nat
      BY <1>5 DEF Layout, Placed
    <3>3. CASE c \in {a, b}
      <4>1. a <= x /\ x < EndOf(j, a)
        BY <1>1, <1>4, <1>5, <3>1, <3>2, <3>3 DEF Layout, Disjoint
      <4> QED BY <1>1, <1>f, <4>1
    <3>4. CASE c \notin {a, b}
      BY <1>f, <1>4, <3>1, <3>4
    <3> QED BY <3>3, <3>4
  <2> QED BY <2>1 DEF Covered
<1>9. Linked(j, h, e)
  <2>1. ASSUME NEW c \in DOMAIN j, j[c].next # NULL
        PROVE  /\ j[c].next \in DOMAIN j /\ j[c].next = EndOf(j, c)
               /\ j[j[c].next].prev = c
    <3>1. CASE c = a
      <4>1. n \in DOMAIN m \ {a, b} /\ n = EndOf(m, b)
        BY <1>1, <1>f, <2>1, <3>1 DEF Layout, Linked
      <4> QED BY <1>f, <1>4, <3>1, <4>1
    <3>2. CASE c # a
      <4> DEFINE d == m[c].next
      <4>1. c \in DOMAIN m \ {a, b} /\ j[c].next = d /\ d # NULL
        BY <1>f, <2>1, <3>2
      <4>2. d \in DOMAIN m /\ d = EndOf(m, c) /\ m[d].prev = c
        BY <4>1 DEF Layout, Linked
      <4>3. d # b
        BY <1>1, <3>2, <4>2
      <4>4. d # n
        BY <1>1, <4>1, <4>2 DEF Layout, Linked
      <4>5. j[d].prev = c
        BY <1>f, <4>2, <4>3, <4>4
      <4> QED BY <1>f, <1>4, <4>1, <4>2, <4>3, <4>5
    <3> QED BY <3>1, <3>2
  <2>2. ASSUME NEW c \in DOMAIN j, j[c].prev # NULL
        PROVE  j[c].prev \in DOMAIN j /\ j[j[c].prev].next = c
    <3>1. CASE c # a /\ c = n
      BY <1>1, <1>f, <3>1
    <3>2. CASE c = a \/ c # n
      <4> DEFINE p == m[c].prev
      <4>1. c \in DOMAIN m \ {b} /\ j[c].prev = p /\ p # NULL
        BY <1>f, <2>2, <3>2
      <4>2. p \in DOMAIN m /\ m[p].next = c
        BY <4>1 DEF Layout, Linked
      <4>3. p # b
        BY <1>1, <1>2, <3>2, <4>2
      <4>4. p # a
        BY <1>1, <4>1, <4>2
      <4> QED BY <1>f, <4>1, <4>2, <4>3, <4>4
    <3> QED BY <3>1, <3>2
  <2>3. ASSUME NEW c \in DOMAIN j
        PROVE  /\ j[c].next = NULL => EndOf(j, c) = e
               /\ j[c].prev = NULL => c = h
    <3>1. CASE c = a
      BY <1>1, <1>f, <1>4, <3>1 DEF Layout, Linked
    <3>2. CASE c # a
      BY <1>1, <1>2, <1>f, <1>4, <3>2 DEF Layout, Linked
    <3> QED BY <3>1, <3>2
  <2> QED BY <2>1, <2>2, <2>3 DEF Linked
<1>10. Layout(j, h, e)
  BY <1>6, <1>7, <1>8, <1>9 DEF Layout
<1> QED BY <1>3, <1>10 DEF j

LEMMA SplitLayout ==
  ASSUME NEW m, NEW h, NEW e, Layout(m, h, e),
         NEW b \in DOMAIN m, NEW s \in Nat, s % ALIGNMENT = 0,
         m[b].size >= s + HEADER_SIZE + ALIGNMENT,
         NEW rest, rest = b + HEADER_SIZE + s
  PROVE  Layout(Split(m, b, s), h, e) /\ SplitAt(m, b, s, rest, Split(m, b, s))
<1> DEFINE j == Split(m, b, s)
           n == m[b].next
<1>1. /\ m \in [DOMAIN m -> Header] /\ DOMAIN m \subseteq Nat \ {NULL}
      /\ h \in Nat /\ e \in Nat
      /\ b \in Nat /\ m[b].size \in Nat /\ b % ALIGNMENT = 0
      /\ n # NULL => n \in DOMAIN m \ {b} /\ n = EndOf(m, b)
  BY NextIsBehind DEF Layout, Placed, Linked
<1>2. /\ rest \in Nat /\ b < rest /\ rest < EndOf(m, b) /\ rest % ALIGNMENT = 0
      /\ rest # NULL
  BY <1>1 DEF EndOf, HEADER_SIZE, ALIGNMENT, NULL
<1>3. rest \notin DOMAIN m
  BY <1>1, <1>2 DEF Layout, Disjoint, EndOf, HEADER_SIZE
<1>4. SplitAt(m, b, s, rest, j)
  <2>1. n = NULL \/ n \in DOMAIN m \ {b}
    BY <1>1
  <2> HIDE DEF j
  <2> QED BY <1>1, <1>3, <2>1, SplitValue DEF j
<1> HIDE DEF j
<1>5. /\ EndOf(j, b) = rest /\ EndOf(j, rest) = EndOf(m, b)
      /\ \A c \in DOMAIN m \ {b} : EndOf(j, c) = EndOf(m, c)
  <2>1. rest + HEADER_SIZE + (m[b].size - s - HEADER_SIZE) = b + HEADER_SIZE + m[b].size
    BY <1>1 DEF HEADER_SIZE
  <2>2. /\ j[b].size = s /\ j[rest].size = m[b].size - s - HEADER_SIZE
        /\ \A c \in DOMAIN m \ {b} : j[c].size = m[c].size
    BY <1>4 DEF SplitAt
  <2> QED BY <2>1, <2>2 DEF EndOf
<1>6. \A c \in DOMAIN m : c \in Nat /\ EndOf(m, c) \in Nat /\ c < EndOf(m, c)
  BY <1>1 DEF EndOf, Header, HEADER_SIZE
<1>7. DOMAIN j = DOMAIN m \cup {rest} /\ j \in [DOMAIN j -> Header]
  BY <1>4 DEF SplitAt
<1>8. Placed(j, h, e)
  <2>1. h <= b /\ EndOf(m, b) <= e /\ h \in DOMAIN m
    BY DEF Layout, Placed
  <2>2. \A c \in DOMAIN j : h <= c /\ EndOf(j, c) <= e /\ c % ALIGNMENT = 0
    <3>1. h <= rest /\ EndOf(j, rest) <= e /\ EndOf(j, b) <= e
      BY <1>1, <1>2, <1>5, <1>6, <2>1
    <3> QED BY <1>2, <1>5, <1>7, <2>1, <3>1 DEF Layout, Placed
  <2> QED BY <1>1, <1>2, <1>7, <2>1, <2>2 DEF Placed
<1>9. Disjoint(j)
  <2>1. ASSUME NEW c \in DOMAIN j, NEW d \in DOMAIN j, c < d
        PROVE  EndOf(j, c) <= d
    <3>1. c \in Nat /\ d \in Nat /\ (c \in DOMAIN m \/ c = rest) /\ (d \in DOMAIN m \/ d = rest)
      BY <1>1, <1>2, <1>7
    <3>2. CASE c = b
      BY <1>2, <1>5, <1>6, <2>1, <3>1, <3>2 DEF Layout, Disjoint
    <3>3. CASE c = rest
      BY <1>2, <1>5, <1>6, <2>1, <3>1, <3>3 DEF Layout, Disjoint
    <3>4. CASE c # b /\ c # rest
      <4>1. c \in DOMAIN m /\ EndOf(j, c) = EndOf(m, c)
        BY <1>5, <3>1, <3>4
      <4>2. CASE d = rest
        <5>1. c < b \/ b < c
          BY <1>1, <3>1, <3>4
        <5>2. CASE c < b
          BY <1>1, <1>2, <1>6, <4>1, <4>2, <5>2 DEF Layout, Disjoint
        <5>3. CASE b < c
          BY <1>1, <1>2, <1>6, <2>1, <4>1, <4>2, <5>3 DEF Layout, Disjoint
        <5> QED BY <5>1, <5>2, <5>3
      <4>3. CASE d # rest
        BY <2>1, <3>1, <4>1, <4>3 DEF Layout, Disjoint
      <4> QED BY <4>2, <4>3
    <3> QED BY <3>2, <3>3, <3>4
  <2> QED BY <2>1 DEF Disjoint
<1>10. Covered(j, h, e)
  <2>1. ASSUME NEW x \in h .. (e - 1)
        PROVE  \E c \in DOMAIN j : c <= x /\ x < EndOf(j, c)
    <3>1. PICK c \in DOMAIN m : c <= x /\ x < EndOf(m, c)
      BY DEF Layout, Covered
    <3>2. CASE c = b
      <4>1. CASE x < rest
        BY <1>5, <1>7, <3>1, <3>2, <4>1
      <4>2. CASE ~(x < rest)
        BY <1>1, <1>2, <1>5, <1>7, <3>1, <3>2, <4>2
      <4> QED BY <4>1, <4>2
    <3>3. CASE c # b
      BY <1>5, <1>7, <3>1, <3>3
    <3> QED BY <3>2, <3>3
  <2> QED BY <2>1 DEF Covered
<1>11. Linked(j, h, e)
  <2>1. ASSUME NEW c \in DOMAIN j, j[c].next # NULL
        PROVE  /\ j[c].next \in DOMAIN j /\ j[c].next = EndOf(j, c)
               /\ j[j[c].next].prev = c
    <3>1. CASE c = b
      BY <1>4, <1>5, <1>7, <3>1 DEF SplitAt
    <3>2. CASE c = rest
      <4>1. j[c].next = n /\ n \in DOMAIN m \ {b} /\ n = EndOf(m, b)
        BY <1>1, <1>4, <2>1, <3>2 DEF SplitAt
      <4>2. j[n].prev = rest
        BY <1>4, <4>1 DEF SplitAt
      <4> QED BY <1>5, <1>7, <3>2, <4>1, <4>2
    <3>3. CASE c # b /\ c # rest
      <4> DEFINE d == m[c].next
      <4>1. c \in DOMAIN m \ {b} /\ j[c].next = d /\ d # NULL
        BY <1>4, <1>7, <2>1, <3>3 DEF SplitAt
      <4>2. d \in DOMAIN m /\ d = EndOf(m, c) /\ m[d].prev = c
        BY <4>1 DEF Layout, Linked
      <4>3. d # n
        BY <4>1, <4>2 DEF Layout, Linked
      <4>4. j[d].prev = c
        <5>1. CASE d = b
          BY <1>4, <4>2, <5>1 DEF SplitAt
        <5>2. CASE d # b
          BY <1>4, <4>2, <4>3, <5>2 DEF SplitAt
        <5> QED BY <5>1, <5>2
      <4> QED BY <1>5, <1>7, <4>1, <4>2, <4>4
    <3> QED BY <3>1, <3>2, <3>3
  <2>2. ASSUME NEW c \in DOMAIN j, j[c].prev # NULL
        PROVE  j[c].prev \in DOMAIN j /\ j[j[c].prev].next = c
    <3>1. CASE c = rest
      BY <1>4, <1>7, <3>1 DEF SplitAt
    <3>2. CASE c # rest /\ c # b /\ c = n
      BY <1>4, <1>7, <3>2 DEF SplitAt
    <3>3. CASE c # rest /\ (c = b \/ c # n)
      <4> DEFINE p == m[c].prev
      <4>1. c \in DOMAIN m /\ j[c].prev = p /\ p # NULL
        BY <1>4, <1>7, <2>2, <3>3 DEF SplitAt
      <4>2. p \in DOMAIN m /\ m[p].next = c
        BY <4>1 DEF Layout, Linked
      <4>3. p # b
        <5>1. CASE c = b
          BY <1>1, <4>2, <5>1
        <5>2. CASE c # b
          BY <3>3, <4>2, <5>2
        <5> QED BY <5>1, <5>2
      <4>4. j[p].next = c
        BY <1>4, <4>2, <4>3 DEF SplitAt
      <4> QED BY <1>7, <4>1, <4>2, <4>4
    <3> QED BY <1>1, <3>1, <3>2, <3>3
  <2>3. ASSUME NEW c \in DOMAIN j
        PROVE  /\ j[c].next = NULL => EndOf(j, c) = e
               /\ j[c].prev = NULL => c = h
    <3>1. CASE c = b
      BY <1>2, <1>4, <3>1 DEF SplitAt, Layout, Linked
    <3>2. CASE c = rest
      BY <1>1, <1>4, <1>5, <3>2 DEF SplitAt, Layout, Linked
    <3>3. CASE c # b /\ c # rest
      <4>1. c \in DOMAIN m \ {b} /\ j[c].next = m[c].next
        BY <1>4, <1>7, <3>3 DEF SplitAt
      <4>2. j[c].prev = rest \/ j[c].prev = m[c].prev
        BY <1>4, <4>1 DEF SplitAt
      <4> QED BY <1>2, <1>5, <4>1, <4>2 DEF Layout, Linked
    <3> QED BY <3>1, <3>2, <3>3
  <2> QED BY <2>1, <2>2, <2>3 DEF Linked
<1>12. Layout(j, h, e)
  BY <1>8, <1>9, <1>10, <1>11 DEF Layout
<1> QED BY <1>4, <1>12 DEF j

-----------------------------------------------------------------------------
(* kfree, one neighbour at a time. *)

(* Marking a held block free. *)
LEMMA MarkFree ==
  ASSUME NEW m, NEW h, NEW e, Layout(m, h, e), CoalescedBut(m, NULL),
         NEW o, Held(m, o), NEW b \in DOMAIN m, b + HEADER_SIZE \in DOMAIN o
  PROVE  LET g == [m EXCEPT ![b].is_free = TRUE]
         IN  /\ Layout(g, h, e) /\ b \in DOMAIN g /\ g[b].is_free
             /\ CoalescedBut(g, b)
             /\ Held(g, Drop(o, b + HEADER_SIZE))
<1> DEFINE g == [m EXCEPT ![b].is_free = TRUE]
<1>1. Flagged(m, b, TRUE, g)
  BY FlagValue DEF Layout, Placed
<1> HIDE DEF g
<1>2. /\ Layout(g, h, e)
      /\ DOMAIN g = DOMAIN m /\ g[b].is_free
      /\ \A c \in DOMAIN m : /\ g[c].size = m[c].size
                             /\ g[c].next = m[c].next
                             /\ c # b => g[c].is_free = m[c].is_free
  BY <1>1, FlagLayout DEF Flagged
<1>3. \A c \in DOMAIN m : /\ c \in Nat \ {NULL}
                          /\ m[c].next # NULL => m[c].next \in DOMAIN m
  BY DEF Layout, Placed, Linked
<1>4. CoalescedBut(g, b)
  BY <1>2, <1>3 DEF CoalescedBut
<1>5. Held(g, Drop(o, b + HEADER_SIZE))
  <2> DEFINE q == Drop(o, b + HEADER_SIZE)
  <2>1. /\ DOMAIN q = DOMAIN o \ {b + HEADER_SIZE} /\ DOMAIN o \subseteq Nat
        /\ \A p \in DOMAIN q : q[p] = o[p]
    BY DEF Drop, Held
  <2> HIDE DEF q
  <2>2. ASSUME NEW c \in DOMAIN g, ~g[c].is_free
        PROVE  c + HEADER_SIZE \in DOMAIN q
    <3>1. c # b /\ c + HEADER_SIZE \in DOMAIN o
      BY <1>2, <2>2 DEF Held
    <3>2. c + HEADER_SIZE # b + HEADER_SIZE
      BY <1>2, <1>3, <3>1 DEF HEADER_SIZE
    <3> QED BY <2>1, <3>1, <3>2
  <2>3. ASSUME NEW p \in DOMAIN q
        PROVE  /\ p - HEADER_SIZE \in DOMAIN g /\ ~g[p - HEADER_SIZE].is_free
               /\ q[p] <= g[p - HEADER_SIZE].size
    <3>1. p \in DOMAIN o /\ p # b + HEADER_SIZE /\ q[p] = o[p]
      BY <2>1
    <3>2. /\ p - HEADER_SIZE \in DOMAIN m /\ ~m[p - HEADER_SIZE].is_free
          /\ o[p] <= m[p - HEADER_SIZE].size
      BY <3>1 DEF Held
    <3>3. p - HEADER_SIZE # b
      BY <1>3, <2>1, <3>1, <3>2 DEF HEADER_SIZE
    <3> QED BY <1>2, <3>1, <3>2, <3>3
  <2> QED BY <2>1, <2>2, <2>3 DEF Held, q
<1> QED BY <1>2, <1>4, <1>5 DEF g

(* Joining two free blocks takes none from a caller. *)
LEMMA JoinHeld ==
  ASSUME NEW m, NEW a \in DOMAIN m, NEW b \in DOMAIN m,
         m[a].is_free, m[b].is_free, NEW o, Held(m, o),
         NEW j, Joined(m, a, b, j)
  PROVE  Held(j, o)
<1>1. /\ DOMAIN j = DOMAIN m \ {b} /\ j[a].is_free = m[a].is_free
      /\ \A c \in DOMAIN m \ {a, b} : /\ j[c].size = m[c].size
                                      /\ j[c].is_free = m[c].is_free
  BY DEF Joined
<1>2. /\ DOMAIN o \subseteq Nat
      /\ \A c \in DOMAIN j : ~j[c].is_free => c + HEADER_SIZE \in DOMAIN o
  BY <1>1 DEF Held
<1>3. ASSUME NEW p \in DOMAIN o
      PROVE  /\ p - HEADER_SIZE \in DOMAIN j /\ ~j[p - HEADER_SIZE].is_free
             /\ o[p] <= j[p - HEADER_SIZE].size
  <2>1. /\ p - HEADER_SIZE \in DOMAIN m /\ ~m[p - HEADER_SIZE].is_free
        /\ o[p] <= m[p - HEADER_SIZE].size
    BY DEF Held
  <2>2. p - HEADER_SIZE \notin {a, b}
    BY <2>1
  <2> QED BY <1>1, <2>1, <2>2
<1> QED BY <1>2, <1>3 DEF Held

LEMMA NextAbsorbed ==
  ASSUME NEW m, NEW h, NEW e, Layout(m, h, e), NEW b \in DOMAIN m, m[b].is_free,
         CoalescedBut(m, b), NEW o, Held(m, o)
  PROVE  LET j == CoalesceNext(m, b)
         IN  /\ Layout(j, h, e) /\ b \in DOMAIN j /\ j[b].is_free
             /\ CoalescedBut(j, b) /\ Held(j, o)
             /\ j[b].next # NULL => ~j[j[b].next].is_free
<1> DEFINE j == CoalesceNext(m, b)
           n == m[b].next
<1>1. CASE n # NULL /\ m[n].is_free
  <2>1. n \in DOMAIN m /\ b < n /\ m[n].prev = b /\ b \in Nat /\ n \in Nat
    BY <1>1, NextIsBehind DEF Layout, Linked, Placed
  <2>2. j = Join(m, b, n)
    BY <1>1 DEF CoalesceNext
  <2>3. Layout(j, h, e) /\ Joined(m, b, n, j)
    <3> HIDE DEF j
    <3> QED BY <2>1, <2>2, JoinLayout
  <2> HIDE DEF j
  <2>4. Held(j, o)
    BY <1>1, <2>1, <2>3, JoinHeld
  <2>5. /\ DOMAIN j = DOMAIN m \ {n} /\ j[b].is_free /\ j[b].next = m[n].next
        /\ \A c \in DOMAIN m \ {b, n} : /\ j[c].next = m[c].next
                                        /\ j[c].is_free = m[c].is_free
    BY <2>3 DEF Joined
  <2>6. b \in DOMAIN j
    BY <2>1, <2>5
  <2>7. CoalescedBut(j, b)
    <3>1. ASSUME NEW c \in DOMAIN j, j[c].is_free, j[c].next # NULL, c # b, j[c].next # b
          PROVE  ~j[j[c].next].is_free
      <4> DEFINE d == m[c].next
      <4>1. c \in DOMAIN m \ {b, n} /\ j[c].next = d /\ m[c].is_free /\ d # NULL /\ d # b
        BY <2>5, <3>1
      <4>2. d \in DOMAIN m /\ m[d].prev = c
        BY <4>1 DEF Layout, Linked
      <4>3. d # n
        BY <2>1, <4>1, <4>2
      <4>4. ~m[d].is_free
        BY <4>1 DEF CoalescedBut
      <4> QED BY <2>5, <4>1, <4>2, <4>3, <4>4
    <3> QED BY <3>1 DEF CoalescedBut
  <2>8. j[b].next # NULL => ~j[j[b].next].is_free
    <3> SUFFICES ASSUME j[b].next # NULL
                 PROVE  ~j[j[b].next].is_free
      OBVIOUS
    <3> DEFINE k == m[n].next
    <3>1. j[b].next = k /\ k # NULL
      BY <2>5
    <3>2. k \in DOMAIN m /\ n < k /\ k \in Nat
      BY <2>1, <3>1, NextIsBehind DEF Layout, Placed
    <3> HIDE DEF k, n
    <3>3. k # b /\ k # n /\ n # b
      BY <2>1, <3>2
    <3>4. ~m[k].is_free
      BY <1>1, <2>1, <3>1, <3>3 DEF CoalescedBut, k
    <3> QED BY <2>5, <3>1, <3>2, <3>3, <3>4
  <2> QED BY <2>3, <2>4, <2>5, <2>6, <2>7, <2>8 DEF j
<1>2. CASE ~(n # NULL /\ m[n].is_free)
  <2>1. j = m
    BY <1>2 DEF CoalesceNext
  <2> QED BY <1>2, <2>1
<1> QED BY <1>1, <1>2

LEMMA PrevAbsorbed ==
  ASSUME NEW m, NEW h, NEW e, Layout(m, h, e), NEW b \in DOMAIN m, m[b].is_free,
         CoalescedBut(m, b), NEW o, Held(m, o),
         m[b].next # NULL => ~m[m[b].next].is_free
  PROVE  LET j == CoalescePrev(m, b)
         IN  Layout(j, h, e) /\ CoalescedBut(j, NULL) /\ Held(j, o)
<1> DEFINE j == CoalescePrev(m, b)
           p == m[b].prev
<1>0. \A c \in DOMAIN m : c # NULL /\ (m[c].next # NULL => m[c].next \in DOMAIN m
                                                       /\ m[m[c].next].prev = c)
  BY DEF Layout, Placed, Linked
<1>1. CASE p # NULL /\ m[p].is_free
  <2>1. p \in DOMAIN m /\ p < b /\ m[p].next = b /\ b \in Nat /\ p \in Nat
    BY <1>1, NextIsBehind DEF Layout, Linked, Placed
  <2>2. j = Join(m, p, b)
    BY <1>1 DEF CoalescePrev
  <2>3. Layout(j, h, e) /\ Joined(m, p, b, j)
    <3> HIDE DEF j
    <3> QED BY <2>1, <2>2, JoinLayout
  <2> HIDE DEF j
  <2>4. Held(j, o)
    BY <1>1, <2>1, <2>3, JoinHeld
  <2>5. /\ DOMAIN j = DOMAIN m \ {b} /\ j[p].is_free /\ j[p].next = m[b].next
        /\ \A c \in DOMAIN m \ {p, b} : /\ j[c].next = m[c].next
                                        /\ j[c].is_free = m[c].is_free
    BY <1>1, <2>3 DEF Joined
  <2>6. ASSUME NEW c \in DOMAIN j, j[c].is_free, j[c].next # NULL
        PROVE  ~j[j[c].next].is_free
    <3>1. CASE c = p
      <4> DEFINE d == m[b].next
      <4>1. j[c].next = d /\ d # NULL /\ d \in DOMAIN m /\ b < d /\ d \in Nat
        BY <2>5, <2>6, <3>1, NextIsBehind DEF Layout, Placed
      <4>2. ~m[d].is_free
        BY <4>1
      <4> HIDE DEF d, p
      <4>3. d # p /\ d # b
        BY <2>1, <4>1
      <4> QED BY <2>5, <4>1, <4>2, <4>3
    <3>2. CASE c # p
      <4> DEFINE d == m[c].next
      <4>1. c \in DOMAIN m \ {p, b} /\ j[c].next = d /\ m[c].is_free /\ d # NULL
        BY <2>5, <2>6, <3>2
      <4>2. d \in DOMAIN m /\ m[d].prev = c
        BY <1>0, <4>1
      <4>3. d # b
        BY <3>2, <4>2
      <4>4. ~m[d].is_free
        BY <4>1, <4>3 DEF CoalescedBut
      <4>5. d # p
        BY <1>1, <4>4
      <4> QED BY <2>5, <4>1, <4>2, <4>3, <4>4, <4>5
    <3> QED BY <3>1, <3>2
  <2>7. CoalescedBut(j, NULL)
    BY <2>6 DEF CoalescedBut
  <2> QED BY <2>3, <2>4, <2>7 DEF j
<1>2. CASE ~(p # NULL /\ m[p].is_free)
  <2>1. j = m
    BY <1>2 DEF CoalescePrev
  <2>2. ASSUME NEW c \in DOMAIN m, m[c].is_free, m[c].next # NULL
        PROVE  ~m[m[c].next].is_free
    <3>1. CASE c = b
      BY <2>2, <3>1
    <3>2. CASE m[c].next = b
      <4>1. m[b].prev = c /\ c # NULL
        BY <1>0, <2>2, <3>2
      <4> QED BY <1>2, <2>2, <4>1
    <3>3. CASE c # b /\ m[c].next # b
      BY <2>2, <3>3 DEF CoalescedBut
    <3> QED BY <3>1, <3>2, <3>3
  <2>3. CoalescedBut(m, NULL)
    BY <2>2 DEF CoalescedBut
  <2> QED BY <2>1, <2>3
<1> QED BY <1>1, <1>2

LEMMA FreedKeeps ==
  ASSUME NEW m, NEW h, NEW e, Layout(m, h, e), CoalescedBut(m, NULL),
         NEW o, Held(m, o), NEW ptr \in DOMAIN o
  PROVE  LET j == Freed(m, ptr - HEADER_SIZE)
         IN  Layout(j, h, e) /\ CoalescedBut(j, NULL) /\ Held(j, Drop(o, ptr))
<1> DEFINE b == ptr - HEADER_SIZE
           g == [m EXCEPT ![b].is_free = TRUE]
           k == CoalesceNext(g, b)
           q == Drop(o, ptr)
<1>1. b \in DOMAIN m /\ b + HEADER_SIZE = ptr
  BY DEF Held, HEADER_SIZE
<1>2. Freed(m, b) = CoalescePrev(k, b)
  BY DEF Freed
<1> HIDE DEF b
<1>3. /\ Layout(g, h, e) /\ b \in DOMAIN g /\ g[b].is_free
      /\ CoalescedBut(g, b) /\ Held(g, Drop(o, b + HEADER_SIZE))
  BY <1>1, MarkFree
<1>4. Held(g, q)
  BY <1>1, <1>3
<1> HIDE DEF g, q
<1>5. /\ Layout(k, h, e) /\ b \in DOMAIN k /\ k[b].is_free
      /\ CoalescedBut(k, b) /\ Held(k, q)
      /\ k[b].next # NULL => ~k[k[b].next].is_free
  BY <1>3, <1>4, NextAbsorbed
<1> HIDE DEF k
<1>6. /\ Layout(CoalescePrev(k, b), h, e) /\ CoalescedBut(CoalescePrev(k, b), NULL)
      /\ Held(CoalescePrev(k, b), q)
  BY <1>5, PrevAbsorbed
<1> QED BY <1>2, <1>6 DEF b, q

(* kmalloc taking a free block that is large enough. *)
LEMMA TakeKeeps ==
  ASSUME NEW m, NEW h, NEW e, Layout(m, h, e), CoalescedBut(m, NULL),
         NEW o, Held(m, o), NEW b \in DOMAIN m, m[b].is_free,
         NEW s \in Nat, s % ALIGNMENT = 0, m[b].size >= s,
         NEW r \in Nat, r <= s,
         NEW w, w = IF m[b].size >= s + HEADER_SIZE + ALIGNMENT THEN Split(m, b, s) ELSE m
  PROVE  LET j == [w EXCEPT ![b].is_free = FALSE]
         IN  /\ Layout(j, h, e) /\ CoalescedBut(j, NULL)
             /\ Held(j, Add(o, b + HEADER_SIZE, r))
             /\ w[b].size \in Nat
<1> DEFINE j == [w EXCEPT ![b].is_free = FALSE]
           q == Add(o, b + HEADER_SIZE, r)
           rest == b + HEADER_SIZE + s
           n == m[b].next
<1>1. /\ \A c \in DOMAIN m : /\ c \in Nat \ {NULL}
                             /\ m[c].next # NULL => /\ m[c].next \in DOMAIN m
                                                    /\ m[c].next # c
                                                    /\ m[m[c].next].prev = c
      /\ m \in [DOMAIN m -> Header] /\ b \in Nat
  BY NextIsBehind DEF Layout, Placed, Linked
<1>2. /\ Layout(w, h, e) /\ b \in DOMAIN w /\ w[b].size >= r
      /\ w \in [DOMAIN w -> Header] /\ w[b].size \in Nat
      /\ \A c \in DOMAIN w : w[c].next # NULL => w[c].next \in DOMAIN w
      /\ DOMAIN m \subseteq DOMAIN w
      /\ \A c \in DOMAIN m \ {b} : /\ w[c].next = m[c].next
                                   /\ w[c].size = m[c].size
                                   /\ w[c].is_free = m[c].is_free
      /\ \A c \in DOMAIN w \ DOMAIN m : w[c].next = n /\ w[c].is_free
  <2>1. CASE m[b].size >= s + HEADER_SIZE + ALIGNMENT
    <3>1. w = Split(m, b, s)
      BY <2>1
    <3>2. Layout(w, h, e) /\ SplitAt(m, b, s, rest, w)
      <4> HIDE DEF rest
      <4> QED BY <2>1, <3>1, SplitLayout DEF rest
    <3> HIDE DEF rest
    <3>3. /\ DOMAIN w = DOMAIN m \cup {rest} /\ w[b].size = s
          /\ w[rest].next = n /\ w[rest].is_free
          /\ \A c \in DOMAIN m \ {b} : /\ w[c].next = m[c].next
                                       /\ w[c].size = m[c].size
                                       /\ w[c].is_free = m[c].is_free
      BY <3>2 DEF SplitAt
    <3>4. w \in [DOMAIN w -> Header]
      BY <3>2 DEF Layout, Placed
    <3>5. \A c \in DOMAIN w : w[c].next # NULL => w[c].next \in DOMAIN w
      BY <3>2 DEF Layout, Linked
    <3> QED BY <3>2, <3>3, <3>4, <3>5
  <2>2. CASE ~(m[b].size >= s + HEADER_SIZE + ALIGNMENT)
    <3>1. w = m
      BY <2>2
    <3>2. m[b].size \in Nat /\ m[b].size >= r
      BY <1>1 DEF Header
    <3> QED BY <1>1, <3>1, <3>2
  <2> QED BY <2>1, <2>2
<1>3. Flagged(w, b, FALSE, j)
  BY <1>2, FlagValue
<1> HIDE DEF j, rest
<1>4. Layout(j, h, e)
  BY <1>2, <1>3, FlagLayout
<1>5. /\ DOMAIN j = DOMAIN w /\ ~j[b].is_free
      /\ \A c \in DOMAIN w : /\ j[c].size = w[c].size /\ j[c].next = w[c].next
                             /\ c # b => j[c].is_free = w[c].is_free
  BY <1>3 DEF Flagged
<1>6. CoalescedBut(j, NULL)
  <2>1. ASSUME NEW c \in DOMAIN j, j[c].is_free, j[c].next # NULL
        PROVE  ~j[j[c].next].is_free
    <3>1. c # b
      BY <1>5, <2>1
    <3>2. CASE c \in DOMAIN m
      <4> DEFINE d == m[c].next
      <4>1. j[c].next = d /\ d # NULL /\ m[c].is_free /\ d \in DOMAIN m
        BY <1>1, <1>2, <1>5, <2>1, <3>1, <3>2
      <4>2. ~m[d].is_free
        BY <1>1, <3>2, <4>1 DEF CoalescedBut
      <4> HIDE DEF d
      <4>3. d # b
        BY <4>2
      <4> QED BY <1>2, <1>5, <4>1, <4>2, <4>3
    <3>3. CASE c \notin DOMAIN m
      <4>1. j[c].next = n /\ n # NULL /\ n \in DOMAIN m /\ n # b
        BY <1>1, <1>2, <1>5, <2>1, <3>3
      <4>2. ~m[n].is_free
        BY <1>1, <4>1 DEF CoalescedBut
      <4> HIDE DEF n
      <4> QED BY <1>2, <1>5, <4>1, <4>2
    <3> QED BY <3>2, <3>3
  <2> QED BY <2>1 DEF CoalescedBut
<1>7. Held(j, q)
  <2>1. /\ DOMAIN q = DOMAIN o \cup {b + HEADER_SIZE} /\ DOMAIN o \subseteq Nat
        /\ q[b + HEADER_SIZE] = r
        /\ \A p \in DOMAIN o : p # b + HEADER_SIZE => q[p] = o[p]
    BY DEF Add, Held
  <2> HIDE DEF q
  <2>2. DOMAIN q \subseteq Nat
    BY <1>1, <2>1 DEF HEADER_SIZE
  <2>3. ASSUME NEW c \in DOMAIN j, ~j[c].is_free
        PROVE  c + HEADER_SIZE \in DOMAIN q
    <3>1. CASE c = b
      BY <2>1, <3>1
    <3>2. CASE c # b
      <4>1. c \in DOMAIN m /\ ~m[c].is_free
        BY <1>2, <1>5, <2>3, <3>2
      <4> QED BY <2>1, <4>1 DEF Held
    <3> QED BY <3>1, <3>2
  <2>4. ASSUME NEW p \in DOMAIN q
        PROVE  /\ p - HEADER_SIZE \in DOMAIN j /\ ~j[p - HEADER_SIZE].is_free
               /\ q[p] <= j[p - HEADER_SIZE].size
    <3>1. CASE p = b + HEADER_SIZE
      <4>1. p - HEADER_SIZE = b
        BY <1>1, <3>1 DEF HEADER_SIZE
      <4> QED BY <1>2, <1>5, <2>1, <3>1, <4>1
    <3>2. CASE p # b + HEADER_SIZE
      <4>1. p \in DOMAIN o /\ q[p] = o[p]
        BY <2>1, <3>2
      <4>2. /\ p - HEADER_SIZE \in DOMAIN m /\ ~m[p - HEADER_SIZE].is_free
            /\ o[p] <= m[p - HEADER_SIZE].size
        BY <4>1 DEF Held
      <4>3. p - HEADER_SIZE # b
        BY <4>2
      <4> QED BY <1>2, <1>5, <4>1, <4>2, <4>3
    <3> QED BY <3>1, <3>2
  <2> QED BY <2>2, <2>3, <2>4 DEF Held
<1> QED BY <1>2, <1>4, <1>6, <1>7 DEF j

-----------------------------------------------------------------------------
(* The invariant. *)

LEMMA InitInv == Init => IInv
<1> SUFFICES ASSUME Init
             PROVE  IInv
  OBVIOUS
<1>1. TypeOK
  BY HeapAssumption DEF Init, TypeOK, Header, NULL
<1>2. Walked
  BY DEF Init, Walked
<1> QED BY <1>1, <1>2, HeapAssumption DEF Init, IInv

LEMMA NextInv == IInv /\ [Next]_vars => IInv'
<1> SUFFICES ASSUME IInv, [Next]_vars
             PROVE  IInv'
  OBVIOUS
<1> DEFINE h == free_list_head
           e == heap_end
<1>1. ASSUME NEW total \in HeapSizes, heap_init(total)
      PROVE  IInv'
  <2>1. /\ free_list_head = NULL /\ DOMAIN mem = {} /\ DOMAIN owned = {}
        /\ pc' = "idle" /\ heap_end' = StackTop + total
        /\ UNCHANGED <<busy_mem_size, size, current, request, owned>>
        /\ total \in Nat /\ StackTop \in Nat \ {NULL} /\ StackTop % ALIGNMENT = 0
        /\ ALIGN(StackTop) = StackTop
    BY <1>1, HeapAssumption, ALIGNValue DEF heap_init, IInv, Walked, NULL
  <2>2. CASE total <= HEADER_SIZE
    <3>1. UNCHANGED <<free_list_head, mem>>
      BY <1>1, <2>1, <2>2 DEF heap_init, HEADER_SIZE
    <3>2. TypeOK'
      BY <2>1, <3>1 DEF IInv, TypeOK
    <3> QED BY <2>1, <3>1, <3>2 DEF IInv, Walked, NULL
  <2>3. CASE total > HEADER_SIZE
    <3> DEFINE H == [size |-> total - HEADER_SIZE, is_free |-> TRUE,
                     next |-> NULL, prev |-> NULL]
    <3>1. free_list_head' = StackTop /\ mem' = [b \in {StackTop} |-> H]
      BY <1>1, <2>1, <2>3 DEF heap_init, HEADER_SIZE
    <3>2. H \in Header /\ StackTop + HEADER_SIZE + H.size = StackTop + total
      BY <2>1, <2>3 DEF Header, HEADER_SIZE, NULL
    <3>3. DOMAIN mem' = {StackTop} /\ mem'[StackTop] = H /\ EndOf(mem', StackTop) = heap_end'
      BY <2>1, <3>1, <3>2 DEF EndOf
    <3>4. Layout(mem', StackTop, heap_end')
      <4>1. Placed(mem', StackTop, heap_end')
        BY <2>1, <3>1, <3>2, <3>3 DEF Placed
      <4>2. Linked(mem', StackTop, heap_end')
        BY <3>3 DEF Linked
      <4>3. Disjoint(mem') /\ Covered(mem', StackTop, heap_end')
        BY <2>1, <3>3 DEF Disjoint, Covered
      <4> QED BY <4>1, <4>2, <4>3 DEF Layout
    <3>5. CoalescedBut(mem', NULL) /\ Held(mem', owned')
      BY <2>1, <3>3 DEF CoalescedBut, Held
    <3>6. TypeOK'
      <4>1. mem' \in [DOMAIN mem' -> Header] /\ DOMAIN mem' \subseteq Nat \ {NULL}
        BY <3>4 DEF Layout, Placed
      <4> QED BY <2>1, <3>1, <4>1 DEF IInv, TypeOK
    <3> QED BY <2>1, <3>1, <3>4, <3>5, <3>6 DEF IInv, Walked, NULL
  <2> QED BY <2>1, <2>2, <2>3 DEF HEADER_SIZE
<1>2. ASSUME NEW r \in Requests, kmalloc_enter(r)
      PROVE  IInv'
  <2>1. /\ size' = ALIGN(r) /\ current' = free_list_head /\ request' = r
        /\ pc = "idle" /\ pc' = "walk"
        /\ UNCHANGED <<free_list_head, mem, busy_mem_size, owned, heap_end>>
    BY <1>2 DEF kmalloc_enter
  <2>2. r \in Nat /\ ALIGN(r) \in Nat /\ r <= ALIGN(r) /\ ALIGN(r) % ALIGNMENT = 0
    BY HeapAssumption, ALIGNValue
  <2>3. TypeOK'
    BY <2>1, <2>2 DEF IInv, TypeOK
  <2>4. Walked'
    <3>1. CASE h = NULL
      BY <2>1, <2>2, <3>1 DEF IInv, Walked
    <3>2. CASE h # NULL
      <4>1. h \in DOMAIN mem /\ \A b \in DOMAIN mem : ~(b < h)
        BY <3>2 DEF IInv, Layout, Placed
      <4> QED BY <2>1, <2>2, <3>2, <4>1 DEF Walked
    <3> QED BY <3>1, <3>2
  <2> QED BY <2>1, <2>3, <2>4 DEF IInv
<1>3. ASSUME kmalloc_next
      PROVE  IInv'
  <2>1. /\ pc = "walk" /\ pc' = "walk" /\ current # NULL /\ ~Fits(current)
        /\ current' = mem[current].next
        /\ UNCHANGED <<free_list_head, mem, busy_mem_size, size, request, owned, heap_end>>
    BY <1>3 DEF kmalloc_next
  <2>2. current \in DOMAIN mem /\ h # NULL /\ Layout(mem, h, e)
    BY <2>1 DEF IInv, Walked
  <2>3. /\ current' # NULL => current' \in DOMAIN mem /\ current' = EndOf(mem, current)
        /\ current' = NULL => EndOf(mem, current) = e
    BY <2>1, <2>2 DEF Layout, Linked
  <2>4. \A b \in DOMAIN mem : /\ b \in Nat /\ mem[b].size \in Nat /\ mem[b].next \in Nat
                              /\ b < EndOf(mem, b) /\ EndOf(mem, b) <= e
                              /\ EndOf(mem, b) \in Nat /\ e \in Nat
    BY <2>2 DEF Layout, Placed, Header, EndOf, HEADER_SIZE
  <2>5. TypeOK'
    BY <2>1, <2>2, <2>4 DEF IInv, TypeOK
  <2>6. ASSUME NEW b \in DOMAIN mem, current' = NULL \/ b < current'
        PROVE  ~Fits(b)
    <3>1. CASE b < current
      BY <2>1, <3>1 DEF IInv, Walked
    <3>2. CASE b = current
      BY <2>1, <3>2
    <3>3. CASE current < b
      <4>1. EndOf(mem, current) <= b
        BY <2>2, <3>3 DEF Layout, Disjoint
      <4> QED BY <2>2, <2>3, <2>4, <2>6, <4>1
    <3> QED BY <2>2, <2>4, <3>1, <3>2, <3>3
  <2>7. Walked'
    <3>1. \A b \in DOMAIN mem : Fits(b)' = Fits(b)
      BY <2>1 DEF Fits
    <3> QED BY <2>1, <2>3, <2>6, <3>1 DEF IInv, Walked
  <2> QED BY <2>1, <2>5, <2>7 DEF IInv
<1>4. ASSUME kmalloc_take
      PROVE  IInv'
  <2> DEFINE w == IF Splits(current) THEN Split(mem, current, size) ELSE mem
  <2>1. /\ pc = "walk" /\ pc' = "idle" /\ current # NULL /\ Fits(current)
        /\ mem' = [w EXCEPT ![current].is_free = FALSE]
        /\ busy_mem_size' = busy_mem_size + w[current].size
        /\ owned' = Add(owned, current + HEADER_SIZE, request)
        /\ size' = 0 /\ current' = NULL /\ request' = 0
        /\ UNCHANGED <<free_list_head, heap_end>>
    BY <1>4 DEF kmalloc_take, kmalloc_return
  <2>2. /\ current \in DOMAIN mem /\ h # NULL /\ Layout(mem, h, e)
        /\ CoalescedBut(mem, NULL) /\ Held(mem, owned)
        /\ size \in Nat /\ size % ALIGNMENT = 0 /\ request \in Nat /\ request <= size
    BY <2>1 DEF IInv, Walked, TypeOK
  <2>3. mem[current].is_free /\ mem[current].size >= size
    BY <2>1 DEF Fits
  <2>4. w = IF mem[current].size >= size + HEADER_SIZE + ALIGNMENT
            THEN Split(mem, current, size) ELSE mem
    BY DEF Splits
  <2> HIDE DEF w
  <2>5. /\ Layout(mem', h, e) /\ CoalescedBut(mem', NULL) /\ Held(mem', owned')
        /\ w[current].size \in Nat
    <3> HIDE DEF h, e
    <3> DEFINE j == [w EXCEPT ![current].is_free = FALSE]
               q == Add(owned, current + HEADER_SIZE, request)
    <3>1. /\ Layout(j, h, e) /\ CoalescedBut(j, NULL) /\ Held(j, q)
          /\ w[current].size \in Nat
      BY <2>2, <2>3, <2>4, TakeKeeps
    <3> QED BY <2>1, <3>1
  <2>6. TypeOK'
    <3>1. mem' \in [DOMAIN mem' -> Header] /\ DOMAIN mem' \subseteq Nat \ {NULL}
      BY <2>5 DEF Layout, Placed
    <3>2. DOMAIN owned' \subseteq Nat /\ owned' \in [DOMAIN owned' -> Nat]
      BY <2>1, <2>2, <2>5 DEF Held, Add, IInv, TypeOK
    <3>3. busy_mem_size' \in Int
      BY <2>1, <2>5 DEF IInv, TypeOK
    <3> QED BY <2>1, <3>1, <3>2, <3>3 DEF IInv, TypeOK, NULL
  <2> QED BY <2>1, <2>2, <2>5, <2>6 DEF IInv, Walked
<1>5. ASSUME kmalloc_null
      PROVE  IInv'
  <2>1. /\ pc' = "idle" /\ size' = 0 /\ current' = NULL /\ request' = 0
        /\ UNCHANGED <<free_list_head, mem, busy_mem_size, owned, heap_end>>
    BY <1>5 DEF kmalloc_null, kmalloc_return
  <2>2. TypeOK'
    BY <2>1 DEF IInv, TypeOK, NULL
  <2> QED BY <2>1, <2>2 DEF IInv, Walked
<1>6. ASSUME NEW ptr \in DOMAIN owned, kfree(ptr)
      PROVE  IInv'
  <2> DEFINE b == ptr - HEADER_SIZE
  <2>1. /\ pc = "idle" /\ pc' = "idle"
        /\ busy_mem_size' = busy_mem_size - mem[b].size
        /\ mem' = Freed(mem, b) /\ owned' = Drop(owned, ptr)
        /\ UNCHANGED <<free_list_head, size, current, request, heap_end>>
    BY <1>6 DEF kfree
  <2>2. /\ h # NULL /\ Layout(mem, h, e) /\ CoalescedBut(mem, NULL)
        /\ Held(mem, owned) /\ b \in DOMAIN mem /\ mem[b].size \in Nat
    BY DEF IInv, Held, TypeOK, Header
  <2>3. Layout(mem', h, e) /\ CoalescedBut(mem', NULL) /\ Held(mem', owned')
    <3> HIDE DEF h, e
    <3>1. /\ Layout(Freed(mem, b), h, e) /\ CoalescedBut(Freed(mem, b), NULL)
          /\ Held(Freed(mem, b), Drop(owned, ptr))
      BY <2>2, FreedKeeps
    <3> QED BY <2>1, <3>1
  <2>4. TypeOK'
    <3>1. mem' \in [DOMAIN mem' -> Header] /\ DOMAIN mem' \subseteq Nat \ {NULL}
      BY <2>3 DEF Layout, Placed
    <3>2. DOMAIN owned' \subseteq Nat /\ owned' \in [DOMAIN owned' -> Nat]
      BY <2>1, <2>3 DEF Held, Drop, IInv, TypeOK
    <3>3. busy_mem_size' \in Int
      BY <2>1, <2>2 DEF IInv, TypeOK
    <3> QED BY <2>1, <3>1, <3>2, <3>3 DEF IInv, TypeOK
  <2> QED BY <2>1, <2>2, <2>3, <2>4 DEF IInv, Walked
<1>7. CASE UNCHANGED vars
  <2>1. TypeOK' /\ Walked'
    BY <1>7 DEF vars, IInv, TypeOK, Walked, Fits
  <2> QED BY <1>7, <2>1 DEF vars, IInv
<1> QED BY <1>1, <1>2, <1>3, <1>4, <1>5, <1>6, <1>7 DEF Next

(* The invariant holds of every behaviour of Malloc. *)
THEOREM Invariance == Spec => []IInv
BY InitInv, NextInv, PTL DEF Spec

-----------------------------------------------------------------------------
(* What follows from it. *)

(***************************************************************************)
(* The list, the counters and kmalloc's locals keep their types through    *)
(* heap_init, kmalloc and kfree.                                           *)
(***************************************************************************)
THEOREM TypeCorrect == Spec => []TypeOK
<1>1. IInv => TypeOK
  BY DEF IInv
<1> QED BY <1>1, Invariance, PTL

(***************************************************************************)
(* The pointer updates of kmalloc's split and of kfree's two joins leave a *)
(* list that leads through the blocks in address order and back.           *)
(***************************************************************************)
THEOREM ListIsWhole == Spec => []WellLinked
<1>1. IInv => WellLinked
  BY DEF IInv, WellLinked, Layout, Linked, EndOf, End
<1> QED BY <1>1, Invariance, PTL

(***************************************************************************)
(* The size arithmetic of kmalloc and kfree neither overlaps two blocks    *)
(* nor loses a byte of the heap.                                           *)
(***************************************************************************)
THEOREM HeapIsTiled == Spec => []Tiled
<1>1. IInv => Tiled
  BY DEF IInv, Tiled, Layout, Disjoint, Covered, EndOf, End
<1> QED BY <1>1, Invariance, PTL

(***************************************************************************)
(* kfree, which joins a block with both neighbours, never leaves two free  *)
(* blocks side by side.                                                    *)
(***************************************************************************)
THEOREM AlwaysCoalesced == Spec => []Coalesced
<1>1. ASSUME IInv
      PROVE  Coalesced
  <2>1. ASSUME NEW b \in DOMAIN mem, mem[b].is_free, mem[b].next # NULL
        PROVE  ~mem[mem[b].next].is_free
    BY <1>1, <2>1 DEF IInv, CoalescedBut, Layout, Placed
  <2> QED BY <2>1 DEF Coalesced
<1> QED BY <1>1, Invariance, PTL

(* Where Held and the layout put what callers hold. *)
LEMMA InvUsable == IInv => OwnedIsUsable
<1>1. ASSUME IInv
      PROVE  OwnedIsUsable
  <2>1. ASSUME NEW p \in DOMAIN owned
        PROVE  /\ p % ALIGNMENT = 0
               /\ StackTop < p /\ p + owned[p] <= heap_end
               /\ \A q \in DOMAIN owned : q < p => q + owned[q] <= p
               /\ \A b \in DOMAIN mem : b + HEADER_SIZE <= p \/ p + owned[p] <= b
    <3> DEFINE a == p - HEADER_SIZE
    <3>1. /\ free_list_head # NULL /\ StackTop <= free_list_head
          /\ Layout(mem, free_list_head, heap_end) /\ Held(mem, owned)
          /\ StackTop \in Nat /\ free_list_head \in Nat /\ heap_end \in Nat
      BY <1>1, HeapAssumption DEF IInv, TypeOK
    <3>2. \A b \in DOMAIN mem : /\ b \in Nat /\ mem[b].size \in Nat /\ b % ALIGNMENT = 0
                                /\ free_list_head <= b
                                /\ b + HEADER_SIZE + mem[b].size <= heap_end
      BY <3>1 DEF Layout, Placed, Header, EndOf
    <3>3. \A q \in DOMAIN owned :
            /\ q \in Nat /\ owned[q] \in Nat /\ q - HEADER_SIZE \in DOMAIN mem
            /\ owned[q] <= mem[q - HEADER_SIZE].size
      BY <1>1, <3>1 DEF Held, IInv, TypeOK
    <3>4. \A b, c \in DOMAIN mem : b < c => b + HEADER_SIZE + mem[b].size <= c
      BY <3>1 DEF Layout, Disjoint, EndOf
    <3>5. p % ALIGNMENT = 0
      BY <3>2, <3>3 DEF HEADER_SIZE, ALIGNMENT
    <3>6. StackTop < p /\ p + owned[p] <= heap_end
      <4>1. free_list_head <= a /\ a + HEADER_SIZE = p /\ p + mem[a].size <= heap_end
        BY <3>2, <3>3 DEF HEADER_SIZE
      <4> QED BY <3>1, <3>2, <3>3, <4>1 DEF HEADER_SIZE
    <3>7. ASSUME NEW q \in DOMAIN owned, q < p
          PROVE  q + owned[q] <= p
      <4> DEFINE c == q - HEADER_SIZE
      <4>1. c \in DOMAIN mem /\ c + HEADER_SIZE = q /\ c < a /\ a \in DOMAIN mem
        BY <3>3, <3>7 DEF HEADER_SIZE
      <4>2. q + mem[c].size <= a
        BY <3>4, <4>1
      <4> QED BY <3>2, <3>3, <4>1, <4>2 DEF HEADER_SIZE
    <3>8. ASSUME NEW b \in DOMAIN mem
          PROVE  b + HEADER_SIZE <= p \/ p + owned[p] <= b
      <4>1. a \in DOMAIN mem /\ a + HEADER_SIZE = p
        BY <3>3 DEF HEADER_SIZE
      <4>2. CASE b <= a
        BY <3>2, <4>1, <4>2 DEF HEADER_SIZE
      <4>3. CASE a < b
        <5>1. p + mem[a].size <= b
          BY <3>4, <4>1, <4>3
        <5> QED BY <3>2, <3>3, <4>1, <5>1
      <4> QED BY <3>2, <4>1, <4>2, <4>3
    <3> QED BY <3>5, <3>6, <3>7, <3>8
  <2> QED BY <2>1 DEF OwnedIsUsable
<1> QED BY <1>1

(***************************************************************************)
(* Every pointer kmalloc has handed out stays usable until it is freed:    *)
(* inside the heap, long enough, aligned, and in nobody else's memory.     *)
(***************************************************************************)
THEOREM PointersAreUsable == Spec => []OwnedIsUsable
BY InvUsable, Invariance, PTL

(***************************************************************************)
(* kfree undoes kmalloc: when every pointer has been given back, the heap  *)
(* is the one free block heap_init made.                                   *)
(***************************************************************************)
THEOREM FreeingRestores == Spec => []AllFreedIsWhole
<1>1. ASSUME IInv, owned = [p \in {} |-> 0], free_list_head # NULL
      PROVE  /\ DOMAIN mem = {free_list_head} /\ mem[free_list_head].is_free
             /\ End(free_list_head) = heap_end
  <2> DEFINE h == free_list_head
  <2>1. /\ Layout(mem, h, heap_end) /\ CoalescedBut(mem, NULL) /\ Held(mem, owned)
        /\ h \in DOMAIN mem
    BY <1>1 DEF IInv, Layout, Placed
  <2>2. \A b \in DOMAIN mem : b # NULL /\ mem[b].is_free
    <3>1. mem \in [DOMAIN mem -> Header] /\ DOMAIN owned = {}
      BY <1>1 DEF IInv, TypeOK
    <3> QED BY <2>1, <3>1 DEF Held, Header, Layout, Placed
  <2>3. ASSUME NEW b \in DOMAIN mem
        PROVE  mem[b].next = NULL
    <3>1. mem[b].next # NULL => mem[b].next \in DOMAIN mem
      BY <2>1 DEF Layout, Linked
    <3> QED BY <2>1, <2>2, <3>1 DEF CoalescedBut
  <2>4. ASSUME NEW b \in DOMAIN mem
        PROVE  b = h
    <3>1. /\ mem[b].prev # NULL => /\ mem[b].prev \in DOMAIN mem
                                   /\ mem[mem[b].prev].next = b
          /\ mem[b].prev = NULL => b = h
      BY <2>1 DEF Layout, Linked
    <3> QED BY <2>2, <2>3, <3>1
  <2> QED BY <2>1, <2>2, <2>3, <2>4 DEF Layout, Linked, EndOf, End
<1>2. IInv => AllFreedIsWhole
  BY <1>1 DEF AllFreedIsWhole
<1> QED BY <1>2, Invariance, PTL

(* The successor of a free block is not free, so no hole reaches past one. *)
LEMMA InvNullMeansFull == IInv => NullMeansFull
<1>1. ASSUME IInv, pc = "walk", current = NULL, free_list_head # NULL,
             NEW x \in free_list_head .. (heap_end - HEADER_SIZE - size)
      PROVE  \E p \in DOMAIN owned : /\ p - HEADER_SIZE < x + HEADER_SIZE + size
                                     /\ x < End(p - HEADER_SIZE)
  <2>1. /\ Layout(mem, free_list_head, heap_end) /\ CoalescedBut(mem, NULL)
        /\ Held(mem, owned) /\ \A b \in DOMAIN mem : ~Fits(b)
        /\ free_list_head \in Nat /\ heap_end \in Nat /\ size \in Nat
    BY <1>1 DEF IInv, Walked, TypeOK
  <2>2. \A b \in DOMAIN mem : /\ b \in Nat \ {NULL} /\ mem[b].size \in Nat
                              /\ b < End(b) /\ End(b) \in Nat
                              /\ mem[b].next # NULL => mem[b].next \in DOMAIN mem
                                                       /\ mem[b].next = End(b)
                              /\ mem[b].next = NULL => End(b) = heap_end
    BY <2>1 DEF Layout, Placed, Linked, Header, End, EndOf, HEADER_SIZE
  <2>3. ASSUME NEW b \in DOMAIN mem, ~mem[b].is_free
        PROVE  b + HEADER_SIZE \in DOMAIN owned /\ (b + HEADER_SIZE) - HEADER_SIZE = b
    BY <2>1, <2>2, <2>3 DEF Held, HEADER_SIZE
  <2>4. x \in Nat /\ x \in free_list_head .. (heap_end - 1)
        /\ x + HEADER_SIZE + size <= heap_end /\ x < x + HEADER_SIZE + size
    BY <2>1 DEF HEADER_SIZE
  <2>5. PICK b \in DOMAIN mem : b <= x /\ x < End(b)
    BY <2>1, <2>4 DEF Layout, Covered, EndOf, End
  <2>6. CASE ~mem[b].is_free
    <3>1. b < x + HEADER_SIZE + size
      BY <2>1, <2>2, <2>4, <2>5 DEF HEADER_SIZE
    <3> QED BY <2>3, <2>5, <2>6, <3>1
  <2>7. CASE mem[b].is_free
    <3> DEFINE n == mem[b].next
    <3>1. mem[b].size < size
      BY <2>1, <2>2, <2>7 DEF Fits
    <3>2. End(b) < x + HEADER_SIZE + size
      BY <2>1, <2>2, <2>4, <2>5, <3>1 DEF End, HEADER_SIZE
    <3>3. n # NULL
      BY <2>1, <2>2, <2>4, <3>2 DEF HEADER_SIZE
    <3>4. n \in DOMAIN mem /\ n = End(b) /\ ~mem[n].is_free /\ n < End(n)
      BY <2>1, <2>2, <2>7, <3>3 DEF CoalescedBut
    <3> HIDE DEF n
    <3>5. n < x + HEADER_SIZE + size /\ x < End(n)
      BY <2>2, <2>4, <2>5, <3>2, <3>4
    <3> QED BY <2>3, <3>4, <3>5
  <2> QED BY <2>6, <2>7
<1> QED BY <1>1 DEF NullMeansFull

(***************************************************************************)
(* The walk of kmalloc reaches the end of the list only when every stretch *)
(* of the heap long enough for the block meets one that is held: a hole    *)
(* would start in a free block, which is too small, and so reach into its  *)
(* successor, which is not free.                                           *)
(***************************************************************************)
THEOREM RefusalIsJustified == Spec => []NullMeansFull
BY InvNullMeansFull, Invariance, PTL

-----------------------------------------------------------------------------
(* The free list implements the allocator of Allocator: every step of it is *)
(* a step the promise allows, or leaves arena, live and pending alone.      *)

(* The request under way, and what kmalloc made of it. *)
Pending ==
  /\ pc # "walk" => request = 0
  /\ pc = "walk" => request \in Requests \ {0} /\ size = ALIGN(request)

LEMMA InitPending == Init => Pending
BY DEF Init, Pending

LEMMA NextPending == Pending /\ [Next]_vars => Pending'
<1> SUFFICES ASSUME Pending, [Next]_vars PROVE Pending'  OBVIOUS
<1>1. ASSUME NEW total \in HeapSizes, heap_init(total) PROVE Pending'
  BY <1>1 DEF heap_init, Pending
<1>2. ASSUME NEW n \in Requests, kmalloc_enter(n) PROVE Pending'
  BY <1>2 DEF kmalloc_enter, Pending
<1>3. CASE kmalloc_next  BY <1>3 DEF kmalloc_next, Pending
<1>4. CASE kmalloc_take  BY <1>4 DEF kmalloc_take, kmalloc_return, Pending
<1>5. CASE kmalloc_null  BY <1>5 DEF kmalloc_null, kmalloc_return, Pending
<1>6. ASSUME NEW ptr \in DOMAIN owned, kfree(ptr) PROVE Pending'
  BY <1>6 DEF kfree, Pending
<1>7. CASE UNCHANGED vars  BY <1>7 DEF vars, Pending
<1> QED  BY <1>1, <1>2, <1>3, <1>4, <1>5, <1>6, <1>7 DEF Next

(* The refinement mapping, named. *)
Arena == IF free_list_head = NULL THEN {} ELSE free_list_head .. (heap_end - 1)

Live == [p \in DOMAIN owned |-> mem[p - HEADER_SIZE].size]

(* ALIGN is the rounding the promise speaks of. *)
LEMMA ALIGNRounds ==
  ASSUME NEW n \in Requests
  PROVE  Promise!RoundUp(n) = ALIGN(n)
<1>1. n \in Nat /\ n + ALIGNMENT <= SIZE_MOD /\ SIZE_MOD \in Nat
  BY HeapAssumption
<1>2. (n + (ALIGNMENT - 1)) % SIZE_MOD = n + ALIGNMENT - 1
  BY <1>1 DEF ALIGNMENT
<1> QED  BY <1>2 DEF Promise!RoundUp, ALIGN

LEMMA InitRefines == Init => Promise!AInit
BY DEF Init, Promise!AInit

(* heap_init hands over an arena, or none if there is no room. *)
LEMMA HeapInitOpens ==
  ASSUME IInv, Pending, NEW total \in HeapSizes, heap_init(total)
  PROVE  Promise!Open
<1>1. free_list_head = NULL /\ DOMAIN mem = {} /\ DOMAIN owned = {} /\ request = 0
  BY DEF heap_init, IInv, Walked, Pending
<1>2. owned' = owned /\ request' = request
  BY DEF heap_init
<1>3. Live = [p \in {} |-> 0] /\ Live' = [p \in {} |-> 0]
  BY <1>1, <1>2 DEF Live
<1> QED  BY <1>1, <1>2, <1>3 DEF Promise!Open, Live

LEMMA EnterCalls ==
  ASSUME IInv, Pending, NEW n \in Requests, kmalloc_enter(n)
  PROVE  Promise!Call
BY DEF kmalloc_enter, Pending, Promise!Call

(* What the callers hold is where the layout puts it. *)
LEMMA HeldBlocks ==
  ASSUME IInv, NEW p \in DOMAIN owned
  PROVE  /\ free_list_head # NULL /\ p \in Nat
         /\ p - HEADER_SIZE \in DOMAIN mem /\ p - HEADER_SIZE \in Nat
         /\ ~mem[p - HEADER_SIZE].is_free
         /\ mem[p - HEADER_SIZE].size \in Nat
         /\ Promise!Extent(p) = (p - HEADER_SIZE) .. (End(p - HEADER_SIZE) - 1)
<1>1. free_list_head # NULL /\ Held(mem, owned) /\ Layout(mem, free_list_head, heap_end)
  BY DEF IInv
<1> DEFINE b == p - HEADER_SIZE
<1>2. p \in Nat /\ b \in DOMAIN mem /\ ~mem[b].is_free
  BY <1>1 DEF Held
<1>3. b \in Nat /\ mem[b].size \in Nat
  BY <1>1, <1>2, NextIsBehind
<1>4. Promise!Extent(p) = b .. (p + mem[b].size - 1)
  BY DEF Promise!Extent
<1>5. p + mem[b].size - 1 = End(b) - 1
  BY <1>2, <1>3 DEF End, HEADER_SIZE
<1> QED  BY <1>1, <1>2, <1>3, <1>4, <1>5

(* The walk that ran off the list refuses a request no hole is left for. *)
LEMMA NullRefuses ==
  ASSUME IInv, Pending, kmalloc_null
  PROVE  Promise!Refuse
<1> DEFINE h == free_list_head
<1>1. /\ pc = "walk" /\ current = NULL /\ request' = 0 /\ size \in Nat
      /\ request \in Requests /\ request # 0 /\ size = ALIGN(request)
      /\ UNCHANGED <<free_list_head, mem, owned, heap_end>>
  BY DEF kmalloc_null, kmalloc_return, Pending, IInv, TypeOK
<1>2. Promise!RoundUp(request) = size
  BY <1>1, ALIGNRounds
<1>3. ASSUME NEW x \in Arena,
             Promise!IsHole(x .. (x + HEADER_SIZE + size - 1))
      PROVE  FALSE
  <2> DEFINE S == x .. (x + HEADER_SIZE + size - 1)
  <2>1. h # NULL /\ h \in Nat /\ heap_end \in Nat /\ x \in h .. (heap_end - 1) /\ x \in Nat
    BY <1>3 DEF Arena, IInv, TypeOK
  <2>2. S \subseteq h .. (heap_end - 1) /\ \A p \in DOMAIN owned : S \cap Promise!Extent(p) = {}
    BY <1>3, <2>1 DEF Promise!IsHole
  <2>3. x + HEADER_SIZE + size - 1 \in S
    BY <1>1, <2>1 DEF HEADER_SIZE
  <2>4. x \in h .. (heap_end - HEADER_SIZE - size)
    BY <1>1, <2>1, <2>2, <2>3 DEF HEADER_SIZE
  <2>5. PICK p \in DOMAIN owned : /\ p - HEADER_SIZE < x + HEADER_SIZE + size
                                 /\ x < End(p - HEADER_SIZE)
    BY <1>1, <2>1, <2>4, InvNullMeansFull DEF NullMeansFull
  <2> DEFINE b == p - HEADER_SIZE
  <2>6. /\ b \in Nat /\ mem[b].size \in Nat
        /\ Promise!Extent(p) = b .. (End(b) - 1)
    BY HeldBlocks
  <2>7. End(b) \in Nat /\ b < End(b)
    BY <2>6 DEF End, HEADER_SIZE
  <2> HIDE DEF b
  <2>8. CASE x <= b
    BY <1>1, <2>1, <2>2, <2>5, <2>6, <2>7, <2>8 DEF b, HEADER_SIZE
  <2>9. CASE b < x
    <3>1. x \in S /\ x \in Promise!Extent(p)
      BY <1>1, <2>1, <2>5, <2>6, <2>7, <2>9 DEF b, HEADER_SIZE
    <3> QED  BY <2>2, <3>1
  <2> QED  BY <2>1, <2>6, <2>8, <2>9
<1>4. \A x \in Arena : ~Promise!IsHole(x .. (x + HEADER_SIZE + Promise!RoundUp(request) - 1))
  BY <1>2, <1>3
<1> QED  BY <1>1, <1>4 DEF Promise!Refuse, Arena

(* A block that is not free keeps its header when free ones are joined. *)
Untouched(m, j) ==
  \A c \in DOMAIN m : ~m[c].is_free => /\ c \in DOMAIN j /\ ~j[c].is_free
                                       /\ j[c].size = m[c].size

LEMMA JoinUntouched ==
  ASSUME NEW m, NEW h, NEW e, Layout(m, h, e),
         NEW a \in DOMAIN m, NEW b \in DOMAIN m, m[a].next = b,
         m[a].is_free, m[b].is_free
  PROVE  Untouched(m, Join(m, a, b))
<1>1. Joined(m, a, b, Join(m, a, b))
  BY JoinLayout
<1> QED  BY <1>1 DEF Joined, Untouched

LEMMA CoalesceUntouched ==
  ASSUME NEW m, NEW h, NEW e, Layout(m, h, e), NEW b \in DOMAIN m, m[b].is_free
  PROVE  Untouched(m, CoalesceNext(m, b)) /\ Untouched(m, CoalescePrev(m, b))
<1>1. Untouched(m, m)
  BY DEF Untouched
<1>2. /\ m[b].next # NULL => m[b].next \in DOMAIN m
      /\ m[b].prev # NULL => m[b].prev \in DOMAIN m /\ m[m[b].prev].next = b
  BY DEF Layout, Linked
<1>3. Untouched(m, CoalesceNext(m, b))
  <2>1. CASE m[b].next # NULL /\ m[m[b].next].is_free
    BY <1>2, <2>1, JoinUntouched DEF CoalesceNext
  <2>2. CASE ~(m[b].next # NULL /\ m[m[b].next].is_free)
    BY <1>1, <2>2 DEF CoalesceNext
  <2> QED  BY <2>1, <2>2
<1>4. Untouched(m, CoalescePrev(m, b))
  <2>1. CASE m[b].prev # NULL /\ m[m[b].prev].is_free
    BY <1>2, <2>1, JoinUntouched DEF CoalescePrev
  <2>2. CASE ~(m[b].prev # NULL /\ m[m[b].prev].is_free)
    BY <1>1, <2>2 DEF CoalescePrev
  <2> QED  BY <2>1, <2>2
<1> QED  BY <1>3, <1>4

(* kfree changes the length of no other block that is held. *)
LEMMA FreedUntouched ==
  ASSUME NEW m, NEW h, NEW e, Layout(m, h, e), CoalescedBut(m, NULL),
         NEW o, Held(m, o), NEW ptr \in DOMAIN o,
         NEW q \in DOMAIN o, q # ptr
  PROVE  Freed(m, ptr - HEADER_SIZE)[q - HEADER_SIZE].size = m[q - HEADER_SIZE].size
<1> DEFINE b == ptr - HEADER_SIZE
           c == q - HEADER_SIZE
           g == [m EXCEPT ![b].is_free = TRUE]
           k == CoalesceNext(g, b)
<1>1. /\ b \in DOMAIN m /\ b + HEADER_SIZE = ptr
      /\ c \in DOMAIN m /\ c # b /\ ~m[c].is_free
  BY DEF Held, HEADER_SIZE
<1>2. /\ Layout(g, h, e) /\ b \in DOMAIN g /\ g[b].is_free
      /\ CoalescedBut(g, b) /\ Held(g, Drop(o, ptr))
  BY <1>1, MarkFree
<1>3. Flagged(m, b, TRUE, g)
  BY <1>1, FlagValue DEF Layout, Placed
<1>4. c \in DOMAIN g /\ ~g[c].is_free /\ g[c].size = m[c].size
  BY <1>1, <1>3 DEF Flagged
<1> HIDE DEF g
<1>5. Layout(k, h, e) /\ b \in DOMAIN k /\ k[b].is_free
  BY <1>2, NextAbsorbed
<1>6. Untouched(g, k)
  BY <1>2, CoalesceUntouched
<1>7. c \in DOMAIN k /\ ~k[c].is_free /\ k[c].size = m[c].size
  BY <1>4, <1>6 DEF Untouched
<1> HIDE DEF k
<1>8. Untouched(k, CoalescePrev(k, b))
  BY <1>5, CoalesceUntouched
<1>9. Freed(m, b) = CoalescePrev(k, b)
  BY DEF Freed, k, g
<1> QED  BY <1>7, <1>8, <1>9 DEF Untouched

LEMMA KfreeFrees ==
  ASSUME IInv, Pending, NEW ptr \in DOMAIN owned, kfree(ptr)
  PROVE  Promise!Free
<1>1. /\ pc = "idle" /\ mem' = Freed(mem, ptr - HEADER_SIZE) /\ owned' = Drop(owned, ptr)
      /\ request = 0 /\ UNCHANGED <<free_list_head, heap_end, request>>
  BY DEF kfree, Pending
<1>2. /\ Layout(mem, free_list_head, heap_end) /\ CoalescedBut(mem, NULL)
      /\ Held(mem, owned)
  BY HeldBlocks DEF IInv
<1>3. DOMAIN owned' = DOMAIN owned \ {ptr}
  BY <1>1 DEF Drop
<1>4. \A q \in DOMAIN owned \ {ptr} : mem'[q - HEADER_SIZE].size = mem[q - HEADER_SIZE].size
  BY <1>1, <1>2, FreedUntouched
<1>5. Live' = [q \in DOMAIN Live \ {ptr} |-> Live[q]] /\ ptr \in DOMAIN Live
  BY <1>3, <1>4 DEF Live
<1> QED  BY <1>1, <1>5 DEF Promise!Free, Live

(* kmalloc_take cuts no block but the one it takes, and that one no longer. *)
LEMMA TakeSizes ==
  ASSUME NEW m, NEW h, NEW e, Layout(m, h, e), NEW b \in DOMAIN m,
         NEW s \in Nat, s % ALIGNMENT = 0, m[b].size >= s,
         NEW w, w = IF m[b].size >= s + HEADER_SIZE + ALIGNMENT THEN Split(m, b, s) ELSE m
  PROVE  LET j == [w EXCEPT ![b].is_free = FALSE]
         IN  /\ b \in DOMAIN j /\ j[b].size \in Nat
             /\ s <= j[b].size /\ j[b].size <= m[b].size
             /\ \A c \in DOMAIN m \ {b} : j[c].size = m[c].size
             /\ m[b].size >= s + HEADER_SIZE + ALIGNMENT => w[b].size = s /\ j[b].size = s
             /\ j[b].size = w[b].size
<1> DEFINE j == [w EXCEPT ![b].is_free = FALSE]
           rest == b + HEADER_SIZE + s
<1>1. /\ m \in [DOMAIN m -> Header] /\ m[b].size \in Nat
      /\ b \in Nat
  BY NextIsBehind DEF Layout, Placed
<1>2. CASE m[b].size >= s + HEADER_SIZE + ALIGNMENT
  <2>1. SplitAt(m, b, s, rest, w)
    BY <1>2, SplitLayout
  <2>2. /\ w \in [DOMAIN w -> Header] /\ b \in DOMAIN w /\ w[b].size = s
        /\ \A c \in DOMAIN m \ {b} : c \in DOMAIN w /\ w[c].size = m[c].size
    BY <2>1 DEF SplitAt
  <2>3. Flagged(w, b, FALSE, j)
    BY <2>2, FlagValue
  <2>4. DOMAIN j = DOMAIN w /\ \A c \in DOMAIN w : j[c].size = w[c].size
    BY <2>3 DEF Flagged
  <2>5. s <= m[b].size
    BY <1>1, <1>2 DEF HEADER_SIZE, ALIGNMENT
  <2>6. \A c \in DOMAIN m \ {b} : j[c].size = m[c].size
    BY <2>2, <2>4
  <2> QED  BY <2>2, <2>4, <2>5, <2>6
<1>3. CASE ~(m[b].size >= s + HEADER_SIZE + ALIGNMENT)
  <2>1. w = m
    BY <1>3
  <2>2. Flagged(w, b, FALSE, j)
    BY <1>1, <2>1, FlagValue
  <2>3. DOMAIN j = DOMAIN m /\ \A c \in DOMAIN m : j[c].size = m[c].size
    BY <2>1, <2>2 DEF Flagged
  <2>4. b \in DOMAIN j /\ j[b].size = m[b].size
    BY <2>3, Zenon
  <2>5. /\ j[b].size \in Nat /\ s <= j[b].size /\ j[b].size <= m[b].size
        /\ \A c \in DOMAIN m \ {b} : j[c].size = m[c].size
    <3> HIDE DEF j
    <3> QED  BY <1>1, <2>3, <2>4
  <2> QED  BY <1>3, <2>4, <2>5, Zenon
<1> QED  BY <1>2, <1>3

-----------------------------------------------------------------------------
(* What a caller who frees nothing but what it took last can count on.      *)

(* If held blocks lie side by side from the start of the heap up to t, then *)
(* what is behind t is the only free block.                                 *)
LEMMA FrontierIsFree ==
  ASSUME IInv, free_list_head # NULL,
         NEW t \in Nat, free_list_head <= t, t < heap_end,
         \A p \in DOMAIN owned : End(p - HEADER_SIZE) <= t,
         \A x \in free_list_head .. (t - 1) :
           \E p \in DOMAIN owned : p - HEADER_SIZE <= x /\ x < End(p - HEADER_SIZE)
  PROVE  /\ t \in DOMAIN mem /\ mem[t].is_free /\ End(t) = heap_end
         /\ \A b \in DOMAIN mem : mem[b].is_free => b = t
<1> DEFINE h == free_list_head
<1>1. /\ Layout(mem, h, heap_end) /\ CoalescedBut(mem, NULL) /\ Held(mem, owned)
      /\ h \in Nat /\ heap_end \in Nat
  BY DEF IInv, TypeOK
<1>2. \A b \in DOMAIN mem : /\ b \in Nat \ {NULL} /\ mem[b].size \in Nat /\ b < End(b)
                           /\ End(b) \in Nat /\ h <= b /\ End(b) <= heap_end
  <2> TAKE b \in DOMAIN mem
  <2>1. b \in Nat \ {NULL} /\ mem[b].size \in Nat /\ h <= b /\ EndOf(mem, b) <= heap_end
    BY <1>1, NextIsBehind DEF Layout, Placed
  <2> QED  BY <2>1 DEF End, EndOf, HEADER_SIZE
<1>3. \A a, b \in DOMAIN mem : a < b => End(a) <= b
  BY <1>1 DEF Layout, Disjoint, End, EndOf
<1>4. ASSUME NEW b \in DOMAIN mem, ~mem[b].is_free PROVE End(b) <= t
  <2>1. b + HEADER_SIZE \in DOMAIN owned /\ (b + HEADER_SIZE) - HEADER_SIZE = b
    BY <1>1, <1>2, <1>4 DEF Held, HEADER_SIZE
  <2> QED  BY <2>1
<1>5. ASSUME NEW b \in DOMAIN mem, mem[b].is_free PROVE t <= b
  <2> SUFFICES ASSUME b < t PROVE FALSE
    BY <1>2
  <2>1. PICK p \in DOMAIN owned : p - HEADER_SIZE <= b /\ b < End(p - HEADER_SIZE)
    BY <1>1, <1>2
  <2> DEFINE c == p - HEADER_SIZE
  <2>2. c \in DOMAIN mem /\ ~mem[c].is_free
    BY <1>1 DEF Held
  <2>3. c # b
    BY <1>5, <2>2
  <2> HIDE DEF c
  <2>4. c < b
    BY <1>2, <2>1, <2>2, <2>3 DEF c
  <2> QED  BY <1>2, <1>3, <2>1, <2>2, <2>4 DEF c
<1>6. t \in DOMAIN mem /\ mem[t].is_free
  <2>1. PICK b \in DOMAIN mem : b <= t /\ t < End(b)
    BY <1>1 DEF Layout, Covered, End, EndOf
  <2>2. mem[b].is_free
    BY <1>2, <1>4, <2>1
  <2>3. b = t
    BY <1>2, <1>5, <2>1, <2>2
  <2> QED  BY <2>2, <2>3
<1>7. mem[t].next = NULL
  <2> SUFFICES ASSUME mem[t].next # NULL PROVE FALSE
    OBVIOUS
  <2> DEFINE n == mem[t].next
  <2>1. n \in DOMAIN mem /\ n = End(t)
    BY <1>1, <1>6 DEF Layout, Linked, End, EndOf
  <2>2. ~mem[n].is_free
    BY <1>1, <1>2, <1>6, <2>1 DEF CoalescedBut
  <2> HIDE DEF n
  <2>3. End(n) <= t /\ t < n /\ n < End(n)
    BY <1>2, <1>4, <1>6, <2>1, <2>2
  <2> QED  BY <1>2, <2>1, <2>3
<1>8. End(t) = heap_end
  BY <1>1, <1>6, <1>7 DEF Layout, Linked, End, EndOf
<1>9. ASSUME NEW b \in DOMAIN mem, mem[b].is_free PROVE b = t
  BY <1>2, <1>3, <1>5, <1>6, <1>8, <1>9
<1> QED  BY <1>6, <1>8, <1>9

(* A kmalloc that splits takes no more than it was asked for. *)
LEMMA SplitTakesSize ==
  ASSUME IInv, kmalloc_take, Splits(current)
  PROVE  /\ current \in DOMAIN mem /\ mem'[current].size = size
         /\ busy_mem_size' = busy_mem_size + size
         /\ current + HEADER_SIZE \notin DOMAIN owned
         /\ DOMAIN owned' = DOMAIN owned \cup {current + HEADER_SIZE}
         /\ \A p \in DOMAIN owned :
              mem'[p - HEADER_SIZE].size = mem[p - HEADER_SIZE].size
<1> DEFINE w == Split(mem, current, size)
<1>1. /\ pc = "walk" /\ current # NULL /\ mem[current].is_free
      /\ mem[current].size >= size /\ size \in Nat
      /\ mem[current].size >= size + HEADER_SIZE + ALIGNMENT
      /\ mem' = [w EXCEPT ![current].is_free = FALSE]
      /\ busy_mem_size' = busy_mem_size + w[current].size
      /\ owned' = Add(owned, current + HEADER_SIZE, request)
  BY DEF kmalloc_take, Splits, Fits, IInv, TypeOK
<1> HIDE DEF w
<1>2. /\ current \in DOMAIN mem /\ size % ALIGNMENT = 0
      /\ DOMAIN mem \subseteq Nat /\ DOMAIN owned \subseteq Nat
  BY <1>1 DEF IInv, Walked, TypeOK
<1>3. Layout(mem, free_list_head, heap_end) /\ Held(mem, owned)
  BY <1>2 DEF IInv
<1>4. w = IF mem[current].size >= size + HEADER_SIZE + ALIGNMENT
          THEN Split(mem, current, size) ELSE mem
  BY <1>1 DEF w
<1>5. /\ w[current].size = size /\ mem'[current].size = size
      /\ \A c \in DOMAIN mem \ {current} : mem'[c].size = mem[c].size
  BY <1>1, <1>2, <1>3, <1>4, TakeSizes
<1>6. \A p \in DOMAIN owned : p - HEADER_SIZE \in DOMAIN mem \ {current}
  BY <1>1, <1>3 DEF Held
<1>7. current + HEADER_SIZE \notin DOMAIN owned
  <2>1. (current + HEADER_SIZE) - HEADER_SIZE = current
    BY <1>2 DEF HEADER_SIZE
  <2> QED  BY <1>6, <2>1
<1> QED  BY <1>1, <1>2, <1>5, <1>6, <1>7 DEF Add

(* kfree gives back a block as it was taken, and touches no other. *)
LEMMA KfreeGivesBack ==
  ASSUME IInv, NEW ptr \in DOMAIN owned, kfree(ptr)
  PROVE  /\ busy_mem_size' = busy_mem_size - mem[ptr - HEADER_SIZE].size
         /\ DOMAIN owned' = DOMAIN owned \ {ptr}
         /\ \A p \in DOMAIN owned \ {ptr} :
              mem'[p - HEADER_SIZE].size = mem[p - HEADER_SIZE].size
<1>1. /\ busy_mem_size' = busy_mem_size - mem[ptr - HEADER_SIZE].size
      /\ mem' = Freed(mem, ptr - HEADER_SIZE) /\ owned' = Drop(owned, ptr)
  BY DEF kfree
<1>2. /\ Layout(mem, free_list_head, heap_end) /\ CoalescedBut(mem, NULL)
      /\ Held(mem, owned)
  BY HeldBlocks DEF IInv
<1> QED  BY <1>1, <1>2, FreedUntouched DEF Drop

-----------------------------------------------------------------------------
(* The block taken was in a hole: free, and in no held block's memory. *)
LEMMA TakeGrants ==
  ASSUME IInv, Pending, kmalloc_take
  PROVE  Promise!Grant
<1> DEFINE h == free_list_head
           b == current
           p == current + HEADER_SIZE
<1>1. /\ pc = "walk" /\ b # NULL /\ Fits(b) /\ request' = 0 /\ request # 0
      /\ owned' = Add(owned, p, request)
      /\ UNCHANGED <<free_list_head, heap_end>>
      /\ mem' = [IF Splits(b) THEN Split(mem, b, size) ELSE mem EXCEPT ![b].is_free = FALSE]
  BY DEF kmalloc_take, kmalloc_return, Pending
<1>2. /\ size \in Nat /\ size % ALIGNMENT = 0 /\ request <= size /\ request \in Nat
      /\ b \in DOMAIN mem /\ h # NULL
      /\ Layout(mem, h, heap_end) /\ Held(mem, owned)
      /\ mem[b].is_free /\ mem[b].size >= size
  BY <1>1 DEF IInv, Walked, TypeOK, Fits
<1>3. /\ b \in Nat /\ mem[b].size \in Nat /\ h \in Nat /\ heap_end \in Nat
      /\ h <= b /\ End(b) <= heap_end
      /\ \A c \in DOMAIN mem : /\ c \in Nat /\ mem[c].size \in Nat
                               /\ c < b => End(c) <= b
                               /\ b < c => End(b) <= c
  BY <1>2, NextIsBehind DEF Layout, Placed, Disjoint, EndOf, End
<1>4. /\ mem'[b].size \in Nat
      /\ size <= mem'[b].size /\ mem'[b].size <= mem[b].size
      /\ \A c \in DOMAIN mem \ {b} : mem'[c].size = mem[c].size
  BY <1>1, <1>2, TakeSizes DEF Splits
<1>5. p - HEADER_SIZE = b /\ p \in Nat
  BY <1>3 DEF HEADER_SIZE
<1>6. p \notin DOMAIN owned
  BY <1>2, <1>5 DEF Held
<1>7. DOMAIN owned' = DOMAIN owned \cup {p}
  BY <1>1 DEF Add
<1>8. /\ DOMAIN Live = DOMAIN owned /\ DOMAIN Live' = DOMAIN owned \cup {p}
      /\ Live'[p] = mem'[b].size
  BY <1>5, <1>7 DEF Live
<1>9. \A q \in DOMAIN owned : Live'[q] = Live[q]
  <2>1. ASSUME NEW q \in DOMAIN owned PROVE Live'[q] = Live[q]
    <3>1. q - HEADER_SIZE \in DOMAIN mem /\ q - HEADER_SIZE # b
      BY <1>2 DEF Held
    <3> QED  BY <1>4, <1>7, <3>1 DEF Live
  <2> QED  BY <2>1
<1>10. Live' = [q \in DOMAIN Live \cup {p} |-> IF q = p THEN Live'[p] ELSE Live[q]]
  <2>1. Live' = [q \in DOMAIN Live' |-> Live'[q]]
    BY DEF Live
  <2> QED  BY <1>6, <1>8, <1>9, <2>1
<1> DEFINE S == (p - HEADER_SIZE) .. (p + Live'[p] - 1)
<1>11. Promise!IsHole(S)
  <2>1. p + Live'[p] - 1 <= End(b) - 1 /\ p + Live'[p] - 1 \in Int
    BY <1>3, <1>4, <1>8 DEF End, HEADER_SIZE
  <2>2. S \subseteq b .. (End(b) - 1)
    BY <1>3, <1>5, <2>1 DEF End, HEADER_SIZE
  <2>3. b .. (End(b) - 1) \subseteq h .. (heap_end - 1)
    BY <1>3 DEF End, HEADER_SIZE
  <2>4. ASSUME NEW q \in DOMAIN owned
        PROVE  S \cap Promise!Extent(q) = {}
    <3> DEFINE c == q - HEADER_SIZE
    <3>1. /\ c \in DOMAIN mem /\ c \in Nat /\ ~mem[c].is_free
          /\ Promise!Extent(q) = c .. (End(c) - 1)
      BY HeldBlocks
    <3>2. c # b /\ mem[c].size \in Nat
      BY <1>2, <1>3, <3>1
    <3> HIDE DEF c
    <3>3. End(c) <= b \/ End(b) <= c
      BY <1>3, <3>1, <3>2
    <3>4. End(c) \in Nat /\ End(b) \in Nat
      <4>1. End(c) \in Nat
        BY <3>1, <3>2 DEF End, HEADER_SIZE
      <4>2. End(b) \in Nat
        BY <1>3 DEF End, HEADER_SIZE
      <4> QED  BY <4>1, <4>2
    <3> HIDE DEF S
    <3>5. (b .. (End(b) - 1)) \cap (c .. (End(c) - 1)) = {}
      <4>1. \A x1, x2, y1, y2 \in Int :
              x2 <= y1 \/ y2 <= x1 => (x1 .. (x2 - 1)) \cap (y1 .. (y2 - 1)) = {}
        OBVIOUS
      <4>2. b \in Int /\ c \in Int /\ End(b) \in Int /\ End(c) \in Int
        BY <1>3, <3>1, <3>4
      <4> QED  BY <3>3, <4>1, <4>2
    <3> QED  BY <2>2, <3>1, <3>5, Zenon
  <2> QED  BY <1>2, <2>2, <2>3, <2>4 DEF Promise!IsHole, Arena
<1>12. Live'[p] >= request
  BY <1>2, <1>4, <1>8
<1> QED
  <2>1. p \in DOMAIN Live' \ DOMAIN Live
    BY <1>6, <1>8
  <2>2. Arena' = Arena
    BY <1>1 DEF Arena
  <2> HIDE DEF p
  <2> QED  BY <1>1, <1>10, <1>11, <1>12, <2>1, <2>2 DEF Promise!Grant, Live, Arena

(* One step of the walk is not visible. *)
LEMMA NextStutters == kmalloc_next => UNCHANGED Promise!avars
BY DEF kmalloc_next, Promise!avars

LEMMA StepRefines == IInv /\ Pending /\ [Next]_vars => [Promise!ANext]_(Promise!avars)
<1> SUFFICES ASSUME IInv, Pending, [Next]_vars
             PROVE  Promise!ANext \/ UNCHANGED Promise!avars
  OBVIOUS
<1>1. ASSUME NEW total \in HeapSizes, heap_init(total) PROVE Promise!ANext
  BY <1>1, HeapInitOpens DEF Promise!ANext
<1>2. ASSUME NEW n \in Requests, kmalloc_enter(n) PROVE Promise!ANext
  BY <1>2, EnterCalls DEF Promise!ANext
<1>3. CASE kmalloc_next  BY <1>3, NextStutters
<1>4. CASE kmalloc_take  BY <1>4, TakeGrants DEF Promise!ANext
<1>5. CASE kmalloc_null  BY <1>5, NullRefuses DEF Promise!ANext
<1>6. ASSUME NEW ptr \in DOMAIN owned, kfree(ptr) PROVE Promise!ANext
  BY <1>6, KfreeFrees DEF Promise!ANext
<1>7. CASE UNCHANGED vars  BY <1>7 DEF vars, Promise!avars
<1> QED  BY <1>1, <1>2, <1>3, <1>4, <1>5, <1>6, <1>7 DEF Next

(***************************************************************************)
(* heap_init, kmalloc and kfree keep the promise of Allocator: a pointer   *)
(* that is granted leads to memory of the arena that nobody holds, and a   *)
(* request is refused only when no such memory is left.                    *)
(***************************************************************************)
THEOREM MallocImplementsAllocator == Spec => ImplementsAllocator
<1>1. Spec => []Pending
  BY InitPending, NextPending, PTL DEF Spec
<1> QED  BY <1>1, InitRefines, StepRefines, Invariance, PTL
         DEF Spec, ImplementsAllocator, Promise!ASpec

-----------------------------------------------------------------------------
(* Sums over the blocks that callers hold.  The sum of BusyIsExact is a fold *)
(* over a set; what it is has to be shown by induction on that set.          *)

Room(m, p) == m[p - HEADER_SIZE].size
One(s) == CHOOSE x \in s : TRUE
Rule(m, g, s) == IF s = {} THEN 0 ELSE Room(m, One(s)) + g[s \ {One(s)}]
Sums(m, S, g) == g = [s \in SUBSET S |-> Rule(m, g, s)]
Busy(m, S) == MapThenSumSet(LAMBDA p : m[p - HEADER_SIZE].size, S)

(* The sum over S, in these terms. *)
LEMMA BusyValue ==
  ASSUME NEW m, NEW S
  PROVE  Busy(m, S) = (CHOOSE g : Sums(m, S, g))[S]
BY Zenon DEF Busy, MapThenSumSet, MapThenFoldSet, Sums, Rule, One, Room

Balanced == busy_mem_size = Busy(mem, DOMAIN owned)

(* Balanced is the property, with the sum under a name. *)
LEMMA BalancedIsExact == Balanced <=> BusyIsExact
BY Zenon DEF Balanced, BusyIsExact, Busy

(* Of any subsets of a finite set, one has none of the others in it. *)
LEMMA Smallest ==
  ASSUME NEW S, IsFiniteSet(S), NEW T \in SUBSET SUBSET S, T # {}
  PROVE  \E s \in T : \A t \in T : t \subseteq s => t = s
<1>1. IsWellFoundedOn(StrictSubsetOrdering(S), SUBSET S)
  BY FS_StrictSubsetOrderingWellFounded, FS_FiniteSubsetsOfFinite
<1>2. PICK s \in T : \A t \in T : ~(<<t, s>> \in StrictSubsetOrdering(S))
  BY <1>1, WFMin
<1>3. \A t \in T : t \subseteq s => t = s
  BY <1>2 DEF StrictSubsetOrdering
<1> QED  BY <1>2, <1>3

(* The sums exist: built up from the sets of n elements to those of n + 1. *)
Upto(m, S, g, n) ==
  /\ g \in [SUBSET S -> Nat]
  /\ \A s \in SUBSET S : Cardinality(s) <= n => g[s] = Rule(m, g, s)

(* CHOOSE takes one of the elements. *)
LEMMA Chosen == ASSUME NEW s, s # {} PROVE One(s) \in s
BY Zenon DEF One

LEMMA UptoZero ==
  ASSUME NEW m, NEW S, IsFiniteSet(S)
  PROVE  \E g : Upto(m, S, g, 0)
<1> DEFINE g == [s \in SUBSET S |-> 0]
<1>1. ASSUME NEW s \in SUBSET S, Cardinality(s) <= 0 PROVE g[s] = Rule(m, g, s)
  <2>1. IsFiniteSet(s) /\ Cardinality(s) \in Nat
    BY FS_Subset, FS_CardinalityType
  <2>2. s = {}
    BY <1>1, <2>1, FS_EmptySet
  <2> QED  BY <2>2 DEF Rule
<1>2. g \in [SUBSET S -> Nat]
  OBVIOUS
<1> QED  BY <1>1, <1>2 DEF Upto

LEMMA UptoNext ==
  ASSUME NEW m, NEW S, IsFiniteSet(S), \A p \in S : Room(m, p) \in Nat,
         NEW n \in Nat, NEW g, Upto(m, S, g, n)
  PROVE  \E j : Upto(m, S, j, n + 1)
<1> DEFINE j == [s \in SUBSET S |-> IF Cardinality(s) = n + 1 THEN Rule(m, g, s) ELSE g[s]]
<1>1. g \in [SUBSET S -> Nat]
  BY DEF Upto
<1>2. ASSUME NEW s \in SUBSET S
      PROVE  /\ Cardinality(s) \in Nat
             /\ s # {} => /\ One(s) \in s /\ s \ {One(s)} \in SUBSET S
                         /\ Cardinality(s \ {One(s)}) = Cardinality(s) - 1
  <2>1. IsFiniteSet(s) /\ Cardinality(s) \in Nat
    BY FS_Subset, FS_CardinalityType
  <2> QED  BY <2>1, Chosen, FS_RemoveElement
<1>3. ASSUME NEW s \in SUBSET S PROVE Rule(m, g, s) \in Nat
  <2>1. CASE s = {}  BY <2>1 DEF Rule
  <2>2. CASE s # {}
    <3>1. Room(m, One(s)) \in Nat /\ g[s \ {One(s)}] \in Nat
      BY <1>1, <1>2, <2>2
    <3> QED  BY <2>2, <3>1 DEF Rule
  <2> QED  BY <2>1, <2>2
<1>4. j \in [SUBSET S -> Nat]
  BY <1>1, <1>3
<1>5. ASSUME NEW s \in SUBSET S, Cardinality(s) <= n + 1 PROVE j[s] = Rule(m, j, s)
  <2>1. Rule(m, j, s) = Rule(m, g, s)
    <3>1. CASE s = {}  BY <3>1 DEF Rule
    <3>2. CASE s # {}
      <4>1. Cardinality(s \ {One(s)}) # n + 1 /\ s \ {One(s)} \in SUBSET S
        BY <1>2, <1>5, <3>2
      <4>2. j[s \ {One(s)}] = g[s \ {One(s)}]
        BY <4>1
      <4> QED  BY <3>2, <4>2 DEF Rule
    <3> QED  BY <3>1, <3>2
  <2>2. CASE Cardinality(s) = n + 1
    BY <2>1, <2>2
  <2>3. CASE Cardinality(s) # n + 1
    <3>1. Cardinality(s) <= n
      <4>1. Cardinality(s) \in Nat
        BY <1>2
      <4> HIDE DEF j
      <4> QED  BY <1>5, <2>3, <4>1
    <3>2. g[s] = Rule(m, g, s)
      BY <3>1 DEF Upto
    <3> QED  BY <2>1, <2>3, <3>2
  <2> QED  BY <2>2, <2>3
<1> HIDE DEF j
<1> QED  BY <1>4, <1>5 DEF Upto

(* Least number principle. *)
LEMMA LeastNumber ==
  ASSUME NEW T \in SUBSET Nat, T # {}
  PROVE  \E n \in T : \A k \in T : n <= k
<1>1. PICK z \in T : TRUE
  OBVIOUS
<1> DEFINE V(k) == 0 .. k
           W == {V(k) : k \in {k \in T : k <= z}}
<1>2. IsFiniteSet(0 .. z)
  BY FS_Interval
<1>3. W \in SUBSET SUBSET (0 .. z) /\ W # {}
  <2>1. V(z) \in W
    OBVIOUS
  <2> QED  BY <2>1
<1>4. PICK s \in W : \A t \in W : t \subseteq s => t = s
  <2> DEFINE N == 0 .. z
  <2>1. IsFiniteSet(N) /\ W \in SUBSET SUBSET N /\ W # {}
    BY <1>2, <1>3
  <2> HIDE DEF N, W
  <2> QED  BY <2>1, Smallest
<1>5. PICK n \in T : n <= z /\ s = V(n)
  OBVIOUS
<1>6. ASSUME NEW k \in T, k < n PROVE FALSE
  <2>1. n \in Nat /\ k \in Nat /\ z \in Nat /\ k <= z
    BY <1>5, <1>6
  <2>2. V(k) \in W /\ V(k) \subseteq s
    BY <1>5, <1>6, <2>1
  <2>3. n \in V(n) /\ n \notin V(k)
    BY <1>6, <2>1
  <2> HIDE DEF V, W
  <2> QED  BY <1>4, <1>5, <2>2, <2>3
<1> QED  BY <1>6

(* By induction over the number of elements: there is no least one without. *)
LEMMA SumsExist ==
  ASSUME NEW m, NEW S, IsFiniteSet(S), \A p \in S : Room(m, p) \in Nat
  PROVE  \E g : Sums(m, S, g) /\ g \in [SUBSET S -> Nat]
<1>1. \A n \in Nat : \E g : Upto(m, S, g, n)
  <2> SUFFICES ASSUME NEW c \in Nat, ~\E g : Upto(m, S, g, c) PROVE FALSE
    OBVIOUS
  <2> DEFINE T == {n \in Nat : ~\E g : Upto(m, S, g, n)}
  <2>1. PICK n \in T : \A k \in T : n <= k
    <3>1. T \in SUBSET Nat /\ c \in T
      OBVIOUS
    <3> HIDE DEF T
    <3> QED  BY <3>1, LeastNumber
  <2>2. n # 0
    BY UptoZero
  <2>3. n - 1 \in Nat /\ n - 1 \notin T
    BY <2>1, <2>2
  <2>4. PICK g : Upto(m, S, g, n - 1)
    BY <2>3
  <2>5. \E j : Upto(m, S, j, (n - 1) + 1)
    BY <2>3, <2>4, UptoNext
  <2>6. (n - 1) + 1 = n
    BY <2>1
  <2> QED  BY <2>1, <2>5, <2>6
<1>2. PICK g : Upto(m, S, g, Cardinality(S))
  BY <1>1, FS_CardinalityType
<1>3. ASSUME NEW s \in SUBSET S PROVE g[s] = Rule(m, g, s)
  BY <1>2, FS_Subset DEF Upto
<1>4. g \in [SUBSET S -> Nat]
  BY <1>2 DEF Upto
<1>5. g = [s \in SUBSET S |-> Rule(m, g, s)]
  BY <1>3, <1>4
<1> QED  BY <1>4, <1>5 DEF Sums

(* The sum of a set is the chosen one, and every part of it satisfies the rule. *)
LEMMA SumsAgree ==
  ASSUME NEW m, NEW S, IsFiniteSet(S), NEW g, Sums(m, S, g),
         NEW S2, S2 \in SUBSET S, NEW g2, Sums(m, S2, g2)
  PROVE  \A s \in SUBSET S2 : g[s] = g2[s]
<1> DEFINE T == {s \in SUBSET S2 : g[s] # g2[s]}
<1> SUFFICES ASSUME T # {} PROVE FALSE
  OBVIOUS
<1>1. IsFiniteSet(S2)
  BY FS_Subset
<1>2. T \in SUBSET SUBSET S2
  OBVIOUS
<1> HIDE DEF T
<1>3. PICK s \in T : \A t \in T : t \subseteq s => t = s
  BY <1>1, <1>2, Smallest
<1>4. s \in SUBSET S2 /\ s \in SUBSET S /\ g[s] # g2[s]
  BY <1>3 DEF T
<1>5. g[s] = Rule(m, g, s) /\ g2[s] = Rule(m, g2, s)
  BY <1>4 DEF Sums
<1>6. s # {}
  BY <1>4, <1>5 DEF Rule
<1> DEFINE r == s \ {One(s)}
<1>7. r \in SUBSET S2 /\ r \subseteq s /\ r # s
  BY <1>4, <1>6, Chosen
<1>8. g[r] = g2[r]
  BY <1>3, <1>7 DEF T
<1> QED  BY <1>4, <1>5, <1>6, <1>8 DEF Rule

(* Any element may be taken out first. *)
AnyFirst(m, S, g) == \A s \in SUBSET S : \A x \in s : g[s] = Room(m, x) + g[s \ {x}]

(* By induction over the set: there is no smallest one for which it fails. *)
LEMMA SumsAnyFirst ==
  ASSUME NEW m, NEW S, IsFiniteSet(S), \A p \in S : Room(m, p) \in Nat,
         NEW g, g \in [SUBSET S -> Nat], Sums(m, S, g)
  PROVE  AnyFirst(m, S, g)
<1> DEFINE Bad(s) == \E x \in s : g[s] # Room(m, x) + g[s \ {x}]
           T == {s \in SUBSET S : Bad(s)}
<1> SUFFICES ASSUME T # {} PROVE FALSE
  BY DEF AnyFirst
<1>1. T \in SUBSET SUBSET S
  OBVIOUS
<1> HIDE DEF T
<1>2. PICK s \in T : \A t \in T : t \subseteq s => t = s
  BY <1>1, Smallest
<1>3. s \in SUBSET S /\ Bad(s)
  BY <1>2 DEF T
<1>4. PICK x \in s : g[s] # Room(m, x) + g[s \ {x}]
  BY <1>3
<1>5. ASSUME NEW r \in SUBSET s, r # s, NEW y \in r
      PROVE  g[r] = Room(m, y) + g[r \ {y}]
  BY <1>2, <1>3, <1>5 DEF T
<1> DEFINE c == One(s)
<1>6. c \in s /\ g[s] = Room(m, c) + g[s \ {c}]
  BY <1>3, <1>4, Chosen DEF Sums, Rule
<1> HIDE DEF c
<1>7. c # x
  BY <1>4, <1>6
<1>8. g[s \ {c}] = Room(m, x) + g[(s \ {c}) \ {x}]
  BY <1>4, <1>5, <1>6, <1>7
<1>9. g[s \ {x}] = Room(m, c) + g[(s \ {x}) \ {c}]
  BY <1>4, <1>5, <1>6, <1>7
<1>10. (s \ {c}) \ {x} = (s \ {x}) \ {c} /\ (s \ {x}) \ {c} \in SUBSET S
  BY <1>3
<1> DEFINE q == g[(s \ {x}) \ {c}]
<1>11. q \in Nat /\ Room(m, c) \in Nat /\ Room(m, x) \in Nat
  BY <1>3, <1>4, <1>6, <1>10
<1>12. g[s] = Room(m, c) + (Room(m, x) + q) /\ g[s \ {x}] = Room(m, c) + q
  BY <1>6, <1>8, <1>9, <1>10
<1> HIDE DEF q
<1> QED  BY <1>4, <1>11, <1>12

(* What get_busy_mem_size should say of the blocks S is a number, and one *)
(* block more or less changes it by that block's length.                  *)
LEMMA BusySums ==
  ASSUME NEW m, NEW S, IsFiniteSet(S), \A p \in S : Room(m, p) \in Nat
  PROVE  \E g \in [SUBSET S -> Nat] : Sums(m, S, g) /\ Busy(m, S) = g[S]
<1>1. \E g : Sums(m, S, g)
  BY SumsExist
<1> DEFINE g == CHOOSE h : Sums(m, S, h)
<1>2. Sums(m, S, g)
  BY <1>1, Zenon
<1>3. Busy(m, S) = g[S]
  BY BusyValue
<1> HIDE DEF g
<1>4. PICK h : Sums(m, S, h) /\ h \in [SUBSET S -> Nat]
  BY SumsExist
<1>5. \A s \in SUBSET S : h[s] = g[s]
  BY <1>2, <1>4, SumsAgree
<1>6. g \in [SUBSET S -> Nat]
  <2>1. DOMAIN g = SUBSET S /\ g = [s \in SUBSET S |-> g[s]]
    BY <1>2 DEF Sums
  <2> QED  BY <1>4, <1>5, <2>1
<1> QED  BY <1>2, <1>3, <1>6

(* One block more. *)
LEMMA BusyOneMore ==
  ASSUME NEW m, NEW S, IsFiniteSet(S), \A p \in S : Room(m, p) \in Nat, NEW x \in S
  PROVE  /\ Busy(m, S) = Room(m, x) + Busy(m, S \ {x})
         /\ Busy(m, S \ {x}) \in Nat
<1>1. PICK g \in [SUBSET S -> Nat] : Sums(m, S, g) /\ Busy(m, S) = g[S]
  BY BusySums
<1>6. AnyFirst(m, S, g)
  BY <1>1, SumsAnyFirst
<1> DEFINE R == S \ {x}
<1>2. R \in SUBSET S /\ IsFiniteSet(R) /\ \A p \in R : Room(m, p) \in Nat
  BY FS_RemoveElement
<1> HIDE DEF R
<1>3. PICK h \in [SUBSET R -> Nat] : Sums(m, R, h) /\ Busy(m, R) = h[R]
  BY <1>2, BusySums
<1>4. h[R] = g[R] /\ h[R] \in Nat
  BY <1>1, <1>2, <1>3, SumsAgree
<1>5. g[S] = Room(m, x) + g[R]
  BY <1>6 DEF R, AnyFirst
<1> QED  BY <1>1, <1>3, <1>4, <1>5 DEF R

(* No blocks. *)
LEMMA BusyOfNone == ASSUME NEW m PROVE Busy(m, {}) = 0
<1>1. PICK g \in [SUBSET {} -> Nat] : Sums(m, {}, g) /\ Busy(m, {}) = g[{}]
  BY BusySums, FS_EmptySet
<1> QED  BY <1>1 DEF Sums, Rule

(* Only the lengths of the blocks in S count. *)
LEMMA BusySame ==
  ASSUME NEW m, NEW j, NEW S, \A p \in S : Room(m, p) = Room(j, p)
  PROVE  Busy(m, S) = Busy(j, S)
<1>1. \A g : [s \in SUBSET S |-> Rule(m, g, s)] = [s \in SUBSET S |-> Rule(j, g, s)]
  <2> SUFFICES ASSUME NEW g, NEW s \in SUBSET S PROVE Rule(m, g, s) = Rule(j, g, s)
    BY Zenon
  <2> QED  BY Chosen DEF Rule
<1>2. \A g : Sums(m, S, g) <=> Sums(j, S, g)
  BY <1>1 DEF Sums
<1>3. (CHOOSE g : Sums(m, S, g)) = (CHOOSE g : Sums(j, S, g))
  BY <1>2, Zenon
<1> QED  BY <1>3, BusyValue

-----------------------------------------------------------------------------
(* The pointers callers hold are finitely many, to blocks with a length. *)
Counted == IsFiniteSet(DOMAIN owned) /\ \A p \in DOMAIN owned : Room(mem, p) \in Nat

(* The heap has room for finitely many pointers. *)
LEMMA OwnedFinite == IInv => Counted
<1> SUFFICES ASSUME IInv PROVE Counted
  OBVIOUS
<1>1. \A p \in DOMAIN owned : p \in Nat /\ Room(mem, p) \in Nat
  BY HeldBlocks DEF Room
<1>2. \A p \in DOMAIN owned : owned[p] \in Nat /\ p + owned[p] <= heap_end
  BY InvUsable DEF OwnedIsUsable, IInv, TypeOK
<1>3. heap_end \in Nat /\ \A p \in DOMAIN owned : p <= heap_end
  BY <1>1, <1>2 DEF IInv, TypeOK
<1>4. DOMAIN owned \in SUBSET Nat
  BY <1>1
<1>5. IsFiniteSet(DOMAIN owned)
  BY <1>3, <1>4, FS_BoundedSetOfNaturals
<1> QED  BY <1>1, <1>5 DEF Counted

(* kmalloc hands out one block more, counts its length, and cuts no other. *)
LEMMA TakeCounts ==
  ASSUME IInv, kmalloc_take
  PROVE  \E p : /\ p \notin DOMAIN owned /\ DOMAIN owned' = DOMAIN owned \cup {p}
               /\ busy_mem_size' = busy_mem_size + Room(mem', p)
               /\ \A q \in DOMAIN owned : Room(mem', q) = Room(mem, q)
<1> DEFINE w == IF Splits(current) THEN Split(mem, current, size) ELSE mem
           p == current + HEADER_SIZE
<1>1. /\ pc = "walk" /\ current # NULL /\ mem[current].is_free
      /\ mem[current].size >= size /\ size \in Nat
      /\ mem' = [w EXCEPT ![current].is_free = FALSE]
      /\ busy_mem_size' = busy_mem_size + w[current].size
      /\ owned' = Add(owned, p, request)
  BY DEF kmalloc_take, Fits, IInv, TypeOK
<1>2. w = IF mem[current].size >= size + HEADER_SIZE + ALIGNMENT
          THEN Split(mem, current, size) ELSE mem
  BY DEF Splits
<1> HIDE DEF w
<1>3. /\ current \in DOMAIN mem /\ size % ALIGNMENT = 0 /\ current \in Nat
  BY <1>1 DEF IInv, Walked, TypeOK
<1>4. Layout(mem, free_list_head, heap_end) /\ Held(mem, owned)
  BY <1>3 DEF IInv
<1>5. /\ mem'[current].size = w[current].size
      /\ \A c \in DOMAIN mem \ {current} : mem'[c].size = mem[c].size
  BY <1>1, <1>2, <1>3, <1>4, TakeSizes
<1>6. p - HEADER_SIZE = current
  BY <1>3 DEF HEADER_SIZE
<1>7. \A q \in DOMAIN owned : q - HEADER_SIZE \in DOMAIN mem \ {current}
  BY <1>1, <1>4 DEF Held
<1>8. p \notin DOMAIN owned
  BY <1>6, <1>7
<1>9. DOMAIN owned' = DOMAIN owned \cup {p}
  BY <1>1 DEF Add
<1>10. busy_mem_size' = busy_mem_size + Room(mem', p)
  BY <1>1, <1>5, <1>6 DEF Room
<1>11. \A q \in DOMAIN owned : Room(mem', q) = Room(mem, q)
  BY <1>5, <1>7 DEF Room
<1> HIDE DEF p
<1> QED  BY <1>8, <1>9, <1>10, <1>11

(* kmalloc adds what it hands out. *)
LEMMA TakeKeepsCount ==
  ASSUME IInv, IInv', Balanced, kmalloc_take
  PROVE  busy_mem_size' = Busy(mem', DOMAIN owned')
<1>1. PICK p : /\ p \notin DOMAIN owned /\ DOMAIN owned' = DOMAIN owned \cup {p}
               /\ busy_mem_size' = busy_mem_size + Room(mem', p)
               /\ \A q \in DOMAIN owned : Room(mem', q) = Room(mem, q)
  BY TakeCounts
<1>2. PICK j, O, S : j = mem' /\ O = DOMAIN owned' /\ S = DOMAIN owned
  OBVIOUS
<1>3. IsFiniteSet(O) /\ \A q \in O : Room(j, q) \in Nat
  <2>1. Counted'
    BY OwnedFinite, PTL
  <2> QED  BY <1>2, <2>1 DEF Counted, Room
<1>4. p \in O /\ S = O \ {p}
  BY <1>1, <1>2
<1>5. Busy(j, O) = Room(j, p) + Busy(j, O \ {p}) /\ Busy(j, O \ {p}) \in Nat
  BY <1>3, <1>4, BusyOneMore
<1>6. Busy(j, S) = Busy(mem, S)
  BY <1>1, <1>2, BusySame
<1>7. busy_mem_size = Busy(mem, S)
  BY <1>2 DEF Balanced
<1>8. Room(j, p) \in Nat
  BY <1>3, <1>4
<1>9. busy_mem_size' = busy_mem_size + Room(j, p)
  BY <1>1, <1>2
<1>10. busy_mem_size' = Busy(j, O)
  BY <1>4, <1>5, <1>6, <1>7, <1>8, <1>9
<1> QED  BY <1>2, <1>10

(* kfree subtracts what it takes back, before it joins blocks. *)
LEMMA KfreeKeepsCount ==
  ASSUME IInv, Balanced, NEW ptr \in DOMAIN owned, kfree(ptr)
  PROVE  busy_mem_size' = Busy(mem', DOMAIN owned')
<1>1. /\ busy_mem_size' = busy_mem_size - Room(mem, ptr)
      /\ DOMAIN owned' = DOMAIN owned \ {ptr}
      /\ \A p \in DOMAIN owned \ {ptr} : Room(mem', p) = Room(mem, p)
  BY KfreeGivesBack DEF Room
<1>2. PICK j, S, O : j = mem' /\ S = DOMAIN owned /\ O = S \ {ptr}
  OBVIOUS
<1>3. IsFiniteSet(S) /\ \A q \in S : Room(mem, q) \in Nat
  BY <1>2, OwnedFinite DEF Counted
<1>4. Busy(mem, S) = Room(mem, ptr) + Busy(mem, O) /\ Busy(mem, O) \in Nat
  BY <1>2, <1>3, BusyOneMore
<1>5. Busy(mem, O) = Busy(j, O)
  BY <1>1, <1>2, BusySame
<1>6. busy_mem_size = Busy(mem, S)
  BY <1>2 DEF Balanced
<1>7. Room(mem, ptr) \in Nat
  BY <1>2, <1>3
<1>8. busy_mem_size' = Busy(j, O)
  BY <1>1, <1>4, <1>5, <1>6, <1>7
<1> QED  BY <1>1, <1>2, <1>8

(* heap_init starts with nothing handed out. *)
LEMMA InitCount == Init => Balanced
<1> SUFFICES ASSUME Init PROVE busy_mem_size = Busy(mem, DOMAIN owned)
  BY DEF Balanced
<1>1. busy_mem_size = 0 /\ DOMAIN owned = {}
  BY DEF Init
<1> QED  BY <1>1, BusyOfNone

(* Each step keeps the count exact. *)
LEMMA NextCount == IInv /\ IInv' /\ Balanced /\ [Next]_vars => Balanced'
<1> SUFFICES ASSUME IInv, IInv', Balanced, [Next]_vars
             PROVE  busy_mem_size' = Busy(mem', DOMAIN owned')
  BY DEF Balanced
<1>1. busy_mem_size = Busy(mem, DOMAIN owned)
  BY DEF Balanced
<1>2. ASSUME NEW total \in HeapSizes, heap_init(total)
      PROVE  busy_mem_size' = Busy(mem', DOMAIN owned')
  <2>1. /\ pc = "boot" /\ UNCHANGED <<busy_mem_size, owned>>
    BY <1>2 DEF heap_init
  <2>2. DOMAIN owned = {}
    BY <2>1 DEF IInv, Walked
  <2> QED  BY <1>1, <2>1, <2>2, BusyOfNone
<1>3. ASSUME UNCHANGED <<busy_mem_size, mem, owned>>
      PROVE  busy_mem_size' = Busy(mem', DOMAIN owned')
  BY <1>1, <1>3
<1>4. ASSUME NEW n \in Requests, kmalloc_enter(n)
      PROVE  busy_mem_size' = Busy(mem', DOMAIN owned')
  BY <1>3, <1>4 DEF kmalloc_enter
<1>5. CASE kmalloc_next  BY <1>3, <1>5 DEF kmalloc_next
<1>6. CASE kmalloc_take  BY <1>6, TakeKeepsCount
<1>7. CASE kmalloc_null  BY <1>3, <1>7 DEF kmalloc_null
<1>8. ASSUME NEW ptr \in DOMAIN owned, kfree(ptr)
      PROVE  busy_mem_size' = Busy(mem', DOMAIN owned')
  BY <1>8, KfreeKeepsCount
<1>9. CASE UNCHANGED vars  BY <1>3, <1>9 DEF vars
<1> QED  BY <1>2, <1>4, <1>5, <1>6, <1>7, <1>8, <1>9 DEF Next

(***************************************************************************)
(* get_busy_mem_size: what kmalloc has added and kfree has subtracted is   *)
(* always the payload of the blocks callers hold, whatever was split or    *)
(* joined in between (src/malloc.c:77, 93).                                *)
(***************************************************************************)
THEOREM BusyExact == Spec => []BusyIsExact
<1>1. IInv /\ Balanced /\ [Next]_vars => (IInv /\ Balanced)'
  BY NextInv, NextCount
<1> QED  BY <1>1, InitInv, InitCount, BalancedIsExact, PTL DEF Spec

=============================================================================
