------------------------------- MODULE Reass -------------------------------
(***************************************************************************)
(* Reassembly of IP datagrams (lwip/core/ipv4/ip_frag.c) from fragments    *)
(* that are lost, repeated, reordered and, when routes differ, overlap:    *)
(* any fragment may arrive at any time.  Offsets are in units of 8 bytes.  *)
(*                                                                         *)
(* ip_reass_tmr is called only by the thread of lwip/api/tcpip.c, which    *)
(* this kernel does not have (NO_SYS), so no datagram times out, all       *)
(* timers are equal and the oldest datagram is the last of the list.       *)
(*                                                                         *)
(* When ip_reass_remove_oldest_datagram unlinks a datagram with the wrong  *)
(* predecessor, a freed structure stays in the list.  What follows depends *)
(* on what overwrites it, so the model ends there, with `broken' set.      *)
(***************************************************************************)
EXTENDS Naturals, Sequences, SequencesExt, FiniteSetsExt

CONSTANTS
  Fragments,           \* [id, start, end, more, clen]: datagram, place, MF flag, pbufs
  IP_REASS_MAX_PBUFS,  \* 10 in the code
  MEMP_NUM_REASSDATA   \* 5 in the code

\* A fragment has a place and pbufs, and the fragments of a datagram, as its sender and
\* the routers cut it, do not reach past the one without the MF flag.
ASSUME FragmentsAssumption ==
  /\ \A f \in Fragments : f.start \in Nat /\ f.end \in Nat /\ f.clen \in Nat
  /\ \A f, g \in Fragments : f.id = g.id /\ ~g.more => f.end <= g.end
  /\ IP_REASS_MAX_PBUFS \in Nat /\ MEMP_NUM_REASSDATA \in Nat

VARIABLES
  reassdatagrams,      \* from the front: [id, p, last, datagram_len]; p by start
  ip_reass_pbufcount,
  returned,            \* what the last step returned: the pieces and their datagram
  broken

rvars == <<reassdatagrams, ip_reass_pbufcount, returned, broken>>

Nothing == [p |-> << >>, datagram_len |-> 0]

RInit ==
  /\ reassdatagrams = << >> /\ ip_reass_pbufcount = 0
  /\ returned = Nothing /\ broken = FALSE

-----------------------------------------------------------------------------
SumSeq(s) ==
  LET sum[n \in 0..Len(s)] == IF n = 0 THEN 0 ELSE sum[n - 1] + s[n]
  IN sum[Len(s)]

\* pbuf_clen of all pieces.
Clen(p) == SumSeq([j \in DOMAIN p |-> p[j].clen])

\* The pbufs of all datagrams of a list.
PbufsOf(list) == SumSeq([k \in DOMAIN list |-> Clen(list[k].p)])

\* The last datagram that is not the fragment's own, 0 if there is none.
OldestOther(list, id) == Max({0} \cup {k \in DOMAIN list : list[k].id # id})

\* The oldest is unlinked, with prev the last but one of the list wherever it is.
RemoveOne(st, id) ==
  LET k == OldestOther(st.list, id)
  IN [list |-> RemoveAt(st.list, k),
      freed |-> st.freed + Clen(st.list[k].p),
      broken |-> st.broken \/ (k # 1 /\ k # Len(st.list))]

\* ip_reass_remove_oldest_datagram, from the state [list, freed, broken] on: other
\* datagrams are removed, one at least, until enough is freed or none is left.
RemoveOldest(st, id, needed) ==
  LET round[n \in 0..Len(st.list)] ==
        IF n = 0 THEN st
        ELSE LET r == round[n - 1]
             IN IF OldestOther(r.list, id) # 0 /\ (n = 1 \/ r.freed < st.freed + needed)
                THEN RemoveOne(r, id) ELSE r
  IN round[Len(st.list)]

\* The list as it is, before any datagram is removed.
Present == [list |-> reassdatagrams, freed |-> 0, broken |-> FALSE]

\* The fragment's pbufs must not exceed those that may be queued; if they do,
\* other datagrams are removed.
MakeRoom(f) ==
  IF ip_reass_pbufcount + f.clen <= IP_REASS_MAX_PBUFS THEN Present
  ELSE RemoveOldest(Present, f.id, f.clen)

HasRoom(st, f) ==
  ip_reass_pbufcount - st.freed + f.clen <= IP_REASS_MAX_PBUFS

Index(list, id) == SelectInSeq(list, LAMBDA d : d.id = id)

\* ip_reass_enqueue_new_datagram: a structure for a datagram that has none.
MakeDatagram(st, f) ==
  IF Index(st.list, f.id) # 0 \/ Len(st.list) < MEMP_NUM_REASSDATA THEN st
  ELSE RemoveOldest(st, f.id, f.clen)

\* There is one, or one is free, or what was freed is enough.
HasDatagram(room, st, f) ==
  \/ Index(room.list, f.id) # 0 \/ Len(room.list) < MEMP_NUM_REASSDATA
  \/ st.freed >= room.freed + f.clen /\ Len(st.list) < MEMP_NUM_REASSDATA

\* The datagram of the fragment, in front if it is new, and told of its end.
Enqueued(list, f) ==
  LET new == [id |-> f.id, p |-> << >>, last |-> FALSE, datagram_len |-> 0]
      l == IF Index(list, f.id) = 0 THEN << new >> \o list ELSE list
  IN IF f.more THEN l
     ELSE [l EXCEPT ![Index(l, f.id)].last = TRUE, ![Index(l, f.id)].datagram_len = f.end]

-----------------------------------------------------------------------------
(* ip_reass_chain_frag_into_datagram_and_validate *)

\* The place of the fragment among the pieces p.
Place(p, f) == 1 + Cardinality({j \in DOMAIN p : p[j].start < f.start})

ThrowsAwayEqual(p, f) == \E j \in DOMAIN p : p[j].start = f.start

\* A fragment that repeats or overlaps what is here; in front of all pieces it
\* is not compared with the piece that follows.
ThrowsAway(p, f) ==
  \/ \E j \in DOMAIN p : p[j].start = f.start \/ (p[j].start < f.start /\ f.start < p[j].end)
  \/ Place(p, f) \in 2..Len(p) /\ f.end > p[Place(p, f)].start

\* No hole is seen in p, where the piece at k is new.  A piece that was put
\* between two others is compared with the one that follows only.
Valid(p, k) ==
  /\ p[1].start = 0
  /\ \A j \in 1..(Len(p) - 1) : (j = k - 1 /\ k # Len(p)) \/ p[j].end = p[j + 1].start

-----------------------------------------------------------------------------
DroppedUncounted(st) ==
  /\ reassdatagrams' = st.list /\ returned' = Nothing /\ broken' = st.broken
  /\ UNCHANGED ip_reass_pbufcount

\* The fragment does not fit, even after others were removed.
Dropped(st) ==
  /\ reassdatagrams' = st.list
  /\ ip_reass_pbufcount' = ip_reass_pbufcount - st.freed
  /\ returned' = Nothing /\ broken' = st.broken

\* The fragment is put into its datagram, which may be complete now.
Chain(st, f) ==
  LET l == Enqueued(st.list, f)
      i == Index(l, f.id)
      k == Place(l[i].p, f)
      p == InsertAt(l[i].p, k, f)
      count == ip_reass_pbufcount - st.freed
  IN /\ broken' = st.broken
     /\ IF ThrowsAway(l[i].p, f)
        THEN reassdatagrams' = l /\ ip_reass_pbufcount' = count /\ returned' = Nothing
        ELSE IF l[i].last /\ Valid(p, k)
        THEN /\ reassdatagrams' = RemoveAt(l, i)
             /\ ip_reass_pbufcount' = count + f.clen - Clen(p)
             /\ returned' = [p |-> p, datagram_len |-> l[i].datagram_len]
        ELSE /\ reassdatagrams' = [l EXCEPT ![i].p = p]
             /\ ip_reass_pbufcount' = count + f.clen
             /\ returned' = Nothing

ip_reass(f) ==
  /\ ~broken
  /\ \E room \in {MakeRoom(f)} :
       IF ~HasRoom(room, f) THEN Dropped(room)
       ELSE \E st \in {MakeDatagram(room, f)} :
              IF HasDatagram(room, st, f) THEN Chain(st, f) ELSE Dropped(st)

RNext == \E f \in Fragments : ip_reass(f)

RSpec == RInit /\ [][RNext]_rvars

-----------------------------------------------------------------------------
\* Type invariant.
RTypeOK ==
  /\ \A k \in DOMAIN reassdatagrams :
       /\ DOMAIN reassdatagrams[k] = {"id", "p", "last", "datagram_len"}
       /\ reassdatagrams[k].p \in Seq(Fragments) /\ reassdatagrams[k].last \in BOOLEAN
  /\ ip_reass_pbufcount \in Nat /\ returned.p \in Seq(Fragments) /\ broken \in BOOLEAN

\* ip_reass_pbufcount counts the pbufs of the pieces that wait, no more than
\* the limit (ip_frag.c:495), and every structure has pieces to free.
FragmentsAccounted ==
  ~broken =>
    /\ ip_reass_pbufcount = PbufsOf(reassdatagrams)
    /\ ip_reass_pbufcount <= IP_REASS_MAX_PBUFS /\ Len(reassdatagrams) <= MEMP_NUM_REASSDATA
    /\ \A k \in DOMAIN reassdatagrams : reassdatagrams[k].p # << >>

\* What ip_reass returns (ip_frag.c:595) is made of pieces of one datagram, in
\* order and without overlap, from offset 0 and not past the end that its last
\* fragment gave, however the fragments were repeated, reordered and split.
ReturnedInOrder ==
  LET p == returned.p IN
  p # << >> =>
    /\ \A j \in DOMAIN p : p[j].id = p[1].id
    /\ \A j \in 2..Len(p) : p[j - 1].end <= p[j].start
    /\ p[1].start = 0 /\ p[Len(p)].end <= returned.datagram_len

\* "the totally last fragment (flag more fragments = 0) was received at least
\* once AND all fragments are received" (ip_frag.c:561): what ip_reass returns
\* has no hole and reaches the end of the datagram.
AllFragmentsReceived ==
  LET p == returned.p IN
  p # << >> =>
    /\ \A j \in 2..Len(p) : p[j - 1].end = p[j].start
    /\ p[Len(p)].end = returned.datagram_len
=============================================================================
