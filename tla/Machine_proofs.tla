---------------------------- MODULE Machine_proofs ----------------------------
(***************************************************************************)
(* Proofs about the interpreter, for every program and every depth of      *)
(* calls, of contexts and of nested runs.                                  *)
(***************************************************************************)
EXTENDS Machine, SequenceTheorems, TLAPS

\* The activations alternate, and each run but the first uses the context that
\* the external function which started it owns.
Shape ==
  /\ Len(runs) = Len(hosts) \/ Len(runs) = Len(hosts) + 1
  /\ \A i \in 1 .. Len(runs) :
       /\ runs[i].context = IF i = 1 THEN Root ELSE hosts[i - 1].own
       /\ runs[i].pc.at \in 1 .. Len(Code[runs[i].pc.code])

Ownership ==
  /\ runs # << >> => Root \in live
  /\ \A i \in 1 .. Len(hosts) : hosts[i].own # NoContext => hosts[i].own \in live \ {Root}
  /\ \A i, j \in 1 .. Len(hosts) : hosts[i].own = hosts[j].own /\ hosts[i].own # NoContext => i = j
  /\ \A c \in live \ {Root} : \E i \in 1 .. Len(hosts) : hosts[i].own = c

\* An entry as Return needs it, on its context's stack.
Sound(row, k) ==
  /\ row[k].func \in Internal /\ row[k].pc.code = row[k].func
  /\ row[k].pc \in PCs /\ row[k].bp \in Nat
  /\ row[k].pc.at \in 1 .. Len(Code[row[k].func])
  /\ row[k].bp <= k * MaxFrame

\* The entries of a run.
Describes(row, r) ==
  /\ \A k \in 0 .. r.entry : Sound(row, k)
  /\ row[r.entry].func = r.pc.code /\ row[r.entry].bp = r.bp

Described == \A i \in 1 .. Len(runs) : Describes(entries[runs[i].context], runs[i])

Counted ==
  /\ \A i \in 1 .. Len(runs) : count[runs[i].context] = runs[i].entry
  /\ \A c \in live : (\A i \in 1 .. Len(runs) : runs[i].context # c) => count[c] = 0

\* The program counter of a run that called with sizes.
Positioned_(row, r) == [row[r.entry].pc EXCEPT !.at = @ + 1] = r.pc
AtTheirCalls == \A i \in 1 .. Len(hosts) : hosts[i].saves => Positioned_(entries[runs[i].context], runs[i])

\* The inductive invariant.  Only the counts are off once the process stops:
\* a call without room has counted itself.
IInv ==
  /\ TypeOK /\ Shape /\ Ownership /\ Described /\ AtTheirCalls
  /\ status = "running" => Counted

-----------------------------------------------------------------------------
(* What the typing of the sequences says of their elements.                 *)
LEMMA Elements ==
  ASSUME TypeOK
  PROVE  /\ Len(runs) \in Nat /\ Len(hosts) \in Nat
         /\ \A i \in 1 .. Len(runs) : runs[i] \in Activations
         /\ \A i \in 1 .. Len(hosts) : hosts[i] \in HostActivations
         /\ \A c \in Contexts : entries[c] \in Entries
  BY DEF TypeOK

(* No two runs share a context.                                             *)
LEMMA DistinctContexts ==
  ASSUME TypeOK, Shape, Ownership, NEW i \in 1 .. Len(runs), NEW j \in 1 .. Len(runs),
         runs[i].context = runs[j].context
  PROVE  i = j
  <1>1. /\ Len(runs) \in Nat /\ Len(hosts) \in Nat
        /\ runs[i].context \in Contexts /\ runs[j].context \in Contexts
    BY Elements DEF Activations
  <1>2. ASSUME NEW k \in 1 .. Len(runs), k # 1
        PROVE  /\ k - 1 \in 1 .. Len(hosts) /\ runs[k].context = hosts[k - 1].own
               /\ runs[k].context # Root
    <2>1. k - 1 \in 1 .. Len(hosts)
      BY <1>1, <1>2 DEF Shape
    <2>2. runs[k].context = hosts[k - 1].own
      BY <1>2 DEF Shape
    <2>3. runs[k].context \in Contexts
      BY Elements DEF Activations
    <2>4. QED
      BY <2>1, <2>2, <2>3, ContextsAssumption DEF Ownership
  <1>3. CASE i = 1 \/ j = 1
    BY <1>2, <1>3 DEF Shape
  <1>4. CASE i # 1 /\ j # 1
    <2>1. /\ i - 1 \in 1 .. Len(hosts) /\ j - 1 \in 1 .. Len(hosts)
          /\ hosts[i - 1].own = hosts[j - 1].own /\ hosts[i - 1].own # NoContext
      BY <1>1, <1>2, <1>4, ContextsAssumption
    <2>2. i - 1 = j - 1
      BY <2>1 DEF Ownership
    <2>3. QED
      BY <2>2, <1>1
  <1>5. QED
    BY <1>3, <1>4

(* Every run uses a live context.                                           *)
LEMMA ContextsAreLive ==
  ASSUME TypeOK, Shape, Ownership, NEW i \in 1 .. Len(runs)
  PROVE  runs[i].context \in live
  <1>1. Len(runs) \in Nat /\ Len(hosts) \in Nat /\ runs[i].context \in Contexts
    BY Elements DEF Activations
  <1>2. CASE i = 1
    BY <1>1, <1>2 DEF Shape, Ownership
  <1>3. CASE i # 1
    <2>1. i - 1 \in 1 .. Len(hosts)
      BY <1>1, <1>3 DEF Shape
    <2>2. QED
      BY <1>1, <1>3, <2>1, ContextsAssumption DEF Shape, Ownership
  <1>4. QED
    BY <1>2, <1>3

(* A step of the running function, that leaves its run described, keeps the *)
(* invariant: other runs have other contexts.                               *)
LEMMA TopMoves ==
  ASSUME IInv, Running,
         NEW r \in Activations, NEW row \in Entries,
         r.context = Top.context, r.pc.at \in 1 .. Len(Code[r.pc.code]),
         Describes(row, r),
         runs' = [runs EXCEPT ![Len(runs)] = r],
         entries' = [entries EXCEPT ![r.context] = row],
         count' = [count EXCEPT ![r.context] = r.entry],
         UNCHANGED <<live, status>>,
         \/ hosts' = hosts
         \/ \E h \in HostActivations :
              /\ hosts' = Append(hosts, h) /\ h.own = NoContext
              /\ h.saves => Positioned_(row, r)
  PROVE  IInv'
  <1> DEFINE n == Len(runs)
             c == r.context
  <1>1. /\ n \in Nat \ {0} /\ Len(hosts) \in Nat /\ n = Len(hosts) + 1
        /\ \A i \in 1 .. n : runs[i] \in Activations
        /\ \A i \in 1 .. Len(hosts) : hosts[i] \in HostActivations
    BY Elements DEF IInv, Running, Shape
  <1>2. /\ Len(runs') = n /\ runs'[n] = r
        /\ \A i \in 1 .. n - 1 : runs'[i] = runs[i]
    BY <1>1 DEF IInv, TypeOK
  <1>3. c \in Contexts /\ r.entry \in 0 .. MaxCount /\ c = runs[n].context
    BY BoundsAssumption DEF Activations, Top
  <1>4. \A i \in 1 .. n - 1 : runs[i].context # c /\ runs[i].context \in Contexts
    BY <1>1, <1>3, DistinctContexts DEF IInv, Activations
  <1>5. /\ Len(hosts') \in {n - 1, n}
        /\ \A i \in 1 .. n - 1 : hosts'[i] = hosts[i]
        /\ Len(hosts') = n => hosts'[n].own = NoContext /\ (hosts'[n].saves => Positioned_(row, r))
        /\ hosts' \in Seq(HostActivations)
    <2>1. hosts \in Seq(HostActivations)
      BY DEF IInv, TypeOK
    <2>2. CASE hosts' = hosts
      BY <2>1, <2>2, <1>1
    <2>3. ASSUME NEW h \in HostActivations, hosts' = Append(hosts, h), h.own = NoContext,
                 h.saves => Positioned_(row, r)
          PROVE  <1>5
      <3>1. /\ Len(hosts') = n /\ hosts'[n] = h /\ hosts' \in Seq(HostActivations)
            /\ \A i \in 1 .. n - 1 : hosts'[i] = hosts[i]
        BY <2>1, <2>3, <1>1, AppendProperties
      <3>2. QED
        BY <3>1, <2>3, <1>1
    <2>4. QED
      BY <2>2, <2>3
  <1>6. /\ entries'[c] = row
        /\ \A d \in Contexts \ {c} : entries'[d] = entries[d] /\ count'[d] = count[d]
        /\ count'[c] = r.entry
    BY <1>3 DEF IInv, TypeOK
  <1> HIDE DEF n, c
  <1>7. TypeOK'
    <2>1. runs' \in Seq(Activations)
      <3>1. runs \in Seq(Activations) /\ n \in 1 .. Len(runs)
        BY <1>1 DEF IInv, TypeOK, n
      <3>2. QED
        BY <3>1, ExceptSeq DEF n
    <2>2. entries' \in [Contexts -> Entries] /\ count' \in [Contexts -> 0 .. MaxCount]
      BY <1>3 DEF IInv, TypeOK, c
    <2>3. QED
      BY <2>1, <2>2, <1>5 DEF IInv, TypeOK
  <1>8. Shape'
    <2>1. Len(runs') = Len(hosts') \/ Len(runs') = Len(hosts') + 1
      BY <1>1, <1>2, <1>5
    <2>2. ASSUME NEW i \in 1 .. n
          PROVE  /\ runs'[i].context = IF i = 1 THEN Root ELSE hosts'[i - 1].own
                 /\ runs'[i].pc.at \in 1 .. Len(Code[runs'[i].pc.code])
      <3>1. runs[i].context = IF i = 1 THEN Root ELSE hosts[i - 1].own
        BY DEF IInv, Shape, n
      <3>2. runs'[i].context = runs[i].context
        BY <1>1, <1>2, <1>3 DEF c
      <3>3. i # 1 => hosts'[i - 1] = hosts[i - 1]
        BY <1>1, <1>5
      <3>4. runs'[i].pc.at \in 1 .. Len(Code[runs'[i].pc.code])
        BY <1>1, <1>2 DEF IInv, Shape, n
      <3>5. QED
        BY <3>1, <3>2, <3>3, <3>4
    <2>3. QED
      BY <1>2, <2>1, <2>2 DEF Shape
  <1>9. Ownership'
    <2>1. runs # << >>
      BY <1>1 DEF n
    <2>2. ASSUME NEW i \in 1 .. Len(hosts'), hosts'[i].own # NoContext
          PROVE  i \in 1 .. Len(hosts) /\ hosts'[i] = hosts[i]
      BY <1>1, <1>5, <2>2
    <2>3. \A i, j \in 1 .. Len(hosts') : hosts'[i].own = hosts'[j].own /\ hosts'[i].own # NoContext => i = j
      BY <2>2 DEF IInv, Ownership
    <2>4. \A i \in 1 .. Len(hosts') : hosts'[i].own # NoContext => hosts'[i].own \in live \ {Root}
      BY <2>2 DEF IInv, Ownership
    <2>5. \A d \in live \ {Root} : \E i \in 1 .. Len(hosts') : hosts'[i].own = d
      <3>1. ASSUME NEW i \in 1 .. Len(hosts) PROVE i \in 1 .. Len(hosts') /\ hosts'[i] = hosts[i]
        <4>1. i \in 1 .. n - 1 /\ Len(hosts') \in Nat
          BY <1>1, <1>5
        <4>2. QED
          BY <4>1, <1>1, <1>5
      <3>2. QED
        BY <3>1 DEF IInv, Ownership
    <2>6. QED
      BY <2>1, <2>3, <2>4, <2>5 DEF IInv, Ownership
  <1>10. Described'
    <2>1. ASSUME NEW i \in 1 .. n PROVE Describes(entries'[runs'[i].context], runs'[i])
      <3>1. CASE i = n
        BY <3>1, <1>2, <1>6 DEF c
      <3>2. CASE i # n
        BY <3>2, <1>1, <1>2, <1>4, <1>6 DEF IInv, Described, n
      <3>3. QED
        BY <3>1, <3>2
    <2>2. QED
      BY <1>2, <2>1 DEF Described, Describes, Sound
  <1>11. AtTheirCalls'
    <2>1. ASSUME NEW i \in 1 .. Len(hosts'), hosts'[i].saves
          PROVE  Positioned_(entries'[runs'[i].context], runs'[i])
      <3>1. CASE i = n
        BY <2>1, <3>1, <1>1, <1>2, <1>5, <1>6 DEF c
      <3>2. CASE i # n
        <4>1. i \in 1 .. n - 1 /\ i \in 1 .. Len(hosts)
          BY <3>2, <1>1, <1>5
        <4>2. QED
          BY <2>1, <4>1, <1>2, <1>4, <1>5, <1>6 DEF IInv, AtTheirCalls
      <3>3. QED
        BY <3>1, <3>2
    <2>2. QED
      BY <2>1 DEF AtTheirCalls, Positioned_
  <1>12. Counted'
    <2>1. Counted
      BY DEF IInv, Running
    <2>2. \A i \in 1 .. n : count'[runs'[i].context] = runs'[i].entry
      BY <2>1, <1>1, <1>2, <1>4, <1>6 DEF Counted, n, c
    <2>3. ASSUME NEW d \in live, \A i \in 1 .. n : runs'[i].context # d
          PROVE  count'[d] = 0
      <3>1. \A i \in 1 .. n : runs[i].context # d
        BY <2>3, <1>1, <1>2, <1>3 DEF c
      <3>2. d \in Contexts \ {c}
        BY <3>1, <1>1, <1>3 DEF IInv, TypeOK
      <3>3. QED
        BY <2>1, <3>1, <3>2, <1>6 DEF Counted, n
    <2>4. QED
      BY <1>2, <2>2, <2>3 DEF Counted
  <1>13. QED
    BY <1>7, <1>8, <1>9, <1>10, <1>11, <1>12 DEF IInv

-----------------------------------------------------------------------------
(* The context an external function made for itself is not in use between   *)
(* the runs it starts.                                                      *)
LEMMA OwnIsIdle ==
  ASSUME IInv, Calling, Host.own # NoContext
  PROVE  /\ Host.own \in live \ {Root} /\ Host.own \in Contexts
         /\ \A i \in 1 .. Len(runs) : runs[i].context # Host.own
         /\ \A i \in 1 .. Len(hosts) - 1 : hosts[i].own # Host.own
         /\ count[Host.own] = 0
  <1> DEFINE n == Len(hosts)
  <1>1. /\ n \in Nat \ {0} /\ Len(runs) = n
        /\ n \in 1 .. Len(hosts) /\ Host = hosts[n]
    <2>1. hosts \in Seq(HostActivations) /\ hosts # << >>
      BY DEF IInv, TypeOK, Calling
    <2>2. n \in Nat \ {0}
      BY <2>1, EmptySeq
    <2>3. QED
      BY <2>2 DEF Calling, Hosting, Host
  <1>2. Host.own \in live \ {Root} /\ Host.own \in Contexts
    BY <1>1 DEF IInv, Ownership, TypeOK
  <1>3. ASSUME NEW i \in 1 .. n, hosts[i].own = Host.own PROVE i = n
    BY <1>1, <1>3 DEF IInv, Ownership
  <1>4. ASSUME NEW i \in 1 .. Len(runs) PROVE runs[i].context # Host.own
    <2>1. CASE i = 1
      BY <1>2, <2>1 DEF IInv, Shape
    <2>2. CASE i # 1
      <3>1. i - 1 \in 1 .. n /\ i - 1 # n /\ runs[i].context = hosts[i - 1].own
        BY <1>1, <2>2 DEF IInv, Shape
      <3>2. QED
        BY <3>1, <1>3
    <2>3. QED
      BY <2>1, <2>2
  <1>5. \A i \in 1 .. n - 1 : hosts[i].own # Host.own
    BY <1>1, <1>3
  <1>6. count[Host.own] = 0
    BY <1>2, <1>4 DEF IInv, Counted, Calling, Hosting
  <1>7. QED
    BY <1>2, <1>4, <1>5, <1>6

(* Starting a run on a context not in use, or refusing to.                  *)
LEMMA Starts ==
  ASSUME IInv, Hosting, NEW f \in Internal, NEW accepts, NEW c \in live,
         c = IF runs = << >> THEN Root ELSE Host.own,
         \A i \in 1 .. Len(runs) : runs[i].context # c,
         count[c] = 0,
         SwampRun(c, f, accepts),
         hosts' \in Seq(HostActivations), Len(hosts') = Len(hosts),
         \A i \in 1 .. Len(hosts) : hosts'[i].own = hosts[i].own /\ hosts'[i].saves = hosts[i].saves
  PROVE  IInv'
  <1> DEFINE r == Run(c, 0, Start(f), 0)
             row == [entries[c] EXCEPT ![0] = Entry(f, Start(f), 0)]
             n == Len(runs)
  <1>1. /\ n \in Nat /\ Len(hosts) = n
        /\ runs \in Seq(Activations) /\ c \in Contexts /\ entries[c] \in Entries
        /\ \A i \in 1 .. n : runs[i] \in Activations
    BY Elements DEF IInv, Hosting, TypeOK
  <1>2. 1 \in 1 .. Len(Code[f])
    BY CodeAssumption
  <1>3. r \in Activations /\ row \in Entries
    BY <1>1, BoundsAssumption DEF Activations, Run, Start, PCs, Entries, Entry
  <1>4. row[0] = Entry(f, Start(f), 0)
    BY <1>1, BoundsAssumption DEF Entries
  <1>5. Describes(row, r)
    BY <1>2, <1>4, BoundsAssumption DEF Describes, Sound, Run, Entry, Start, PCs
  <1>6. /\ entries' \in [Contexts -> Entries] /\ entries'[c] = row
        /\ \A d \in Contexts \ {c} : entries'[d] = entries[d]
    <2>1. entries' = [entries EXCEPT ![c] = row]
      BY <1>1 DEF SwampRun, Rooted, IInv, TypeOK
    <2>2. QED
      BY <2>1, <1>1, <1>3 DEF IInv, TypeOK
  <1>7. /\ runs' \in Seq(Activations) /\ Len(runs') \in {n, n + 1}
        /\ \A i \in 1 .. n : runs'[i] = runs[i]
        /\ Len(runs') = n + 1 => runs'[n + 1] = r
    <2>1. runs' = runs \/ runs' = Append(runs, r)
      BY DEF SwampRun
    <2>2. CASE runs' = runs
      BY <2>2, <1>1
    <2>3. CASE runs' = Append(runs, r)
      <3>1. /\ Append(runs, r) \in Seq(Activations) /\ Len(Append(runs, r)) = n + 1
            /\ \A i \in 1 .. n : Append(runs, r)[i] = runs[i]
            /\ Append(runs, r)[n + 1] = r
        <4> HIDE DEF r
        <4>1. QED
          BY <1>1, <1>3, AppendProperties
      <3>2. QED
        BY <2>3, <3>1
    <2>4. QED
      BY <2>1, <2>2, <2>3
  <1>8. UNCHANGED <<live, count, status>>
    BY DEF SwampRun
  <1>9. \A i \in 1 .. n : runs[i].context \in Contexts \ {c}
    BY <1>1 DEF Activations
  <1>10. r.context = c /\ r.entry = 0 /\ r.pc = Start(f)
    BY DEF Run
  <1> HIDE DEF r, row, n
  <1>11. TypeOK'
    BY <1>6, <1>7, <1>8 DEF IInv, TypeOK
  <1>12. Shape'
    <2>1. ASSUME NEW i \in 1 .. n
          PROVE  /\ runs'[i].context = IF i = 1 THEN Root ELSE hosts'[i - 1].own
                 /\ runs'[i].pc.at \in 1 .. Len(Code[runs'[i].pc.code])
      <3>1. i # 1 => i - 1 \in 1 .. Len(hosts)
        BY <1>1
      <3>2. /\ runs[i].context = IF i = 1 THEN Root ELSE hosts[i - 1].own
            /\ runs[i].pc.at \in 1 .. Len(Code[runs[i].pc.code])
        BY DEF IInv, Shape, n
      <3>3. i # 1 => hosts'[i - 1].own = hosts[i - 1].own
        BY <3>1
      <3>4. QED
        BY <3>2, <3>3, <1>7
    <2>2. ASSUME Len(runs') = n + 1
          PROVE  /\ r.context = IF n + 1 = 1 THEN Root ELSE hosts'[n].own
                 /\ r.pc.at \in 1 .. Len(Code[r.pc.code])
      <3>1. CASE n = 0
        BY <3>1, <1>1, <1>2, <1>10 DEF n, Start
      <3>2. CASE n # 0
        <4>1. runs # << >> /\ n \in 1 .. Len(hosts) /\ Host = hosts[n]
          BY <3>2, <1>1 DEF n, Host
        <4>2. QED
          BY <4>1, <1>1, <1>2, <1>10 DEF Start
      <3>3. QED
        BY <3>1, <3>2
    <2>3. QED
      <3>1. ASSUME NEW i \in 1 .. Len(runs')
            PROVE  /\ runs'[i].context = IF i = 1 THEN Root ELSE hosts'[i - 1].own
                   /\ runs'[i].pc.at \in 1 .. Len(Code[runs'[i].pc.code])
        <4>1. CASE i \in 1 .. n
          BY <4>1, <2>1
        <4>2. CASE i \notin 1 .. n
          <5>1. i = n + 1 /\ Len(runs') = n + 1 /\ i - 1 = n
            BY <4>2, <1>1, <1>7
          <5>2. QED
            BY <5>1, <2>2, <1>7
        <4>3. QED
          BY <4>1, <4>2
      <3>2. QED
        BY <3>1, <1>1, <1>7 DEF Shape
  <1>13. Ownership'
    <2>1. Root \in live
      <3>1. CASE runs = << >>
        BY <3>1
      <3>2. CASE runs # << >>
        BY <3>2 DEF IInv, Ownership
      <3>3. QED
        BY <3>1, <3>2
    <2>2. QED
      BY <2>1, <1>8 DEF IInv, Ownership
  <1>14. Described'
    <2>1. ASSUME NEW i \in 1 .. Len(runs') PROVE Describes(entries'[runs'[i].context], runs'[i])
      <3>1. CASE i \in 1 .. n
        BY <3>1, <1>6, <1>7, <1>9 DEF IInv, Described, n
      <3>2. CASE i \notin 1 .. n
        <4>1. i = n + 1 /\ runs'[i] = r
          BY <3>2, <1>1, <1>7
        <4>2. QED
          BY <4>1, <1>5, <1>6, <1>10
      <3>3. QED
        BY <3>1, <3>2
    <2>2. QED
      BY <2>1 DEF Described, Describes, Sound
  <1>15. AtTheirCalls'
    <2>1. ASSUME NEW i \in 1 .. Len(hosts'), hosts'[i].saves
          PROVE  Positioned_(entries'[runs'[i].context], runs'[i])
      BY <2>1, <1>1, <1>6, <1>7, <1>9 DEF IInv, AtTheirCalls
    <2>2. QED
      BY <2>1 DEF AtTheirCalls, Positioned_
  <1>16. Counted'
    <2>1. Counted
      BY DEF IInv, Hosting
    <2>2. ASSUME NEW i \in 1 .. Len(runs') PROVE count[runs'[i].context] = runs'[i].entry
      <3>1. CASE i \in 1 .. n
        BY <3>1, <2>1, <1>7 DEF Counted, n
      <3>2. CASE i \notin 1 .. n
        <4>1. i = n + 1 /\ runs'[i] = r
          BY <3>2, <1>1, <1>7
        <4>2. QED
          BY <4>1, <1>10
      <3>3. QED
        BY <3>1, <3>2
    <2>3. ASSUME NEW d \in live, \A i \in 1 .. Len(runs') : runs'[i].context # d PROVE count[d] = 0
      <3>1. \A i \in 1 .. n : i \in 1 .. Len(runs') /\ runs'[i] = runs[i]
        BY <1>1, <1>7
      <3>2. QED
        BY <2>1, <2>3, <3>1 DEF Counted, n
    <2>4. QED
      BY <1>8, <2>2, <2>3 DEF Counted
  <1>17. QED
    BY <1>11, <1>12, <1>13, <1>14, <1>15, <1>16 DEF IInv

LEMMA HostStarts ==
  ASSUME IInv, NEW f \in Internal, NEW parametersAgree \in BOOLEAN, NEW sizesAgree \in BOOLEAN,
         HostRuns(f, parametersAgree, sizesAgree)
  PROVE  IInv'
  <1>1. Hosting /\ hosts = << >> /\ hosts' = hosts /\ hosts \in Seq(HostActivations)
    BY DEF HostRuns, IInv, TypeOK
  <1>2. Len(runs) = 0 /\ runs = << >>
    <2>1. runs \in Seq(Activations) /\ Len(runs) = 0
      BY <1>1 DEF IInv, TypeOK, Hosting
    <2>2. QED
      BY <2>1, EmptySeq
  <1>3. Root \in live /\ count[Root] = 0
    BY <1>1, <1>2 DEF HostRuns, IInv, Counted, Hosting
  <1>4. QED
    BY <1>1, <1>2, <1>3, Starts DEF HostRuns

LEMMA ExternalStarts ==
  ASSUME IInv, RunArgument, Prepared(Host.fn) \in Internal
  PROVE  IInv'
  <1> DEFINE n == Len(hosts)
  <1>1. /\ Calling /\ Hosting /\ Host.own # NoContext /\ hosts \in Seq(HostActivations)
    BY DEF RunArgument, Calling, IInv, TypeOK
  <1>2. /\ n \in Nat \ {0} /\ Len(runs) = n /\ n \in 1 .. Len(hosts)
        /\ Host = hosts[n] /\ Host \in HostActivations
    <2>1. n \in Nat \ {0} /\ Len(runs) = n
      BY <1>1, EmptySeq DEF Calling, Hosting
    <2>2. QED
      BY <1>1, <2>1 DEF Host
  <1>3. PICK accepts \in {"ok", "-3"} :
          /\ SwampRun(Host.own, Prepared(Host.fn), accepts)
          /\ HostBecomes([Host EXCEPT !.returned = IF accepts = "ok" THEN @ ELSE accepts])
    BY DEF RunArgument, Accepts
  <1> DEFINE h == [Host EXCEPT !.returned = IF accepts = "ok" THEN @ ELSE accepts]
  <1>4. h \in HostActivations /\ h.own = Host.own /\ h.saves = Host.saves
    BY <1>2 DEF HostActivations
  <1>5. hosts' = [hosts EXCEPT ![n] = h]
    BY <1>3 DEF HostBecomes
  <1> HIDE DEF h
  <1>6. /\ hosts' \in Seq(HostActivations) /\ Len(hosts') = Len(hosts)
        /\ \A i \in 1 .. Len(hosts) : hosts'[i].own = hosts[i].own /\ hosts'[i].saves = hosts[i].saves
    BY <1>1, <1>2, <1>4, <1>5, ExceptSeq
  <1>7. runs # << >>
    BY <1>2
  <1>8. QED
    BY <1>1, <1>3, <1>6, <1>7, OwnIsIdle, Starts

(* Only the type and the status are about more than the stacks.             *)
LEMMA StacksStand ==
  ASSUME IInv, UNCHANGED <<live, entries, count, runs, hosts>>
  PROVE  /\ Shape' /\ Ownership' /\ Described' /\ AtTheirCalls'
         /\ Counted => Counted'
  <1>1. Shape'
    BY DEF IInv, Shape
  <1>2. Ownership'
    BY DEF IInv, Ownership
  <1>3. Described'
    <2>1. \A i \in 1 .. Len(runs') : Describes(entries'[runs'[i].context], runs'[i])
      BY DEF IInv, Described
    <2>2. QED
      BY <2>1 DEF Described, Describes, Sound
  <1>4. AtTheirCalls'
    BY DEF IInv, AtTheirCalls, Positioned_
  <1>5. Counted => Counted'
    BY DEF Counted
  <1>6. QED
    BY <1>1, <1>2, <1>3, <1>4, <1>5

(* The process stops where it is.                                           *)
LEMMA Stops ==
  ASSUME IInv, NEW how \in {"trap", "abort", "fault"}, Stop(how)
  PROVE  IInv'
  <1>1. status' = how /\ UNCHANGED <<live, entries, count, runs, hosts>>
    BY DEF Stop
  <1>2. TypeOK'
    BY <1>1 DEF IInv, TypeOK
  <1>3. QED
    BY <1>1, <1>2, StacksStand DEF IInv

(* A context nothing uses is set up or freed.                               *)
LEMMA Blanked ==
  ASSUME TypeOK, NEW c, c \in Contexts => \A i \in 1 .. Len(runs) : runs[i].context # c, Blank(c)
  PROVE  /\ entries' \in [Contexts -> Entries] /\ count' \in [Contexts -> 0 .. MaxCount]
         /\ \A i \in 1 .. Len(runs) : /\ entries'[runs[i].context] = entries[runs[i].context]
                                      /\ count'[runs[i].context] = count[runs[i].context]
         /\ \A d \in Contexts : count'[d] = IF d = c THEN 0 ELSE count[d]
  <1>1. /\ entries \in [Contexts -> Entries] /\ count \in [Contexts -> 0 .. MaxCount]
        /\ \A i \in 1 .. Len(runs) : runs[i].context \in Contexts
    BY Elements DEF TypeOK, Activations
  <1>2. NoEntries \in Entries /\ 0 \in 0 .. MaxCount
    BY BoundsAssumption DEF NoEntries, Entries
  <1>3. QED
    BY <1>1, <1>2 DEF Blank

LEMMA ContextComesOrGoes ==
  ASSUME IInv, InitContext \/ DestroyContext
  PROVE  IInv'
  <1>1. Hosting /\ Blank(Root) /\ UNCHANGED <<runs, hosts, status>>
    BY DEF InitContext, DestroyContext
  <1>2. runs = << >> /\ hosts = << >>
    <2>1. runs \in Seq(Activations) /\ hosts \in Seq(HostActivations) /\ Len(runs) = Len(hosts)
      BY <1>1 DEF IInv, TypeOK, Hosting
    <2>2. runs = << >> \/ hosts = << >>
      BY DEF InitContext, DestroyContext, IInv, Ownership
    <2>3. QED
      BY <2>1, <2>2, EmptySeq
  <1>3. live' \ {Root} = live \ {Root} /\ live' \subseteq Contexts
    BY ContextsAssumption DEF InitContext, DestroyContext, IInv, TypeOK
  <1>4. TypeOK' /\ \A d \in Contexts : count'[d] = IF d = Root THEN 0 ELSE count[d]
    BY <1>1, <1>2, <1>3, Blanked DEF IInv, TypeOK
  <1>5. Shape' /\ Ownership' /\ Described' /\ AtTheirCalls'
    BY <1>1, <1>2, <1>3 DEF IInv, Shape, Ownership, Described, AtTheirCalls
  <1>6. Counted'
    BY <1>1, <1>2, <1>3, <1>4 DEF IInv, Counted, Hosting
  <1>7. QED
    BY <1>4, <1>5, <1>6 DEF IInv

LEMMA TempIsCreated ==
  ASSUME IInv, NEW c \in Contexts, CreateTemp(c), Own(c)
  PROVE  IInv'
  <1> DEFINE n == Len(hosts)
             h == [Host EXCEPT !.own = c]
  <1>1. /\ n \in Nat \ {0} /\ Len(runs) = n /\ n \in 1 .. Len(hosts) /\ Host = hosts[n]
        /\ hosts \in Seq(HostActivations) /\ Host \in HostActivations /\ Host.own = NoContext
    <2>1. hosts \in Seq(HostActivations) /\ hosts # << >> /\ Len(runs) = n
      BY DEF CreateTemp, Calling, Hosting, IInv, TypeOK
    <2>2. n \in Nat \ {0}
      BY <2>1, EmptySeq
    <2>3. QED
      BY <2>1, <2>2 DEF Host, CreateTemp
  <1>2. /\ c \notin live /\ live' = live \cup {c} /\ Blank(c)
        /\ hosts' = [hosts EXCEPT ![n] = h] /\ UNCHANGED <<runs, status>>
    BY DEF CreateTemp, Own, HostBecomes
  <1>3. h \in HostActivations /\ h.own = c /\ h.saves = Host.saves
    BY <1>1 DEF HostActivations
  <1> HIDE DEF h
  <1>4. /\ hosts' \in Seq(HostActivations) /\ Len(hosts') = n
        /\ \A i \in 1 .. n : hosts'[i] = IF i = n THEN h ELSE hosts[i]
    BY <1>1, <1>2, <1>3, ExceptSeq
  <1>5. c # Root /\ c # NoContext
    <2>1. runs # << >>
      BY <1>1
    <2>2. QED
      BY <1>2, <2>1, ContextsAssumption DEF IInv, Ownership
  <1>6. \A i \in 1 .. Len(runs) : runs[i].context # c
    BY <1>2, ContextsAreLive DEF IInv
  <1>7. /\ entries' \in [Contexts -> Entries] /\ count' \in [Contexts -> 0 .. MaxCount]
        /\ \A i \in 1 .. Len(runs) : /\ entries'[runs[i].context] = entries[runs[i].context]
                                     /\ count'[runs[i].context] = count[runs[i].context]
        /\ \A d \in Contexts : count'[d] = IF d = c THEN 0 ELSE count[d]
    BY <1>2, <1>6, Blanked DEF IInv
  <1>8. TypeOK'
    BY <1>2, <1>4, <1>7 DEF IInv, TypeOK
  <1>9. Shape'
    <2>1. ASSUME NEW i \in 1 .. Len(runs) PROVE i # 1 => hosts'[i - 1] = hosts[i - 1]
      BY <1>1, <1>4
    <2>2. QED
      BY <1>1, <1>2, <1>4, <2>1 DEF IInv, Shape
  <1>10. Ownership'
    <2>1. \A i \in 1 .. n : hosts[i].own # c
      BY <1>1, <1>2, <1>5 DEF IInv, Ownership
    <2>2. \A i, j \in 1 .. n : hosts'[i].own = hosts'[j].own /\ hosts'[i].own # NoContext => i = j
      BY <1>1, <1>3, <1>4, <2>1 DEF IInv, Ownership
    <2>3. \A i \in 1 .. n : hosts'[i].own # NoContext => hosts'[i].own \in live' \ {Root}
      BY <1>1, <1>2, <1>3, <1>4, <1>5 DEF IInv, Ownership
    <2>4. ASSUME NEW d \in live' \ {Root} PROVE \E i \in 1 .. n : hosts'[i].own = d
      <3>1. CASE d = c
        BY <3>1, <1>1, <1>3, <1>4
      <3>2. CASE d # c
        <4>1. PICK i \in 1 .. n : hosts[i].own = d
          BY <1>2, <3>2 DEF IInv, Ownership
        <4>2. d # NoContext
          BY <1>2, <3>2, ContextsAssumption DEF IInv, TypeOK
        <4>3. i # n
          BY <1>1, <4>1, <4>2
        <4>4. QED
          BY <4>1, <4>3, <1>4
      <3>3. QED
        BY <3>1, <3>2
    <2>5. runs' # << >> => Root \in live'
      BY <1>2 DEF IInv, Ownership
    <2>6. QED
      BY <2>2, <2>3, <2>4, <2>5, <1>4 DEF Ownership
  <1>11. Described'
    <2>1. ASSUME NEW i \in 1 .. Len(runs) PROVE Describes(entries'[runs'[i].context], runs'[i])
      BY <1>2, <1>7 DEF IInv, Described
    <2>2. QED
      BY <1>2, <2>1 DEF Described, Describes, Sound
  <1>12. AtTheirCalls'
    <2>1. \A i \in 1 .. n : hosts'[i].saves = hosts[i].saves
      BY <1>1, <1>3, <1>4
    <2>2. ASSUME NEW i \in 1 .. n, hosts'[i].saves
          PROVE  Positioned_(entries'[runs'[i].context], runs'[i])
      BY <1>1, <1>2, <1>7, <2>1, <2>2 DEF IInv, AtTheirCalls
    <2>3. QED
      BY <1>4, <2>2 DEF AtTheirCalls, Positioned_
  <1>13. Counted'
    <2>1. Counted
      BY DEF IInv, CreateTemp, Calling, Hosting
    <2>2. live' \subseteq Contexts
      BY <1>2 DEF IInv, TypeOK
    <2>3. QED
      BY <1>2, <1>7, <2>1, <2>2 DEF Counted
  <1>14. QED
    BY <1>8, <1>9, <1>10, <1>11, <1>12, <1>13 DEF IInv

(* What an external function or a run leaves behind: all but the last.      *)
LEMMA AllButLast ==
  ASSUME NEW S, NEW s \in Seq(S), s # << >>
  PROVE  /\ AllBut(s) \in Seq(S) /\ Len(AllBut(s)) = Len(s) - 1 /\ Len(s) \in Nat \ {0}
         /\ \A i \in 1 .. Len(s) - 1 : AllBut(s)[i] = s[i]
  <1>1. Len(s) \in Nat \ {0}
    BY EmptySeq
  <1>2. \A i \in 1 .. Len(s) - 1 : s[i] \in S
    BY <1>1, ElementOfSeq
  <1> DEFINE m == Len(s) - 1
  <1>3. m \in Nat /\ 1 \in Int /\ m \in Int /\ \A i \in 1 .. m : s[i] \in S
    BY <1>1, <1>2
  <1>4. /\ SubSeq(s, 1, m) \in Seq(S)
        /\ Len(SubSeq(s, 1, m)) = IF 1 <= m THEN m - 1 + 1 ELSE 0
        /\ \A i \in 1 .. m - 1 + 1 : SubSeq(s, 1, m)[i] = s[1 + i - 1]
    <2> HIDE DEF m
    <2>1. QED
      BY <1>3, SubSeqProperties
  <1>5. Len(SubSeq(s, 1, m)) = m /\ \A i \in 1 .. m : SubSeq(s, 1, m)[i] = s[i]
    <2> HIDE DEF m
    <2>1. ASSUME NEW i \in 1 .. m PROVE SubSeq(s, 1, m)[i] = s[i]
      <3>1. i \in 1 .. m - 1 + 1 /\ 1 + i - 1 = i
        BY <1>3
      <3>2. QED
        BY <1>4, <3>1
    <2>2. QED
      BY <1>3, <1>4, <2>1
  <1>6. QED
    BY <1>1, <1>4, <1>5 DEF AllBut

LEMMA ExternalReturns ==
  ASSUME IInv, ReturnExternal
  PROVE  IInv'
  <1> DEFINE n == Len(hosts)
             c == Host.own
  <1>1. /\ Calling /\ live' = live \ {c} /\ Blank(c) /\ hosts' = AllBut(hosts) /\ UNCHANGED <<runs, status>>
    BY DEF ReturnExternal, LiveAfterDestroyTemp
  <1>2. /\ n \in Nat \ {0} /\ Len(runs) = n /\ Host = hosts[n] /\ n \in 1 .. Len(hosts)
        /\ hosts' \in Seq(HostActivations) /\ Len(hosts') = n - 1
        /\ \A i \in 1 .. n - 1 : hosts'[i] = hosts[i]
    <2>1. hosts \in Seq(HostActivations) /\ hosts # << >> /\ Len(runs) = n
      BY <1>1 DEF Calling, Hosting, IInv, TypeOK
    <2>2. QED
      BY <1>1, <2>1, AllButLast DEF Host
  <1>3. /\ c # NoContext => c # Root
        /\ c \in Contexts => \A i \in 1 .. Len(runs) : runs[i].context # c
        /\ c # NoContext => \A i \in 1 .. n - 1 : hosts[i].own # c
    BY <1>1, OwnIsIdle, ContextsAssumption
  <1>4. /\ entries' \in [Contexts -> Entries] /\ count' \in [Contexts -> 0 .. MaxCount]
        /\ \A i \in 1 .. Len(runs) : /\ entries'[runs[i].context] = entries[runs[i].context]
                                     /\ count'[runs[i].context] = count[runs[i].context]
        /\ \A d \in Contexts : count'[d] = IF d = c THEN 0 ELSE count[d]
    BY <1>1, <1>3, Blanked DEF IInv
  <1>5. TypeOK'
    BY <1>1, <1>2, <1>4 DEF IInv, TypeOK
  <1>6. Shape'
    <2>1. ASSUME NEW i \in 1 .. Len(runs), i # 1 PROVE hosts'[i - 1] = hosts[i - 1]
      BY <1>2, <2>1
    <2>2. QED
      BY <1>1, <1>2, <2>1 DEF IInv, Shape
  <1>7. Ownership'
    <2>1. \A i \in 1 .. n - 1 : i \in 1 .. Len(hosts)
      BY <1>2
    <2>2. \A i \in 1 .. n - 1 : hosts'[i].own # NoContext => hosts'[i].own \in live' \ {Root}
      BY <1>1, <1>2, <1>3, <2>1 DEF IInv, Ownership
    <2>3. \A i, j \in 1 .. n - 1 : hosts'[i].own = hosts'[j].own /\ hosts'[i].own # NoContext => i = j
      BY <1>2, <2>1 DEF IInv, Ownership
    <2>4. ASSUME NEW d \in live' \ {Root} PROVE \E i \in 1 .. n - 1 : hosts'[i].own = d
      <3>1. PICK i \in 1 .. n : hosts[i].own = d
        BY <1>1 DEF IInv, Ownership
      <3>2. i # n
        BY <1>1, <1>2, <3>1
      <3>3. i \in 1 .. n - 1
        BY <1>2, <3>2
      <3>4. QED
        BY <3>1, <3>3, <1>2
    <2>5. runs' # << >> => Root \in live'
      <3>1. c # Root
        BY <1>3, ContextsAssumption
      <3>2. QED
        BY <1>1, <3>1 DEF IInv, Ownership
    <2>6. QED
      BY <1>2, <2>2, <2>3, <2>4, <2>5 DEF Ownership
  <1>8. Described'
    <2>1. ASSUME NEW i \in 1 .. Len(runs) PROVE Describes(entries'[runs'[i].context], runs'[i])
      BY <1>1, <1>4 DEF IInv, Described
    <2>2. QED
      BY <1>1, <2>1 DEF Described, Describes, Sound
  <1>9. AtTheirCalls'
    <2>1. ASSUME NEW i \in 1 .. n - 1, hosts'[i].saves
          PROVE  Positioned_(entries'[runs'[i].context], runs'[i])
      <3>1. i \in 1 .. Len(hosts) /\ i \in 1 .. Len(runs)
        BY <1>2
      <3>2. QED
        BY <1>1, <1>2, <1>4, <2>1, <3>1 DEF IInv, AtTheirCalls
    <2>2. QED
      BY <1>2, <2>1 DEF AtTheirCalls, Positioned_
  <1>10. Counted'
    <2>1. Counted
      BY <1>1 DEF IInv, Calling, Hosting
    <2>2. QED
      BY <1>1, <1>4, <2>1 DEF Counted, IInv, TypeOK
  <1>11. QED
    BY <1>5, <1>6, <1>7, <1>8, <1>9, <1>10 DEF IInv

LEMMA RunReturns ==
  ASSUME IInv, ReturnFromRun
  PROVE  IInv'
  <1> DEFINE n == Len(runs)
  <1>1. /\ Running /\ count[Top.context] = 0 /\ runs' = AllBut(runs) /\ UNCHANGED <<live, entries, count, status>>
        /\ runs \in Seq(Activations) /\ hosts \in Seq(HostActivations)
    BY DEF ReturnFromRun, IInv, TypeOK
  <1>2. /\ n \in Nat \ {0} /\ Len(hosts) = n - 1
        /\ runs' \in Seq(Activations) /\ Len(runs') = n - 1
        /\ \A i \in 1 .. n - 1 : runs'[i] = runs[i]
    <2>1. Len(hosts) \in Nat /\ n \in Nat /\ n > Len(hosts)
      BY Elements, <1>1 DEF IInv, Running
    <2>2. n \in Nat \ {0} /\ Len(hosts) = n - 1
      BY <2>1 DEF IInv, Shape
    <2>3. runs # << >>
      BY <2>2
    <2>4. QED
      BY <1>1, <2>2, <2>3, AllButLast
  <1>3. /\ hosts' \in Seq(HostActivations) /\ Len(hosts') = n - 1
        /\ \A i \in 1 .. n - 1 : hosts'[i].own = hosts[i].own /\ hosts'[i].saves = hosts[i].saves
    <2>1. CASE hosts = << >>
      BY <1>1, <1>2, <2>1 DEF ReturnFromRun
    <2>2. CASE hosts # << >>
      <3> DEFINE h == [hosts[Len(hosts)] EXCEPT !.returned = "ok"]
      <3>1. Len(hosts) \in 1 .. Len(hosts)
        BY <1>1, <2>2, EmptySeq
      <3>2. hosts[Len(hosts)] \in HostActivations
        BY <1>1, <3>1, ElementOfSeq
      <3>3. h \in HostActivations /\ h.own = hosts[Len(hosts)].own /\ h.saves = hosts[Len(hosts)].saves
        BY <3>2 DEF HostActivations
      <3>4. hosts' = [hosts EXCEPT ![Len(hosts)] = h]
        BY <2>2 DEF ReturnFromRun
      <3> HIDE DEF h
      <3>5. QED
        BY <1>1, <1>2, <3>1, <3>3, <3>4, ExceptSeq
    <2>3. QED
      BY <2>1, <2>2
  <1>4. TypeOK'
    BY <1>1, <1>2, <1>3 DEF IInv, TypeOK
  <1>5. \A i \in 1 .. n - 1 : i \in 1 .. Len(runs) /\ i \in 1 .. Len(hosts)
    BY <1>2
  <1>6. Shape'
    <2>1. ASSUME NEW i \in 1 .. n - 1, i # 1 PROVE hosts'[i - 1].own = hosts[i - 1].own
      BY <1>2, <1>3, <2>1
    <2>2. ASSUME NEW i \in 1 .. n - 1
          PROVE  /\ runs'[i].context = IF i = 1 THEN Root ELSE hosts'[i - 1].own
                 /\ runs'[i].pc.at \in 1 .. Len(Code[runs'[i].pc.code])
      BY <1>2, <1>5, <2>1 DEF IInv, Shape
    <2>3. QED
      BY <1>2, <1>3, <2>2 DEF Shape
  <1>7. Ownership'
    <2>1. Root \in live
      BY <1>2 DEF IInv, Ownership
    <2>2. \A i \in 1 .. n - 1 : hosts'[i].own # NoContext => hosts'[i].own \in live \ {Root}
      BY <1>3, <1>5 DEF IInv, Ownership
    <2>3. \A i, j \in 1 .. n - 1 : hosts'[i].own = hosts'[j].own /\ hosts'[i].own # NoContext => i = j
      BY <1>3, <1>5 DEF IInv, Ownership
    <2>4. \A d \in live \ {Root} : \E i \in 1 .. n - 1 : hosts'[i].own = d
      BY <1>2, <1>3 DEF IInv, Ownership
    <2>5. QED
      BY <1>1, <1>3, <2>1, <2>2, <2>3, <2>4 DEF Ownership
  <1>8. Described'
    <2>1. ASSUME NEW i \in 1 .. n - 1 PROVE Describes(entries'[runs'[i].context], runs'[i])
      BY <1>1, <1>2, <1>5 DEF IInv, Described
    <2>2. QED
      BY <1>2, <2>1 DEF Described, Describes, Sound
  <1>9. AtTheirCalls'
    <2>1. ASSUME NEW i \in 1 .. n - 1, hosts'[i].saves
          PROVE  Positioned_(entries'[runs'[i].context], runs'[i])
      BY <1>1, <1>2, <1>3, <1>5, <2>1 DEF IInv, AtTheirCalls
    <2>2. QED
      BY <1>3, <2>1 DEF AtTheirCalls, Positioned_
  <1>10. Counted'
    <2>1. Counted
      BY <1>1 DEF IInv, Running
    <2>2. ASSUME NEW d \in live, \A i \in 1 .. n - 1 : runs'[i].context # d PROVE count[d] = 0
      <3>1. CASE d = Top.context
        BY <1>1, <3>1
      <3>2. CASE d # Top.context
        <4>1. \A i \in 1 .. n : i \in 1 .. n - 1 \/ i = n
          BY <1>2
        <4>2. \A i \in 1 .. n : runs[i].context # d
          BY <1>2, <2>2, <3>2, <4>1 DEF Top
        <4>3. QED
          BY <2>1, <4>2 DEF Counted
      <3>3. QED
        BY <3>1, <3>2
    <2>3. QED
      BY <1>1, <1>2, <1>5, <2>1, <2>2 DEF Counted
  <1>11. QED
    BY <1>4, <1>6, <1>7, <1>8, <1>9, <1>10 DEF IInv

-----------------------------------------------------------------------------
(* The running function.                                                    *)
LEMMA TopFacts ==
  ASSUME IInv, Running
  PROVE  /\ Top \in Activations /\ Describes(entries[Top.context], Top)
         /\ entries[Top.context] \in Entries /\ Top.entry \in 0 .. MaxCount - 1
         /\ Top.context \in Contexts /\ count[Top.context] = Top.entry
         /\ Top.pc \in PCs /\ Top.bp \in Nat
         /\ Top.pc.at \in 1 .. Len(Code[Top.pc.code])
         /\ Instr = Code[Top.pc.code][Top.pc.at] /\ IsInstruction(Top.pc.code, Top.pc.at)
         /\ Len(Code[Top.pc.code]) \in Nat
  <1>1. Len(runs) \in 1 .. Len(runs)
    BY Elements DEF IInv, Running
  <1>2. Top \in Activations /\ entries[Top.context] \in Entries
    BY <1>1, Elements DEF IInv, Top, Activations
  <1>3. Describes(entries[Top.context], Top) /\ count[Top.context] = Top.entry
    BY <1>1 DEF IInv, Described, Counted, Running, Top
  <1>4. Top.pc.at \in 1 .. Len(Code[Top.pc.code])
    BY <1>1 DEF IInv, Shape, Top
  <1>5. QED
    BY <1>2, <1>3, <1>4, CodeAssumption DEF Activations, PCs, Instr

(* A return within a run, to the entry below.                               *)
LEMMA ReturnsInRun ==
  ASSUME IInv, Return
  PROVE  IInv'
  <1> DEFINE row == entries[Top.context]
             k == Top.entry - 1
             r == Resumed(Top.context, k)
  <1>1. /\ Running /\ Top.entry # 0 /\ count' = [count EXCEPT ![Top.context] = k]
        /\ runs' = [runs EXCEPT ![Len(runs)] = r] /\ UNCHANGED <<live, entries, hosts, status>>
    BY TopFacts DEF Return, TopBecomes
  <1>2. /\ k \in 0 .. MaxCount - 1 /\ row \in Entries
        /\ \A i \in 0 .. Top.entry : Sound(row, i)
        /\ \A i \in 0 .. k : i \in 0 .. Top.entry
    BY <1>1, TopFacts, BoundsAssumption DEF Describes
  <1>3. Sound(row, k)
    BY <1>2
  <1>4. r = [context |-> Top.context, entry |-> k, pc |-> row[k].pc, bp |-> row[k].bp]
    BY DEF Resumed, Run
  <1>5. r \in Activations /\ r.pc.at \in 1 .. Len(Code[r.pc.code]) /\ r.context = Top.context /\ r.entry = k
    <2>1. /\ r.context = Top.context /\ r.entry = k /\ r.pc = row[k].pc /\ r.bp = row[k].bp
      BY <1>4
    <2> HIDE DEF row, k, r
    <2>2. row[k].pc \in PCs /\ row[k].bp \in Nat /\ row[k].pc.at \in 1 .. Len(Code[row[k].pc.code])
      BY <1>3 DEF Sound
    <2>3. k \in 0 .. MaxCount - 1 /\ Top.context \in Contexts
      BY <1>1, <1>2, TopFacts
    <2>4. r \in Activations
      BY <1>4, <2>1, <2>2, <2>3 DEF Activations
    <2>5. QED
      BY <2>1, <2>2, <2>4
  <1>6. Describes(row, r)
    <2>1. row[k].func = row[k].pc.code /\ r.entry = k /\ r.pc = row[k].pc /\ r.bp = row[k].bp
      BY <1>3, <1>4 DEF Sound
    <2> HIDE DEF row, k, r
    <2>2. \A i \in 0 .. k : Sound(row, i)
      BY <1>2
    <2>3. QED
      BY <2>1, <2>2 DEF Describes
  <1>7. entries' = [entries EXCEPT ![r.context] = row]
    BY <1>1, <1>5, TopFacts DEF IInv, TypeOK
  <1> HIDE DEF row, k, r
  <1>8. QED
    BY <1>1, <1>2, <1>5, <1>6, <1>7, TopMoves

LEMMA TailCalls ==
  ASSUME IInv, TailCall
  PROVE  IInv'
  <1> DEFINE c == Top.context
             n == Top.entry
             start == Start(entries[c][n].func)
             row == [entries[c] EXCEPT ![n].pc = start]
             r == [Top EXCEPT !.pc = start]
  <1>1. /\ Running /\ UNCHANGED <<live, count, hosts, status>>
        /\ entries' = [entries EXCEPT ![c][n].pc = start] /\ runs' = [runs EXCEPT ![Len(runs)] = r]
    BY DEF TailCall, TopBecomes
  <1>2. Sound(entries[c], n) /\ entries[c][n] \in [func : Internal, pc : PCs, bp : Nat]
    <2>1. Sound(entries[c], n)
      BY <1>1, TopFacts, BoundsAssumption DEF Describes
    <2>2. entries[c][n] # Unwritten
      BY <2>1, FunctionsAssumption DEF Sound, Unwritten, Entry, Functions
    <2>3. QED
      BY <1>1, <2>1, <2>2, TopFacts DEF Entries
  <1>3. start \in PCs /\ start.code = entries[c][n].func /\ start.at = 1 /\ 1 \in 1 .. Len(Code[start.code])
    BY <1>2, CodeAssumption DEF Start, PCs
  <1>4. /\ row \in Entries /\ row[n].pc = start /\ row[n].func = entries[c][n].func /\ row[n].bp = entries[c][n].bp
        /\ \A k \in 0 .. MaxCount - 1 : k # n => row[k] = entries[c][k]
    <2> HIDE DEF start
    <2>1. QED
      BY <1>1, <1>2, <1>3, TopFacts DEF Entries
  <1>5. r \in Activations /\ r.context = c /\ r.entry = n /\ r.pc = start /\ r.bp = Top.bp
    <2> HIDE DEF start
    <2>1. QED
      BY <1>1, <1>3, TopFacts DEF Activations
  <1>6. Describes(row, r)
    <2> HIDE DEF start, row, r
    <2>1. Sound(row, n)
      BY <1>2, <1>3, <1>4 DEF Sound
    <2>2. \A k \in 0 .. n : k \in 0 .. MaxCount - 1
      BY <1>1, TopFacts, BoundsAssumption
    <2>3. \A k \in 0 .. n : k # n => Sound(row, k)
      BY <1>1, <1>4, <2>2, TopFacts DEF Describes, Sound
    <2>4. row[n].func = start.code /\ row[n].bp = Top.bp
      BY <1>1, <1>3, <1>4, TopFacts DEF Describes
    <2>5. QED
      BY <1>5, <2>1, <2>3, <2>4 DEF Describes
  <1>7. entries' = [entries EXCEPT ![c] = row] /\ count' = [count EXCEPT ![c] = r.entry]
    BY <1>1, TopFacts DEF IInv, TypeOK
  <1> HIDE DEF start, row, r
  <1>8. r.pc.at \in 1 .. Len(Code[r.pc.code])
    BY <1>3, <1>5
  <1>9. QED
    BY <1>1, <1>4, <1>5, <1>6, <1>7, <1>8, TopMoves

(* A jump: pc is a local of swampRun, no entry is written.                  *)
LEMMA Jumps ==
  ASSUME IInv, Jump
  PROVE  IInv'
  <1>1. PICK at \in Instr.to : TopBecomes([Top EXCEPT !.pc.at = at])
    BY DEF Jump
  <1> DEFINE r == [Top EXCEPT !.pc.at = at]
  <1>2. Running /\ UNCHANGED <<live, entries, count, hosts, status>> /\ runs' = [runs EXCEPT ![Len(runs)] = r]
    BY <1>1 DEF Jump, TopBecomes
  <1>3. at \in Top.pc.at + 1 .. Len(Code[Top.pc.code])
    BY <1>1, <1>2, TopFacts DEF Jump, IsInstruction
  <1>4. Top.pc.at \in Nat \ {0} /\ at \in Nat \ {0} /\ at \in 1 .. Len(Code[Top.pc.code])
    BY <1>2, <1>3, TopFacts DEF PCs
  <1>5. /\ r \in Activations /\ r.context = Top.context /\ r.entry = Top.entry
        /\ r.pc.code = Top.pc.code /\ r.pc.at = at /\ r.bp = Top.bp
    BY <1>2, <1>4, TopFacts DEF Activations, PCs
  <1> HIDE DEF r
  <1>6. Describes(entries[Top.context], r)
    BY <1>2, <1>5, TopFacts DEF Describes
  <1>7. entries' = [entries EXCEPT ![r.context] = entries[Top.context]] /\ count' = [count EXCEPT ![r.context] = r.entry]
    BY <1>2, <1>5, TopFacts DEF IInv, TypeOK
  <1>8. r.pc.at \in 1 .. Len(Code[r.pc.code])
    BY <1>4, <1>5
  <1>9. QED
    BY <1>2, <1>5, <1>6, <1>7, <1>8, TopFacts, TopMoves

(* The entry of the running function, brought up to date with a program     *)
(* counter of that function.                                                *)
LEMMA Rewritten ==
  ASSUME IInv, Running, NEW pc \in PCs, pc.code = Top.pc.code, pc.at \in 1 .. Len(Code[pc.code]),
         NEW row, row = [entries[Top.context] EXCEPT ![Top.entry] = Entry(Top.pc.code, pc, Top.bp)]
  PROVE  /\ row \in Entries /\ row[Top.entry] = Entry(Top.pc.code, pc, Top.bp)
         /\ \A k \in 0 .. Top.entry : Sound(row, k)
  <1> DEFINE n == Top.entry
             e == Entry(Top.pc.code, pc, Top.bp)
             old == entries[Top.context]
  <1>1. /\ old \in Entries /\ n \in 0 .. MaxCount - 1 /\ Describes(old, Top)
        /\ Top.pc \in PCs /\ Top.bp \in Nat
    BY TopFacts
  <1>2. e \in [func : Internal, pc : PCs, bp : Nat] /\ e.func = Top.pc.code /\ e.pc = pc /\ e.bp = Top.bp
    BY <1>1 DEF Entry, PCs
  <1>3. Top.bp <= n * MaxFrame
    <2>1. n \in 0 .. n
      BY <1>1, BoundsAssumption
    <2>2. QED
      BY <1>1, <2>1 DEF Describes, Sound
  <1> HIDE DEF n, e, old
  <1>4. row = [old EXCEPT ![n] = e]
    BY DEF n, e, old
  <1>5. row \in Entries /\ row[n] = e /\ \A k \in 0 .. MaxCount - 1 : k # n => row[k] = old[k]
    <2> DEFINE K == 0 .. MaxCount - 1
               V == [func : Internal, pc : PCs, bp : Nat] \cup {Unwritten}
    <2>1. Entries = [K -> V] /\ e \in V /\ n \in K /\ old \in [K -> V]
      BY <1>1, <1>2 DEF Entries
    <2> HIDE DEF K, V
    <2>2. row \in [K -> V] /\ row[n] = e /\ \A k \in K : k # n => row[k] = old[k]
      BY <1>4, <2>1
    <2>3. QED
      BY <2>1, <2>2 DEF K
  <1>6. ASSUME NEW k \in 0 .. n PROVE Sound(row, k)
    <2>1. CASE k = n
      BY <2>1, <1>1, <1>2, <1>3, <1>5 DEF Sound, PCs
    <2>2. CASE k # n
      <3>1. k \in 0 .. MaxCount - 1 /\ Sound(old, k)
        BY <1>1, BoundsAssumption DEF Describes, n
      <3>2. QED
        BY <2>2, <3>1, <1>5 DEF Sound
    <2>3. QED
      BY <2>1, <2>2
  <1>7. QED
    BY <1>5, <1>6 DEF n, e

(* Behind a call there is an instruction to come back to.                   *)
LEMMA AfterCalls ==
  ASSUME IInv, Running, Instr.op \in {"call", "sized"}
  PROVE  /\ After \in PCs /\ After.code = Top.pc.code /\ After.at = Top.pc.at + 1
         /\ After.at \in 1 .. Len(Code[After.code])
         /\ Instr.base \in 0 .. MaxFrame
  <1>1. Top.pc.at + 1 .. Len(Code[Top.pc.code]) # {} /\ Instr.base \in 0 .. MaxFrame
    BY TopFacts DEF IsInstruction
  <1>2. Top.pc.at \in Nat \ {0} /\ Top.pc.at + 1 <= Len(Code[Top.pc.code]) /\ Len(Code[Top.pc.code]) \in Nat
    BY <1>1, TopFacts DEF PCs
  <1>3. After \in PCs /\ After.code = Top.pc.code /\ After.at = Top.pc.at + 1
    BY <1>2, TopFacts DEF After, PCs
  <1>4. QED
    BY <1>1, <1>2, <1>3

(* Saving where to come back to, as an update of the context's row.         *)
LEMMA SavedRow ==
  ASSUME IInv, Running
  PROVE  /\ Saved(Top.context) = [entries EXCEPT ![Top.context] =
              [entries[Top.context] EXCEPT ![Top.entry] = Entry(Top.pc.code, After, Top.bp)]]
         /\ Positioned = [entries EXCEPT ![Top.context] =
              [entries[Top.context] EXCEPT ![Top.entry] = Entry(Top.pc.code, Top.pc, Top.bp)]]
  <1> DEFINE c == Top.context
             n == Top.entry
             e == entries[c][n]
  <1>1. /\ entries \in [Contexts -> Entries] /\ c \in Contexts /\ n \in 0 .. MaxCount - 1
        /\ entries[c] \in Entries /\ Sound(entries[c], n)
        /\ e.func = Top.pc.code /\ e.bp = Top.bp
    BY TopFacts, BoundsAssumption DEF IInv, TypeOK, Describes
  <1>2. e \in [func : Internal, pc : PCs, bp : Nat]
    <2>1. e # Unwritten
      BY <1>1, FunctionsAssumption DEF Sound, Unwritten, Entry, Functions
    <2>2. QED
      BY <1>1, <2>1 DEF Entries
  <1>3. [e EXCEPT !.pc = Top.pc] = Entry(Top.pc.code, Top.pc, Top.bp)
    BY <1>1, <1>2 DEF Entry
  <1>4. Positioned = [entries EXCEPT ![c] = [entries[c] EXCEPT ![n] = [e EXCEPT !.pc = Top.pc]]]
    BY <1>1 DEF Positioned
  <1>5. Saved(c) = [entries EXCEPT ![c] = [entries[c] EXCEPT ![n] = Entry(e.func, After, Top.bp)]]
    BY <1>1 DEF Saved
  <1>6. QED
    BY <1>1, <1>3, <1>4, <1>5

LEMMA Calls ==
  ASSUME IInv, NEW f \in Internal, Call(f)
  PROVE  IInv'
  <1> DEFINE c == Top.context
             n == Top.entry
             k == n + 1
             bp == Top.bp + Instr.base
             saved == [entries[c] EXCEPT ![n] = Entry(Top.pc.code, After, Top.bp)]
  <1>1. /\ Running /\ Instr.op = "call" /\ count[c] = n /\ c \in Contexts /\ n \in 0 .. MaxCount - 1
        /\ Instr.base \in 0 .. MaxFrame /\ Top.bp \in Nat /\ Top.pc.code \in Internal
        /\ Describes(entries[c], Top)
    <2>1. Running /\ Instr.op = "call"
      BY DEF Call
    <2>2. Top.pc.code \in Internal
      BY <2>1, TopFacts DEF PCs
    <2>3. QED
      BY <2>1, <2>2, TopFacts, AfterCalls
  <1>2. count' = [count EXCEPT ![c] = k] /\ Saved(c) = [entries EXCEPT ![c] = saved]
    BY <1>1, SavedRow DEF Call
  <1>3. saved \in Entries /\ saved[n] = Entry(Top.pc.code, After, Top.bp) /\ \A i \in 0 .. n : Sound(saved, i)
    BY <1>1, AfterCalls, Rewritten
  <1>4. Top.bp <= n * MaxFrame
    <2>1. n \in 0 .. n /\ entries[c][n].bp = Top.bp
      BY <1>1, BoundsAssumption DEF Describes
    <2>2. QED
      BY <1>1, <2>1 DEF Describes, Sound
  <1>5. CASE k = MaxCount
    <2>1. entries' = [entries EXCEPT ![c] = saved] /\ status' \in {"trap", "fault"} /\ UNCHANGED <<live, runs, hosts>>
      BY <1>1, <1>2, <1>5 DEF Call, IsFull
    <2>2. k \in 0 .. MaxCount
      BY <1>1, BoundsAssumption
    <2> HIDE DEF k, saved
    <2>3. TypeOK'
      BY <1>1, <1>2, <1>3, <2>1, <2>2 DEF IInv, TypeOK
    <2>4. Shape' /\ Ownership'
      BY <2>1 DEF IInv, Shape, Ownership
    <2>5. Described'
      <3>1. ASSUME NEW i \in 1 .. Len(runs) PROVE Describes(entries'[runs[i].context], runs[i])
        <4>1. CASE runs[i].context = c
          <5>1. i = Len(runs)
            <6>1. Len(runs) \in 1 .. Len(runs)
              BY <1>1, Elements DEF IInv, Running
            <6>2. QED
              BY <4>1, <6>1, DistinctContexts DEF IInv, Top
          <5>2. runs[i] = Top /\ entries'[c] = saved
            BY <5>1, <1>1, <2>1 DEF Top, IInv, TypeOK
          <5>3. QED
            BY <5>2, <1>1, <1>3 DEF Describes, Entry
        <4>2. CASE runs[i].context # c
          <5>1. entries'[runs[i].context] = entries[runs[i].context]
            BY <4>2, <2>1, Elements DEF IInv, TypeOK, Activations
          <5>2. QED
            BY <5>1 DEF IInv, Described
        <4>3. QED
          BY <4>1, <4>2
      <3>2. QED
        BY <2>1, <3>1 DEF Described, Describes, Sound
    <2>6. AtTheirCalls'
      <3>1. ASSUME NEW i \in 1 .. Len(hosts), hosts[i].saves
            PROVE  Positioned_(entries'[runs[i].context], runs[i])
        <4>1. i \in 1 .. Len(runs) /\ i # Len(runs) /\ Len(runs) \in 1 .. Len(runs)
          BY <1>1, Elements DEF IInv, Running, Shape
        <4>2. runs[i].context # c
          BY <4>1, DistinctContexts DEF IInv, Top
        <4>3. entries'[runs[i].context] = entries[runs[i].context]
          BY <4>1, <4>2, <2>1, Elements DEF IInv, TypeOK, Activations
        <4>4. QED
          BY <3>1, <4>3 DEF IInv, AtTheirCalls
      <3>2. QED
        BY <2>1, <3>1 DEF AtTheirCalls, Positioned_
    <2>7. QED
      BY <2>1, <2>3, <2>4, <2>5, <2>6 DEF IInv
  <1>6. CASE k # MaxCount
    <2> DEFINE r == Run(c, k, Start(f), bp)
               row == [saved EXCEPT ![k] = Entry(f, Start(f), bp)]
    <2>1. /\ runs' = [runs EXCEPT ![Len(runs)] = r] /\ UNCHANGED <<live, hosts, status>>
          /\ entries' = [Saved(c) EXCEPT ![c][k] = Entry(f, Start(f), bp)]
      BY <1>1, <1>6 DEF Call, TopBecomes, IsFull
    <2>2. k \in 0 .. MaxCount - 1 /\ bp \in Nat /\ bp <= k * MaxFrame
      BY <1>1, <1>4, <1>6, BoundsAssumption
    <2>3. /\ Start(f) \in PCs /\ Start(f).code = f /\ Start(f).at = 1
          /\ 1 \in 1 .. Len(Code[f])
      BY CodeAssumption DEF Start, PCs
    <2>4. entries' = [entries EXCEPT ![c] = row]
      <3> HIDE DEF saved
      <3>1. QED
        BY <2>1, <1>1, <1>2 DEF IInv, TypeOK
    <2>5. r = [context |-> c, entry |-> k, pc |-> Start(f), bp |-> bp] /\ r \in Activations
      BY <1>1, <2>2, <2>3 DEF Run, Activations
    <2>6. LET e == Entry(f, Start(f), bp)
          IN e \in [func : Internal, pc : PCs, bp : Nat] /\ e.func = f /\ e.pc = Start(f) /\ e.bp = bp
      BY <2>2, <2>3 DEF Entry
    <2> HIDE DEF k, saved, bp
    <2>7. /\ row \in Entries /\ row[k] = Entry(f, Start(f), bp)
          /\ \A i \in 0 .. MaxCount - 1 : i # k => row[i] = saved[i]
      <3> DEFINE K == 0 .. MaxCount - 1
                 V == [func : Internal, pc : PCs, bp : Nat] \cup {Unwritten}
                 e == Entry(f, Start(f), bp)
      <3>1. Entries = [K -> V] /\ e \in V /\ k \in K /\ saved \in [K -> V]
        BY <1>3, <2>2, <2>6 DEF Entries
      <3> HIDE DEF K, V, e
      <3>2. row = [saved EXCEPT ![k] = e]
        BY DEF e
      <3> HIDE DEF row
      <3>3. row \in [K -> V] /\ row[k] = e /\ \A i \in K : i # k => row[i] = saved[i]
        BY <3>1, <3>2
      <3>4. QED
        BY <3>1, <3>3 DEF K, e
    <2> HIDE DEF row, r
    <2>8. ASSUME NEW i \in 0 .. k PROVE Sound(row, i)
      <3>1. CASE i = k
        <4>1. row[k].func = f /\ row[k].pc = Start(f) /\ row[k].bp = bp
          BY <2>6, <2>7
        <4>2. Start(f).at \in 1 .. Len(Code[f])
          BY <2>3
        <4>3. Sound(row, k)
          BY <4>1, <4>2, <2>2, <2>3 DEF Sound
        <4>4. QED
          BY <3>1, <4>3
      <3>2. CASE i # k
        <4>1. i \in 0 .. n /\ i \in 0 .. MaxCount - 1
          BY <3>2, <1>1, <2>2, BoundsAssumption DEF k
        <4>2. QED
          BY <3>2, <4>1, <1>3, <2>7 DEF Sound
      <3>3. QED
        BY <3>1, <3>2
    <2>9. Describes(row, r)
      <3>1. r.entry = k /\ r.pc.code = f /\ r.bp = bp
        BY <2>3, <2>5
      <3>2. QED
        BY <3>1, <2>6, <2>7, <2>8 DEF Describes
    <2>10. r.context = c /\ r.entry = k /\ r.pc.at \in 1 .. Len(Code[r.pc.code])
      BY <2>3, <2>5
    <2>11. QED
      BY <1>1, <1>2, <2>1, <2>4, <2>5, <2>7, <2>9, <2>10, TopMoves
  <1>7. QED
    BY <1>5, <1>6

(* The step into an external function, from an entry that was or was not    *)
(* given the program counter.                                               *)
LEMMA Enters ==
  ASSUME IInv, Running, Instr.op \in {"call", "sized"}, NEW e \in External, NEW fn \in ArgumentsOf(e),
         NEW saves \in BOOLEAN, Enter(e, fn, saves),
         entries' = IF saves THEN Positioned ELSE entries
  PROVE  IInv'
  <1> DEFINE c == Top.context
             n == Top.entry
             r == [Top EXCEPT !.pc = After]
             old == entries[c]
             new == [old EXCEPT ![n] = Entry(Top.pc.code, Top.pc, Top.bp)]
             row == IF saves THEN new ELSE old
             h == Hosted(e, NoContext, fn, "none", saves)
  <1>1. /\ runs' = [runs EXCEPT ![Len(runs)] = r] /\ hosts' = Append(hosts, h)
        /\ UNCHANGED <<live, count, status>>
    BY DEF Enter, TopBecomes
  <1>2. fn \in Functions \cup {NoFunction}
    BY FunctionsAssumption DEF ArgumentsOf
  <1>3. h \in HostActivations /\ h.own = NoContext /\ h.saves = saves
    BY <1>2 DEF Hosted, HostActivations
  <1>4. /\ Top \in Activations /\ c \in Contexts /\ old \in Entries /\ Describes(old, Top)
        /\ Top.pc \in PCs /\ Top.pc.at \in 1 .. Len(Code[Top.pc.code]) /\ n \in 0 .. MaxCount - 1
        /\ count[c] = n
    BY TopFacts
  <1>5. /\ After \in PCs /\ After.code = Top.pc.code /\ After.at \in 1 .. Len(Code[After.code])
        /\ After = [Top.pc EXCEPT !.at = @ + 1]
    BY AfterCalls DEF After
  <1>6. r \in Activations /\ r.context = c /\ r.entry = n /\ r.pc = After /\ r.bp = Top.bp
    <2>1. Top \in [context : Contexts, entry : 0 .. MaxCount - 1, pc : PCs, bp : Nat]
      BY <1>4 DEF Activations
    <2>2. QED
      BY <2>1, <1>5 DEF Activations
  <1>7. /\ new \in Entries /\ new[n] = Entry(Top.pc.code, Top.pc, Top.bp)
        /\ \A i \in 0 .. n : Sound(new, i)
    <2>1. \A i \in 0 .. n : Sound(new, i)
      BY <1>4, Rewritten
    <2>2. QED
      BY <2>1, <1>4, Rewritten
  <1>8. entries' = [entries EXCEPT ![c] = row]
    <2>1. CASE saves
      BY <2>1, SavedRow
    <2>2. CASE ~saves
      BY <2>2, <1>4 DEF IInv, TypeOK
    <2>3. QED
      BY <2>1, <2>2
  <1>9. count' = [count EXCEPT ![c] = n]
    BY <1>1, <1>4 DEF IInv, TypeOK
  <1> HIDE DEF r, old, new, h
  <1>10. row \in Entries /\ Describes(row, r)
    <2>1. CASE saves
      <3>1. new[n].func = Top.pc.code /\ new[n].bp = Top.bp /\ row = new
        BY <2>1, <1>7 DEF Entry
      <3> HIDE DEF row
      <3>2. QED
        BY <3>1, <1>5, <1>6, <1>7 DEF Describes
    <2>2. CASE ~saves
      <3>1. row = old
        BY <2>2
      <3> HIDE DEF row
      <3>2. QED
        BY <3>1, <1>4, <1>5, <1>6 DEF Describes
    <2>3. QED
      BY <2>1, <2>2
  <1>11. saves => Positioned_(row, r)
    <2>1. new[n].pc = Top.pc
      BY <1>7 DEF Entry
    <2>2. QED
      BY <2>1, <1>5, <1>6 DEF Positioned_
  <1>12. r.pc.at \in 1 .. Len(Code[r.pc.code])
    BY <1>5, <1>6
  <1> HIDE DEF row
  <1>13. QED
    BY <1>1, <1>3, <1>6, <1>8, <1>9, <1>10, <1>11, <1>12, TopMoves

-----------------------------------------------------------------------------
LEMMA InitIInv == Init => IInv
  <1> SUFFICES ASSUME Init PROVE IInv
    OBVIOUS
  <1>1. NoEntries \in Entries /\ 0 \in 0 .. MaxCount
    BY BoundsAssumption DEF NoEntries, Entries
  <1>2. runs = << >> /\ hosts = << >> /\ live = {} /\ Len(runs) = 0 /\ Len(hosts) = 0
    BY DEF Init
  <1>3. TypeOK
    BY <1>1 DEF Init, TypeOK
  <1>4. QED
    BY <1>2, <1>3 DEF IInv, Shape, Ownership, Described, AtTheirCalls, Counted

LEMMA NextIInv == IInv /\ [Next]_vars => IInv'
  <1> SUFFICES ASSUME IInv, [Next]_vars PROVE IInv'
    OBVIOUS
  <1>1. CASE InitContext \/ DestroyContext
    BY <1>1, ContextComesOrGoes
  <1>2. ASSUME NEW f \in Internal, NEW parametersAgree \in BOOLEAN, NEW sizesAgree \in BOOLEAN,
               HostRuns(f, parametersAgree, sizesAgree)
        PROVE  IInv'
    BY <1>2, HostStarts
  <1>3. CASE ReturnFromRun
    BY <1>3, RunReturns
  <1>4. CASE Return
    BY <1>4, ReturnsInRun
  <1>5. CASE TailCall
    BY <1>5, TailCalls
  <1>6. CASE Jump
    BY <1>6, Jumps
  <1>7. CASE NoCase \/ CallClosure
    BY <1>7, Stops DEF NoCase, CallClosure
  <1>8. ASSUME NEW f \in Internal, Call(f) PROVE IInv'
    BY <1>8, Calls
  <1>9. ASSUME NEW e \in External, NEW fn \in ArgumentsOf(e), CallExternal(e, fn) PROVE IInv'
    <2>1. CASE e \in Strange
      BY <1>9, <2>1, Stops DEF CallExternal
    <2>2. CASE e \notin Strange
      BY <1>9, <2>2, Enters DEF CallExternal
    <2>3. QED
      BY <2>1, <2>2
  <1>10. ASSUME NEW e \in External, NEW fn \in ArgumentsOf(e), CallExternalWithSizes(e, fn) PROVE IInv'
    <2>1. CASE e \in Strange
      BY <1>10, <2>1, Stops DEF CallExternalWithSizes
    <2>2. CASE e \notin Strange
      BY <1>10, <2>2, Enters DEF CallExternalWithSizes
    <2>3. QED
      BY <2>1, <2>2
  <1>11. ASSUME NEW c \in Contexts, CreateTemp(c) PROVE IInv'
    <2>1. CASE Own(c)
      BY <1>11, <2>1, TempIsCreated
    <2>2. CASE Stop("trap")
      BY <2>2, Stops
    <2>3. QED
      BY <1>11, <2>1, <2>2 DEF CreateTemp
  <1>12. CASE RunArgument
    <2>1. CASE Prepared(Host.fn) \in Internal
      BY <1>12, <2>1, ExternalStarts
    <2>2. CASE Prepared(Host.fn) \notin Internal
      BY <1>12, <2>2, Stops DEF RunArgument
    <2>3. QED
      BY <2>1, <2>2
  <1>13. CASE ReturnExternal
    BY <1>13, ExternalReturns
  <1>14. CASE UNCHANGED vars
    <2>1. status' = status /\ UNCHANGED <<live, entries, count, runs, hosts>>
      BY <1>14 DEF vars
    <2>2. TypeOK'
      BY <2>1 DEF IInv, TypeOK
    <2>3. QED
      BY <2>1, <2>2, StacksStand DEF IInv
  <1>15. QED
    BY <1>1, <1>2, <1>3, <1>4, <1>5, <1>6, <1>7, <1>8, <1>9, <1>10, <1>11, <1>12, <1>13, <1>14 DEF Next

LEMMA Inductive == Spec => []IInv
  BY InitIInv, NextIInv, PTL DEF Spec

(* What the interpreter's state can hold, for every program.                *)
THEOREM TypeCorrect == Spec => []TypeOK
  <1>1. IInv => TypeOK
    BY DEF IInv
  <1>2. QED
    BY <1>1, Inductive, PTL

(* The indices the properties use.                                          *)
LEMMA Domains == IInv => /\ DOMAIN runs = 1 .. Len(runs) /\ DOMAIN hosts = 1 .. Len(hosts)
                         /\ Len(runs) \in Nat /\ Len(hosts) \in Nat
  BY DEF IInv, TypeOK

(* At every moment in which the process runs, the entries lib/debug.c and   *)
(* lib/debug_variables.c walk were written, for every program.              *)
THEOREM DebuggerReadsEntries == Spec => []EntriesAreReadable
  <1>1. IInv => EntriesAreReadable
    <2> SUFFICES ASSUME IInv, status = "running", NEW i \in 1 .. Len(runs)
                 PROVE  LET r == runs[i]
                        IN /\ count[r.context] = r.entry
                           /\ \A k \in 0 .. r.entry : Readable(r.context, k)
                           /\ entries[r.context][r.entry].func = r.pc.code
                           /\ entries[r.context][r.entry].bp = r.bp
      BY Domains DEF EntriesAreReadable
    <2>1. Describes(entries[runs[i].context], runs[i]) /\ count[runs[i].context] = runs[i].entry
      BY DEF IInv, Described, Counted
    <2>2. QED
      BY <2>1 DEF Describes, Sound, Readable
  <1>2. QED
    BY <1>1, Inductive, PTL

(* No two runs share a context, no run uses a freed one, and what is not in *)
(* use has an empty call stack, however deep host and program nest.         *)
THEOREM OneRunPerContext == Spec => []ContextsAreOwned
  <1>1. IInv => ContextsAreOwned
    <2> SUFFICES ASSUME IInv, status = "running"
                 PROVE  /\ live \ {Root} = Owned /\ InUse \subseteq live
                        /\ \A i, j \in DOMAIN runs : runs[i].context = runs[j].context => i = j
                        /\ \A c \in live \ InUse : count[c] = 0
      BY DEF ContextsAreOwned
    <2>1. InUse \subseteq live
      BY Domains, ContextsAreLive DEF IInv, InUse
    <2>2. \A i, j \in DOMAIN runs : runs[i].context = runs[j].context => i = j
      BY Domains, DistinctContexts DEF IInv
    <2>3. \A c \in live \ InUse : count[c] = 0
      BY Domains DEF IInv, Counted, InUse
    <2>4. \A c \in live : c # NoContext
      BY ContextsAssumption DEF IInv, TypeOK
    <2>5. live \ {Root} = Owned
      BY <2>4, Domains DEF IInv, Ownership, Owned
    <2>6. QED
      BY <2>1, <2>2, <2>3, <2>5
  <1>2. QED
    BY <1>1, Inductive, PTL

(* The location core/debug.c logs is that of the call, after any nested run. *)
THEOREM LocationIsOfTheCall == Spec => []PositionIsOfTheCall
  <1>1. IInv => PositionIsOfTheCall
    BY Domains DEF IInv, AtTheirCalls, Positioned_, PositionIsOfTheCall
  <1>2. QED
    BY <1>1, Inductive, PTL

(* The data stack of a context is bounded by the depth of its calls.        *)
THEOREM FramesAreBounded == Spec => []BoundedByDepth
  <1>1. IInv => BoundedByDepth
    <2> SUFFICES ASSUME IInv, NEW i \in 1 .. Len(runs) PROVE runs[i].bp <= runs[i].entry * MaxFrame
      BY Domains DEF BoundedByDepth
    <2>1. runs[i].entry \in 0 .. runs[i].entry
      BY Elements DEF IInv, Activations
    <2>2. Describes(entries[runs[i].context], runs[i])
      BY DEF IInv, Described
    <2>3. QED
      BY <2>1, <2>2 DEF Describes, Sound
  <1>2. QED
    BY <1>1, Inductive, PTL

-----------------------------------------------------------------------------
(***************************************************************************)
(* The proof that the interpreter implements subroutines: what Machine     *)
(* does with call stack entries, with the copies of pc and bp in swampRun  *)
(* and with the contexts of nested runs is, for every program, a step of   *)
(* Subroutines or none.                                                    *)
(***************************************************************************)
FrameSet == [pc : PCs, bp : Nat]
ActiveFrame(r) == [pc |-> r.pc, bp |-> r.bp]

\* FramesOf and the refinement mapping, as functions of the state.
FramesIn(row, r) ==
  [k \in 1 .. r.entry + 1 |->
     IF k = r.entry + 1 THEN ActiveFrame(r) ELSE [pc |-> row[k - 1].pc, bp |-> row[k - 1].bp]]
StackOf(rows, rs) == [i \in DOMAIN rs |-> FramesIn(rows[rs[i].context], rs[i])]
Stack == [i \in DOMAIN runs |-> FramesOf(runs[i])]
GoingOn(frames, at) == [frames EXCEPT ![Len(frames)].pc.at = at]

-----------------------------------------------------------------------------
(* The frames of a run that its entries describe.                           *)
LEMMA FramesOfARun ==
  ASSUME NEW row, NEW r \in Activations, Describes(row, r)
  PROVE  /\ FramesIn(row, r) \in Seq(FrameSet)
         /\ Len(FramesIn(row, r)) = r.entry + 1
         /\ FramesIn(row, r)[r.entry + 1] = ActiveFrame(r)
  <1> DEFINE m == r.entry + 1
             F == FramesIn(row, r)
  <1>1. r.entry \in Nat /\ r.pc \in PCs /\ r.bp \in Nat /\ m \in Nat \ {0}
    BY BoundsAssumption DEF Activations
  <1>2. ASSUME NEW k \in 1 .. m PROVE F[k] \in FrameSet
    <2>1. CASE k = m
      BY <1>1, <2>1 DEF FramesIn, FrameSet, ActiveFrame
    <2>2. CASE k # m
      <3>1. k - 1 \in 0 .. r.entry
        BY <1>1, <2>2
      <3>2. row[k - 1].pc \in PCs /\ row[k - 1].bp \in Nat
        BY <3>1 DEF Describes, Sound
      <3>3. F[k] = [pc |-> row[k - 1].pc, bp |-> row[k - 1].bp]
        BY <1>1, <2>2 DEF FramesIn
      <3>4. QED
        BY <3>2, <3>3 DEF FrameSet
    <2>3. QED
      BY <2>1, <2>2
  <1>3. F \in [1 .. m -> FrameSet]
    BY <1>2 DEF FramesIn
  <1>4. F[m] = ActiveFrame(r)
    BY <1>1 DEF FramesIn
  <1>5. F \in Seq(FrameSet) /\ Len(F) = m
    <2> HIDE DEF F, m
    <2>1. F \in Seq(FrameSet)
      BY <1>1, <1>3, SeqDef
    <2>2. QED
      BY <1>1, <1>3, <2>1, LenProperties
  <1>6. QED
    BY <1>4, <1>5

(* The mapped stack has the frames of every run.                            *)
LEMMA StackOfRuns ==
  ASSUME NEW rs \in Seq(Activations), NEW rows,
         \A i \in 1 .. Len(rs) : Describes(rows[rs[i].context], rs[i])
  PROVE  /\ StackOf(rows, rs) \in Seq(Seq(FrameSet))
         /\ Len(StackOf(rows, rs)) = Len(rs) /\ Len(rs) \in Nat
         /\ \A i \in 1 .. Len(rs) : /\ rs[i] \in Activations
                                    /\ StackOf(rows, rs)[i] = FramesIn(rows[rs[i].context], rs[i])
  <1> DEFINE n == Len(rs)
             S == StackOf(rows, rs)
  <1>1. n \in Nat /\ DOMAIN rs = 1 .. n /\ \A i \in 1 .. n : rs[i] \in Activations
    BY LenProperties, ElementOfSeq
  <1>2. \A i \in 1 .. n : S[i] = FramesIn(rows[rs[i].context], rs[i])
    BY <1>1 DEF StackOf
  <1>3. \A i \in 1 .. n : S[i] \in Seq(FrameSet)
    BY <1>1, <1>2, FramesOfARun
  <1>4. S \in [1 .. n -> Seq(FrameSet)]
    BY <1>1, <1>3 DEF StackOf
  <1>5. S \in Seq(Seq(FrameSet)) /\ Len(S) = n
    <2> HIDE DEF n, S
    <2>1. S \in Seq(Seq(FrameSet))
      BY <1>1, <1>4, SeqDef
    <2>2. QED
      BY <1>1, <1>4, <2>1, LenProperties
  <1>6. QED
    BY <1>1, <1>2, <1>5

(* The mapping of a state that satisfies the invariant.                     *)
LEMMA StackFacts ==
  ASSUME IInv
  PROVE  /\ Stack = StackOf(entries, runs) /\ Stack \in Seq(Seq(FrameSet)) /\ Len(Stack) = Len(runs)
         /\ \A i \in 1 .. Len(runs) : Stack[i] = FramesIn(entries[runs[i].context], runs[i])
  <1>1. Stack = StackOf(entries, runs)
    BY DEF Stack, StackOf, FramesOf, FramesIn, ActiveFrame
  <1>2. runs \in Seq(Activations)
    BY DEF IInv, TypeOK
  <1>3. \A i \in 1 .. Len(runs) : Describes(entries[runs[i].context], runs[i])
    BY DEF IInv, Described
  <1>4. QED
    BY <1>1, <1>2, <1>3, StackOfRuns

LEMMA StackFactsNext ==
  ASSUME IInv'
  PROVE  /\ Stack' = StackOf(entries', runs') /\ Stack' \in Seq(Seq(FrameSet)) /\ Len(Stack') = Len(runs')
         /\ \A i \in 1 .. Len(runs') : Stack'[i] = FramesIn(entries'[runs'[i].context], runs'[i])
  <1>1. Stack' = StackOf(entries', runs')
    BY DEF Stack, StackOf, FramesOf, FramesIn, ActiveFrame
  <1>2. runs' \in Seq(Activations)
    BY DEF IInv, TypeOK
  <1>3. \A i \in 1 .. Len(runs') : Describes(entries'[runs'[i].context], runs'[i])
    BY DEF IInv, Described, Describes, Sound
  <1>4. QED
    BY <1>1, <1>2, <1>3, StackOfRuns

(* Stacks that agree in every frame list are the same stack.                *)
LEMMA SameStack ==
  ASSUME IInv, IInv', Len(runs') = Len(runs), \A i \in 1 .. Len(runs) : Stack'[i] = Stack[i]
  PROVE  Stack' = Stack
  <1> DEFINE m == Len(runs)
             S == Stack
             T == Stack'
  <1>1. S \in Seq(Seq(FrameSet)) /\ Len(S) = m
    BY StackFacts
  <1>2. T \in Seq(Seq(FrameSet)) /\ Len(T) = Len(runs')
    BY StackFactsNext
  <1>3. Len(S) = Len(T) /\ \A i \in 1 .. Len(S) : S[i] = T[i]
    BY <1>1, <1>2
  <1> HIDE DEF S, T, m
  <1>4. S = T
    BY <1>1, <1>2, <1>3, SeqEqual
  <1>5. QED
    BY <1>4 DEF S, T

(* Runs that are left alone keep their frames.                              *)
LEMMA FramesKept ==
  ASSUME IInv, IInv', NEW m \in 0 .. Len(runs), m <= Len(runs'),
         \A i \in 1 .. m : /\ runs'[i] = runs[i]
                           /\ entries'[runs[i].context] = entries[runs[i].context]
  PROVE  \A i \in 1 .. m : Stack'[i] = Stack[i]
  <1>1. Len(runs) \in Nat /\ Len(runs') \in Nat
    BY DEF IInv, TypeOK
  <1>2. ASSUME NEW i \in 1 .. m PROVE Stack'[i] = Stack[i]
    <2>1. i \in 1 .. Len(runs) /\ i \in 1 .. Len(runs')
      BY <1>1
    <2>2. Stack[i] = FramesIn(entries[runs[i].context], runs[i])
      BY <2>1, StackFacts
    <2>3. Stack'[i] = FramesIn(entries'[runs'[i].context], runs'[i])
      BY <2>1, StackFactsNext
    <2>4. QED
      BY <2>2, <2>3
  <1>3. QED
    BY <1>2

(* The frames of the running function's run.                                *)
LEMMA TopFrames ==
  ASSUME IInv, Running
  PROVE  /\ Len(runs) \in Nat \ {0} /\ Len(hosts) = Len(runs) - 1 /\ Top = runs[Len(runs)]
         /\ Len(Stack) = Len(runs) /\ Len(hosts) # Len(Stack)
         /\ Stack[Len(Stack)] = FramesIn(entries[Top.context], Top)
         /\ FramesIn(entries[Top.context], Top) \in Seq(FrameSet)
         /\ Len(FramesIn(entries[Top.context], Top)) = Top.entry + 1
         /\ FramesIn(entries[Top.context], Top)[Top.entry + 1] = ActiveFrame(Top)
         /\ \A i \in 1 .. Len(runs) - 1 : runs[i].context # Top.context /\ runs[i].context \in Contexts
  <1>1. Len(runs) \in Nat \ {0} /\ Len(hosts) = Len(runs) - 1
    BY Elements DEF IInv, Running, Shape
  <1>2. Len(runs) \in 1 .. Len(runs) /\ Top = runs[Len(runs)]
    BY <1>1 DEF Top
  <1>3. Len(Stack) = Len(runs) /\ Stack[Len(Stack)] = FramesIn(entries[Top.context], Top)
    BY <1>2, StackFacts
  <1>4. ASSUME NEW i \in 1 .. Len(runs) - 1
        PROVE  runs[i].context # Top.context /\ runs[i].context \in Contexts
    <2>1. i \in 1 .. Len(runs) /\ i # Len(runs)
      BY <1>1
    <2>2. QED
      BY <2>1, <1>2, DistinctContexts, Elements DEF IInv, Activations
  <1>5. QED
    BY <1>1, <1>2, <1>3, <1>4, TopFacts, FramesOfARun

(* A step of the running function changes the frames of its run only.       *)
LEMMA TopFramesBecome ==
  ASSUME IInv, IInv', Running, NEW r \in Activations, NEW row, r.context = Top.context,
         runs' = [runs EXCEPT ![Len(runs)] = r],
         entries' = [entries EXCEPT ![Top.context] = row]
  PROVE  Stack' = [Stack EXCEPT ![Len(Stack)] = FramesIn(row, r)]
  <1> DEFINE n == Len(runs)
             F == FramesIn(row, r)
  <1>1. n \in Nat \ {0} /\ n \in 1 .. Len(runs) /\ runs \in Seq(Activations) /\ Len(Stack) = n
    BY TopFrames DEF IInv, TypeOK
  <1>2. Len(runs') = n /\ runs'[n] = r /\ \A i \in 1 .. n - 1 : runs'[i] = runs[i]
    BY <1>1, ExceptSeq
  <1>3. /\ entries'[Top.context] = row
        /\ \A i \in 1 .. n - 1 : entries'[runs[i].context] = entries[runs[i].context]
    BY TopFacts, TopFrames DEF IInv, TypeOK
  <1>4. \A i \in 1 .. n - 1 : Stack'[i] = Stack[i]
    <2>1. n - 1 \in 0 .. Len(runs) /\ n - 1 <= Len(runs')
      BY <1>1, <1>2
    <2> DEFINE m == n - 1
    <2>2. m \in 0 .. Len(runs) /\ m <= Len(runs')
      BY <2>1
    <2>3. \A i \in 1 .. m : runs'[i] = runs[i] /\ entries'[runs[i].context] = entries[runs[i].context]
      BY <1>2, <1>3
    <2> HIDE DEF m
    <2>4. \A i \in 1 .. m : Stack'[i] = Stack[i]
      BY <2>2, <2>3, FramesKept
    <2>5. QED
      BY <2>4 DEF m
  <1>5. Stack'[n] = F
    <2>1. n \in 1 .. Len(runs')
      BY <1>1, <1>2
    <2>2. Stack'[n] = FramesIn(entries'[runs'[n].context], runs'[n])
      BY <2>1, StackFactsNext
    <2>3. QED
      BY <2>2, <1>2, <1>3
  <1>6. /\ Stack \in Seq(Seq(FrameSet)) /\ Stack' \in Seq(Seq(FrameSet)) /\ Len(Stack') = n
        /\ F \in Seq(FrameSet)
    <2>1. Stack \in Seq(Seq(FrameSet)) /\ Stack' \in Seq(Seq(FrameSet)) /\ Len(Stack') = n
      BY <1>2, StackFacts, StackFactsNext
    <2>2. QED
      BY <2>1, <1>1, <1>5, ElementOfSeq
  <1> HIDE DEF n, F
  <1>7. /\ [Stack EXCEPT ![n] = F] \in Seq(Seq(FrameSet))
        /\ Len([Stack EXCEPT ![n] = F]) = n
        /\ \A i \in 1 .. n : [Stack EXCEPT ![n] = F][i] = IF i = n THEN F ELSE Stack[i]
    BY <1>1, <1>6, ExceptSeq DEF n
  <1>8. \A i \in 1 .. n : Stack'[i] = [Stack EXCEPT ![n] = F][i]
    BY <1>1, <1>4, <1>5, <1>7
  <1>9. Stack' = [Stack EXCEPT ![n] = F]
    BY <1>1, <1>6, <1>7, <1>8, SeqEqual
  <1>10. QED
    BY <1>1, <1>9 DEF F

(* Only the last frame of a run moves when its entries below stay.          *)
LEMMA LastFrameMoves ==
  ASSUME NEW row, NEW new, NEW r \in Activations, NEW s \in Activations,
         Describes(row, r), s.entry = r.entry, s.bp = r.bp, s.pc.code = r.pc.code,
         \A k \in 0 .. r.entry - 1 : new[k] = row[k]
  PROVE  FramesIn(new, s) = GoingOn(FramesIn(row, r), s.pc.at)
  <1> DEFINE m == r.entry + 1
             F == FramesIn(row, r)
  <1>1. /\ r.entry \in Nat /\ m \in Nat \ {0} /\ F \in Seq(FrameSet) /\ Len(F) = m
        /\ F[m] = ActiveFrame(r)
    BY FramesOfARun, BoundsAssumption DEF Activations
  <1>2. [r.pc EXCEPT !.at = s.pc.at] = s.pc
    BY DEF Activations, PCs
  <1>3. [ActiveFrame(r) EXCEPT !.pc.at = s.pc.at] = ActiveFrame(s)
    BY <1>2 DEF ActiveFrame
  <1>4. \A k \in 1 .. m : k # m => new[k - 1] = row[k - 1]
    BY <1>1
  <1>5. FramesIn(new, s) = [k \in 1 .. m |-> IF k = m THEN ActiveFrame(s) ELSE F[k]]
    BY <1>1, <1>4 DEF FramesIn
  <1>6. F = [k \in 1 .. m |-> F[k]]
    BY DEF FramesIn
  <1> HIDE DEF F, m
  <1>7. [F EXCEPT ![Len(F)].pc.at = s.pc.at] = [F EXCEPT ![m] = ActiveFrame(s)]
    BY <1>1, <1>3
  <1>8. [F EXCEPT ![m] = ActiveFrame(s)] = [k \in 1 .. m |-> IF k = m THEN ActiveFrame(s) ELSE F[k]]
    BY <1>6
  <1>9. QED
    BY <1>5, <1>7, <1>8 DEF F, GoingOn

(* A call saves where its caller goes on, and adds a frame.                 *)
LEMMA FrameAdded ==
  ASSUME NEW row, NEW new, NEW r \in Activations, NEW s \in Activations, NEW next \in PCs,
         Describes(row, r), Describes(new, s), s.entry = r.entry + 1,
         next.code = r.pc.code, new[r.entry].pc = next, new[r.entry].bp = r.bp,
         \A k \in 0 .. r.entry - 1 : new[k] = row[k]
  PROVE  FramesIn(new, s) = Append(GoingOn(FramesIn(row, r), next.at), ActiveFrame(s))
  <1> DEFINE m == r.entry + 1
             t == [r EXCEPT !.pc = next]
             F == FramesIn(row, r)
             G == FramesIn(new, t)
             H == FramesIn(new, s)
  <1>1. r.entry \in Nat /\ m \in Nat \ {0} /\ ActiveFrame(s) \in FrameSet
    BY BoundsAssumption DEF Activations, ActiveFrame, FrameSet
  <1>2. /\ t \in Activations /\ t.entry = r.entry /\ t.bp = r.bp /\ t.pc = next
        /\ t.pc.code = r.pc.code /\ t.pc.at = next.at
    BY DEF Activations
  <1>3. G = GoingOn(F, t.pc.at)
    <2> HIDE DEF t
    <2>1. QED
      BY <1>2, LastFrameMoves
  <1>4. /\ H \in Seq(FrameSet) /\ Len(H) = m + 1 /\ H[m + 1] = ActiveFrame(s)
    BY FramesOfARun
  <1>5. G = [k \in 1 .. m |-> H[k]]
    <2>1. ASSUME NEW k \in 1 .. m
          PROVE  (IF k = m THEN ActiveFrame(t) ELSE [pc |-> new[k - 1].pc, bp |-> new[k - 1].bp]) = H[k]
      <3>1. H[k] = [pc |-> new[k - 1].pc, bp |-> new[k - 1].bp]
        BY <1>1 DEF FramesIn
      <3>2. CASE k = m
        BY <1>1, <1>2, <3>1, <3>2 DEF ActiveFrame
      <3>3. QED
        BY <3>1, <3>2
    <2>2. G = [k \in 1 .. m |-> IF k = m THEN ActiveFrame(t) ELSE [pc |-> new[k - 1].pc, bp |-> new[k - 1].bp]]
      BY <1>2 DEF FramesIn
    <2> HIDE DEF t, G, H, m
    <2>3. QED
      BY <2>1, <2>2
  <1> HIDE DEF t, F, G, H
  <1>6. G \in Seq(FrameSet) /\ Len(G) = m
    <2>1. G \in [1 .. m -> FrameSet]
      BY <1>1, <1>4, <1>5, ElementOfSeq
    <2>2. G \in Seq(FrameSet)
      BY <1>1, <2>1, SeqDef
    <2>3. QED
      BY <1>1, <2>1, <2>2, LenProperties
  <1>7. /\ Append(G, ActiveFrame(s)) \in Seq(FrameSet) /\ Len(Append(G, ActiveFrame(s))) = m + 1
        /\ \A k \in 1 .. m : Append(G, ActiveFrame(s))[k] = G[k]
        /\ Append(G, ActiveFrame(s))[m + 1] = ActiveFrame(s)
    BY <1>1, <1>6, AppendProperties
  <1>8. ASSUME NEW k \in 1 .. m + 1 PROVE H[k] = Append(G, ActiveFrame(s))[k]
    <2>1. CASE k = m + 1
      BY <2>1, <1>4, <1>7
    <2>2. CASE k # m + 1
      <3>1. k \in 1 .. m
        BY <1>1, <2>2
      <3>2. QED
        BY <3>1, <1>5, <1>7
    <2>3. QED
      BY <2>1, <2>2
  <1>9. H = Append(G, ActiveFrame(s))
    BY <1>4, <1>7, <1>8, SeqEqual
  <1>10. QED
    BY <1>2, <1>3, <1>9 DEF F, G, H

(* What a run leaves behind, or a frame: all but the last.                  *)
LEMMA IsAllButLast ==
  ASSUME NEW S, NEW s \in Seq(S), NEW t \in Seq(S), Len(s) \in Nat \ {0}, Len(t) = Len(s) - 1,
         \A i \in 1 .. Len(s) - 1 : t[i] = s[i]
  PROVE  t = SubSeq(s, 1, Len(s) - 1)
  <1>1. s # << >>
    OBVIOUS
  <1>2. /\ AllBut(s) \in Seq(S) /\ Len(AllBut(s)) = Len(s) - 1
        /\ \A i \in 1 .. Len(s) - 1 : AllBut(s)[i] = s[i]
    BY <1>1, AllButLast
  <1>3. Len(t) = Len(AllBut(s)) /\ \A i \in 1 .. Len(t) : t[i] = AllBut(s)[i]
    BY <1>2
  <1>4. t = AllBut(s)
    BY <1>2, <1>3, SeqEqual
  <1>5. QED
    BY <1>4 DEF AllBut

(* A return drops the last frame, and goes on in the one below.             *)
LEMMA FrameDropped ==
  ASSUME NEW row, NEW r \in Activations, NEW s \in Activations,
         Describes(row, r), Describes(row, s), r.entry = s.entry + 1,
         s.pc = row[s.entry].pc, s.bp = row[s.entry].bp
  PROVE  FramesIn(row, s) = SubSeq(FramesIn(row, r), 1, Len(FramesIn(row, r)) - 1)
  <1> DEFINE m == s.entry + 1
             F == FramesIn(row, r)
             G == FramesIn(row, s)
  <1>1. s.entry \in Nat /\ m \in Nat \ {0}
    BY BoundsAssumption DEF Activations
  <1>2. /\ F \in Seq(FrameSet) /\ Len(F) = m + 1 /\ G \in Seq(FrameSet) /\ Len(G) = m
    BY FramesOfARun
  <1>3. ASSUME NEW k \in 1 .. m PROVE G[k] = F[k]
    <2>1. F[k] = [pc |-> row[k - 1].pc, bp |-> row[k - 1].bp]
      BY <1>1 DEF FramesIn
    <2>2. CASE k = m
      <3>1. G[k] = ActiveFrame(s) /\ k - 1 = s.entry
        BY <1>1, <2>2 DEF FramesIn
      <3>2. QED
        BY <2>1, <3>1 DEF ActiveFrame
    <2>3. CASE k # m
      <3>1. G[k] = [pc |-> row[k - 1].pc, bp |-> row[k - 1].bp]
        BY <1>1, <2>3 DEF FramesIn
      <3>2. QED
        BY <2>1, <3>1
    <2>4. QED
      BY <2>2, <2>3
  <1> HIDE DEF F, G
  <1>4. G = SubSeq(F, 1, Len(F) - 1)
    <2>1. Len(F) \in Nat \ {0} /\ Len(G) = Len(F) - 1 /\ \A k \in 1 .. Len(F) - 1 : G[k] = F[k]
      BY <1>1, <1>2, <1>3
    <2>2. QED
      BY <1>2, <2>1, IsAllButLast
  <1>5. QED
    BY <1>4 DEF F, G

-----------------------------------------------------------------------------
(* What Subroutines sees while the program runs.                            *)
LEMMA AbstractTop ==
  ASSUME IInv, Running
  PROVE  /\ ~Abstract!Hosting
         /\ Abstract!Frames = FramesIn(entries[Top.context], Top)
         /\ Abstract!Active = ActiveFrame(Top)
         /\ Len(Abstract!Frames) = Top.entry + 1
  <1>1. Abstract!Frames = Stack[Len(Stack)]
    BY DEF Stack, Abstract!Frames
  <1>2. Abstract!Frames = FramesIn(entries[Top.context], Top) /\ Len(Abstract!Frames) = Top.entry + 1
    BY <1>1, TopFrames
  <1>3. Abstract!Active = ActiveFrame(Top)
    BY <1>2, TopFrames DEF Abstract!Active
  <1>4. ~Abstract!Hosting
    BY TopFrames DEF Stack, Abstract!Hosting
  <1>5. QED
    BY <1>2, <1>3, <1>4

LEMMA AbstractBecomes ==
  ASSUME NEW frames, Stack' = [Stack EXCEPT ![Len(Stack)] = frames]
  PROVE  Abstract!FramesBecome(frames)
  BY DEF Stack, Abstract!FramesBecome

(* Nothing changes in Subroutines, where runs and their entries stay.       *)
LEMMA Unseen ==
  ASSUME IInv, IInv', runs' = runs, Len(hosts') = Len(hosts),
         \A i \in 1 .. Len(runs) : entries'[runs[i].context] = entries[runs[i].context]
  PROVE  UNCHANGED Abstract!vars
  <1>1. Len(runs) \in Nat /\ Len(runs) \in 0 .. Len(runs) /\ Len(runs) <= Len(runs')
    BY DEF IInv, TypeOK
  <1>2. \A i \in 1 .. Len(runs) : Stack'[i] = Stack[i]
    <2> DEFINE m == Len(runs)
    <2>1. m \in 0 .. Len(runs) /\ m <= Len(runs')
      BY <1>1
    <2>2. \A i \in 1 .. m : runs'[i] = runs[i] /\ entries'[runs[i].context] = entries[runs[i].context]
      OBVIOUS
    <2> HIDE DEF m
    <2>3. \A i \in 1 .. m : Stack'[i] = Stack[i]
      BY <2>1, <2>2, FramesKept
    <2>4. QED
      BY <2>3 DEF m
  <1>3. Stack' = Stack
    BY <1>2, SameStack
  <1>4. QED
    BY <1>3 DEF Stack, Abstract!vars

(* The running function goes on at another place: jumps, tail calls, and    *)
(* calls of external functions.                                             *)
LEMMA TopGoesOn ==
  ASSUME IInv, IInv', Running, NEW r \in Activations, NEW row,
         r.context = Top.context, r.entry = Top.entry, r.bp = Top.bp, r.pc.code = Top.pc.code,
         \A k \in 0 .. Top.entry - 1 : row[k] = entries[Top.context][k],
         runs' = [runs EXCEPT ![Len(runs)] = r],
         entries' = [entries EXCEPT ![Top.context] = row]
  PROVE  Abstract!FramesBecome(Abstract!ActiveAt(r.pc.at))
  <1> DEFINE top == Top
             old == entries[Top.context]
  <1>1. /\ top \in Activations /\ Describes(old, top)
        /\ r.entry = top.entry /\ r.bp = top.bp /\ r.pc.code = top.pc.code
        /\ \A k \in 0 .. top.entry - 1 : row[k] = old[k]
    BY TopFacts
  <1> HIDE DEF top, old
  <1>2. FramesIn(row, r) = GoingOn(FramesIn(old, top), r.pc.at)
    BY <1>1, LastFrameMoves
  <1>3. FramesIn(row, r) = Abstract!ActiveAt(r.pc.at)
    BY <1>2, AbstractTop DEF Abstract!ActiveAt, GoingOn, top, old
  <1>4. QED
    BY <1>3, TopFramesBecome, AbstractBecomes

LEMMA JumpImplements ==
  ASSUME IInv, IInv', Jump
  PROVE  Abstract!Next
  <1>1. PICK at \in Instr.to : TopBecomes([Top EXCEPT !.pc.at = at])
    BY DEF Jump
  <1> DEFINE r == [Top EXCEPT !.pc.at = at]
             row == entries[Top.context]
  <1>2. /\ Running /\ UNCHANGED <<entries, hosts>> /\ runs' = [runs EXCEPT ![Len(runs)] = r]
        /\ entries' = [entries EXCEPT ![Top.context] = row]
    BY <1>1, TopFacts DEF Jump, TopBecomes, IInv, TypeOK
  <1>3. at \in Top.pc.at + 1 .. Len(Code[Top.pc.code])
    BY <1>1, <1>2, TopFacts DEF Jump, IsInstruction
  <1>4. Top.pc.at \in Nat \ {0} /\ at \in Nat \ {0} /\ at \in 1 .. Len(Code[Top.pc.code]) /\ at > Top.pc.at
    BY <1>2, <1>3, TopFacts DEF PCs
  <1>5. /\ r \in Activations /\ r.context = Top.context /\ r.entry = Top.entry
        /\ r.pc.code = Top.pc.code /\ r.pc.at = at /\ r.bp = Top.bp
    BY <1>2, <1>4, TopFacts DEF Activations, PCs
  <1> HIDE DEF r
  <1>6. Abstract!FramesBecome(Abstract!ActiveAt(at))
    <2>1. Abstract!FramesBecome(Abstract!ActiveAt(r.pc.at))
      BY <1>2, <1>5, TopGoesOn
    <2>2. QED
      BY <1>5, <2>1
  <1>7. at > Abstract!Active.pc.at
    BY <1>2, <1>4, AbstractTop DEF ActiveFrame
  <1>8. at \in UNION {1 .. Len(Code[f]) : f \in Internal}
    BY <1>2, <1>4, TopFacts DEF PCs
  <1>9. Abstract!GoOn(at)
    BY <1>2, <1>6, <1>7, AbstractTop DEF Abstract!GoOn
  <1>10. QED
    BY <1>8, <1>9 DEF Abstract!Next

LEMMA TailCallImplements ==
  ASSUME IInv, IInv', TailCall
  PROVE  Abstract!Next
  <1> DEFINE c == Top.context
             n == Top.entry
             start == Start(entries[c][n].func)
             row == [entries[c] EXCEPT ![n].pc = start]
             r == [Top EXCEPT !.pc = start]
  <1>1. /\ Running /\ UNCHANGED hosts
        /\ entries' = [entries EXCEPT ![c] = row] /\ runs' = [runs EXCEPT ![Len(runs)] = r]
    BY TopFacts DEF TailCall, TopBecomes, IInv, TypeOK
  <1>2. n \in 0 .. MaxCount - 1 /\ entries[c][n].func = Top.pc.code /\ Top.pc.code \in Internal
    BY <1>1, TopFacts DEF Describes, PCs
  <1>3. start \in PCs /\ start.code = Top.pc.code /\ start.at = 1
    BY <1>2 DEF Start, PCs
  <1>4. \A k \in 0 .. n - 1 : row[k] = entries[c][k]
    <2>1. \A k \in 0 .. n - 1 : k \in 0 .. MaxCount - 1 /\ k # n
      BY <1>2, BoundsAssumption
    <2> HIDE DEF start, n
    <2>2. QED
      BY <1>1, <2>1, TopFacts DEF Entries
  <1>5. r \in Activations /\ r.context = c /\ r.entry = n /\ r.pc = start /\ r.bp = Top.bp
    <2> HIDE DEF start
    <2>1. QED
      BY <1>1, <1>3, TopFacts DEF Activations
  <1> HIDE DEF start, row, r
  <1>6. Abstract!FramesBecome(Abstract!ActiveAt(1))
    <2>1. Abstract!FramesBecome(Abstract!ActiveAt(r.pc.at))
      BY <1>1, <1>3, <1>4, <1>5, TopGoesOn
    <2>2. QED
      BY <1>3, <1>5, <2>1
  <1>7. QED
    BY <1>1, <1>6, AbstractTop DEF Abstract!Next, Abstract!Again

(* A call of an external function.                                          *)
LEMMA EnterImplements ==
  ASSUME IInv, IInv', Running, Instr.op \in {"call", "sized"},
         NEW e \in External, NEW fn, NEW saves \in BOOLEAN, Enter(e, fn, saves),
         entries' = IF saves THEN Positioned ELSE entries
  PROVE  Abstract!Next
  <1> DEFINE c == Top.context
             n == Top.entry
             old == entries[c]
             new == [old EXCEPT ![n] = Entry(Top.pc.code, Top.pc, Top.bp)]
             row == IF saves THEN new ELSE old
             r == [Top EXCEPT !.pc = After]
  <1>1. runs' = [runs EXCEPT ![Len(runs)] = r] /\ entries' = [entries EXCEPT ![c] = row]
    <2>1. Positioned = [entries EXCEPT ![c] = new]
      BY SavedRow
    <2> HIDE DEF new
    <2>2. QED
      BY <2>1, TopFacts DEF Enter, TopBecomes, IInv, TypeOK
  <1>2. Len(hosts') = Len(hosts) + 1
    BY DEF Enter, IInv, TypeOK
  <1>3. After \in PCs /\ After.code = Top.pc.code /\ After.at = Top.pc.at + 1
    BY AfterCalls
  <1>4. r \in Activations /\ r.context = c /\ r.entry = n /\ r.pc = After /\ r.bp = Top.bp
    BY <1>3, TopFacts DEF Activations
  <1>5. \A k \in 0 .. n - 1 : row[k] = old[k]
    <2>1. \A k \in 0 .. n - 1 : k \in 0 .. MaxCount - 1 /\ k # n
      BY TopFacts, BoundsAssumption
    <2>2. old \in Entries
      BY TopFacts
    <2> HIDE DEF n, old
    <2>3. QED
      BY <2>1, <2>2 DEF Entries
  <1> HIDE DEF row, r
  <1>6. Abstract!FramesBecome(Abstract!ActiveAt(Abstract!Active.pc.at + 1))
    <2>1. Abstract!FramesBecome(Abstract!ActiveAt(r.pc.at))
      BY <1>1, <1>3, <1>4, <1>5, TopGoesOn
    <2>2. r.pc.at = Abstract!Active.pc.at + 1
      BY <1>3, <1>4, AbstractTop DEF ActiveFrame
    <2>3. QED
      BY <2>1, <2>2
  <1>7. QED
    BY <1>2, <1>6, AbstractTop DEF Abstract!Next, Abstract!CallHost

(* A call of an internal function with room for its entry.                  *)
LEMMA CallImplements ==
  ASSUME IInv, IInv', NEW f \in Internal, Call(f), Top.entry + 1 # MaxCount
  PROVE  Abstract!Next
  <1> DEFINE c == Top.context
             n == Top.entry
             k == n + 1
             bp == Top.bp + Instr.base
             old == entries[c]
             saved == [old EXCEPT ![n] = Entry(Top.pc.code, After, Top.bp)]
             row == [saved EXCEPT ![k] = Entry(f, Start(f), bp)]
             r == Run(c, k, Start(f), bp)
  <1>1. /\ Running /\ Instr.op = "call" /\ count[c] = n
        /\ runs' = [runs EXCEPT ![Len(runs)] = r] /\ UNCHANGED hosts
        /\ entries' = [Saved(c) EXCEPT ![c][k] = Entry(f, Start(f), bp)]
    <2>1. Running /\ Instr.op = "call" /\ count[c] = n
      BY TopFacts DEF Call
    <2>2. ~IsFull(count[c] + 1)
      BY <2>1 DEF IsFull
    <2>3. QED
      BY <2>1, <2>2 DEF Call, TopBecomes
  <1>2. /\ Top \in Activations /\ Describes(old, Top) /\ old \in Entries /\ c \in Contexts
        /\ n \in 0 .. MaxCount - 1 /\ Top.bp \in Nat /\ Top.pc \in PCs
    BY <1>1, TopFacts
  <1>3. /\ After \in PCs /\ After.code = Top.pc.code /\ After.at = Top.pc.at + 1
        /\ After.at \in 1 .. Len(Code[After.code]) /\ Instr.base \in 0 .. MaxFrame
    BY <1>1, AfterCalls
  <1>4. n \in Nat /\ k \in 0 .. MaxCount - 1 /\ bp \in Nat /\ bp >= Top.bp
    BY <1>2, <1>3, BoundsAssumption
  <1>5. Start(f) \in PCs /\ Start(f).code = f /\ Start(f).at = 1
    BY DEF Start, PCs
  <1>6. r \in Activations /\ r.context = c /\ r.entry = k /\ r.pc = Start(f) /\ r.bp = bp
    BY <1>2, <1>4, <1>5 DEF Run, Activations
  <1>7. saved \in Entries /\ saved[n] = Entry(Top.pc.code, After, Top.bp)
    BY <1>1, <1>3, Rewritten
  <1>8. entries' = [entries EXCEPT ![c] = row]
    <2>1. Saved(c) = [entries EXCEPT ![c] = saved]
      BY <1>1, SavedRow
    <2> HIDE DEF saved
    <2>2. QED
      BY <1>1, <1>2, <2>1 DEF IInv, TypeOK
  <1>9. /\ row[n].pc = After /\ row[n].bp = Top.bp
        /\ \A i \in 0 .. n - 1 : row[i] = old[i]
    <2>1. \A i \in 0 .. n - 1 : i \in 0 .. MaxCount - 1 /\ i # n /\ i # k
      BY <1>2, <1>4, BoundsAssumption
    <2>2. saved[n].pc = After /\ saved[n].bp = Top.bp
      BY <1>7 DEF Entry
    <2> DEFINE new == Entry(f, Start(f), bp)
               caller == Entry(Top.pc.code, After, Top.bp)
    <2>3. n \in 0 .. MaxCount - 1 /\ n # k
      BY <1>2, <1>4
    <2> HIDE DEF new, caller, n, k, old
    <2>4. \A i \in 0 .. n - 1 : saved[i] = old[i]
      BY <1>2, <2>1 DEF Entries, caller
    <2> HIDE DEF saved
    <2>5. \A i \in 0 .. MaxCount - 1 : i # k => row[i] = saved[i]
      BY <1>7 DEF Entries, new
    <2> HIDE DEF row
    <2>6. QED
      BY <2>1, <2>2, <2>3, <2>4, <2>5
  <1>10. Describes(row, r)
    <2>1. entries'[c] = row
      BY <1>2, <1>8 DEF IInv, TypeOK
    <2>2. Len(runs) \in 1 .. Len(runs') /\ runs'[Len(runs)] = r
      BY <1>1, TopFrames DEF IInv, TypeOK
    <2>3. \A i \in 1 .. Len(runs') : Describes(entries'[runs'[i].context], runs'[i])
      BY DEF IInv, Described, Describes, Sound
    <2>4. Describes(entries'[runs'[Len(runs)].context], runs'[Len(runs)])
      BY <2>2, <2>3
    <2>5. QED
      BY <2>1, <2>2, <2>4, <1>6
  <1>11. FramesIn(row, r) = Append(GoingOn(FramesIn(old, Top), After.at), ActiveFrame(r))
    <2> DEFINE top == Top
               next == After
    <2>1. /\ top \in Activations /\ r \in Activations /\ next \in PCs /\ Describes(old, top)
          /\ Describes(row, r) /\ r.entry = top.entry + 1 /\ next.code = top.pc.code
          /\ row[top.entry].pc = next /\ row[top.entry].bp = top.bp
          /\ \A i \in 0 .. top.entry - 1 : row[i] = old[i]
      BY <1>2, <1>3, <1>6, <1>9, <1>10
    <2> HIDE DEF top, next, row, old, r
    <2>2. FramesIn(row, r) = Append(GoingOn(FramesIn(old, top), next.at), ActiveFrame(r))
      BY <2>1, FrameAdded, ZenonT(60)
    <2>3. QED
      BY <2>2 DEF top, next
  <1>12. ActiveFrame(r) = Abstract!Frame(f, 1, bp)
    BY <1>6 DEF ActiveFrame, Abstract!Frame, Start
  <1> HIDE DEF row, r, saved, bp
  <1>13. FramesIn(row, r) = Append(Abstract!ActiveAt(Abstract!Active.pc.at + 1), Abstract!Frame(f, 1, bp))
    <2>1. Abstract!Active.pc.at + 1 = After.at
      BY <1>1, <1>3, AbstractTop DEF ActiveFrame
    <2>2. QED
      BY <2>1, <1>1, <1>11, <1>12, AbstractTop DEF Abstract!ActiveAt, GoingOn
  <1>14. Abstract!FramesBecome(Append(Abstract!ActiveAt(Abstract!Active.pc.at + 1), Abstract!Frame(f, 1, bp)))
    BY <1>1, <1>6, <1>8, <1>13, TopFramesBecome, AbstractBecomes
  <1>15. bp >= Abstract!Active.bp
    BY <1>1, <1>4, AbstractTop DEF ActiveFrame
  <1>16. bp \in 0 .. MaxCount * MaxFrame
    <2>1. k \in 0 .. r.entry /\ row[k].bp = bp
      BY <1>4, <1>6, <1>10 DEF Describes
    <2>2. bp <= k * MaxFrame
      BY <2>1, <1>10 DEF Describes, Sound
    <2>3. k * MaxFrame <= MaxCount * MaxFrame
      BY <1>4, BoundsAssumption
    <2>4. k * MaxFrame \in Nat /\ MaxCount * MaxFrame \in Nat
      BY <1>4, BoundsAssumption
    <2> HIDE DEF k
    <2>5. QED
      BY <1>4, <2>2, <2>3, <2>4
  <1>17. Abstract!Call(f, bp)
    BY <1>1, <1>14, <1>15, AbstractTop DEF Abstract!Call
  <1>18. QED
    BY <1>16, <1>17 DEF Abstract!Next

(* A call that finds the call stack full stops the process, with the entry  *)
(* of the caller written.                                                   *)
LEMMA FullIsUnseen ==
  ASSUME IInv, IInv', NEW f \in Internal, Call(f), Top.entry + 1 = MaxCount
  PROVE  UNCHANGED Abstract!vars
  <1> DEFINE c == Top.context
             n == Top.entry
             old == entries[c]
             saved == [old EXCEPT ![n] = Entry(Top.pc.code, After, Top.bp)]
             top == Top
  <1>1. Running /\ UNCHANGED <<runs, hosts>> /\ entries' = [entries EXCEPT ![c] = saved]
    <2>1. Running /\ count[c] = n
      BY TopFacts DEF Call
    <2>2. IsFull(count[c] + 1)
      BY <2>1 DEF IsFull
    <2>3. UNCHANGED <<runs, hosts>> /\ entries' = Saved(c)
      BY <2>1, <2>2 DEF Call
    <2>4. QED
      BY <2>1, <2>3, SavedRow
  <1>2. /\ top \in Activations /\ Describes(old, top) /\ old \in Entries /\ n \in 0 .. MaxCount - 1
    BY <1>1, TopFacts
  <1>3. \A i \in 0 .. n - 1 : saved[i] = old[i]
    <2>1. \A i \in 0 .. n - 1 : i \in 0 .. MaxCount - 1 /\ i # n
      BY <1>2, BoundsAssumption
    <2> HIDE DEF n, old
    <2>2. QED
      BY <1>2, <2>1 DEF Entries
  <1>4. FramesIn(saved, top) = FramesIn(old, top)
    <2>1. top.entry = n /\ n \in Nat
      BY <1>2, BoundsAssumption
    <2>2. \A i \in 1 .. n + 1 : i # n + 1 => saved[i - 1] = old[i - 1]
      BY <1>3, <2>1
    <2> HIDE DEF n, old, saved, top
    <2>3. QED
      BY <2>1, <2>2 DEF FramesIn
  <1>5. Stack' = [Stack EXCEPT ![Len(Stack)] = FramesIn(saved, top)]
    <2>1. runs' = [runs EXCEPT ![Len(runs)] = top] /\ top.context = Top.context
      BY <1>1, TopFrames DEF IInv, TypeOK
    <2> HIDE DEF saved
    <2>2. QED
      BY <1>1, <1>2, <2>1, TopFramesBecome
  <1>6. Stack' = Stack
    <2>1. Stack[Len(Stack)] = FramesIn(old, top) /\ Stack \in Seq(Seq(FrameSet))
      BY <1>1, TopFrames, StackFacts
    <2> HIDE DEF saved, old, top
    <2>2. QED
      BY <1>4, <1>5, <2>1
  <1>7. QED
    BY <1>1, <1>6 DEF Stack, Abstract!vars

LEMMA ReturnImplements ==
  ASSUME IInv, IInv', Return
  PROVE  Abstract!Next
  <1> DEFINE row == entries[Top.context]
             k == Top.entry - 1
             r == Resumed(Top.context, k)
             top == Top
  <1>1. /\ Running /\ Top.entry # 0
        /\ runs' = [runs EXCEPT ![Len(runs)] = r] /\ UNCHANGED <<entries, hosts>>
    BY TopFacts DEF Return, TopBecomes
  <1>2. /\ top \in Activations /\ Describes(row, top) /\ top.entry = k + 1
        /\ k \in 0 .. MaxCount - 1 /\ k \in Nat /\ k \in 0 .. top.entry
    BY <1>1, TopFacts, BoundsAssumption
  <1>3. Sound(row, k)
    BY <1>2 DEF Describes
  <1>4. r = [context |-> Top.context, entry |-> k, pc |-> row[k].pc, bp |-> row[k].bp]
    BY DEF Resumed, Run
  <1>5. /\ r \in Activations /\ r.context = Top.context /\ r.entry = k
        /\ r.pc = row[k].pc /\ r.bp = row[k].bp
    <2>1. row[k].pc \in PCs /\ row[k].bp \in Nat /\ Top.context \in Contexts
      BY <1>1, <1>3, TopFacts DEF Sound
    <2> HIDE DEF row, k, r
    <2>2. QED
      BY <2>1, <1>2, <1>4 DEF Activations
  <1>6. Describes(row, r)
    <2>1. row[k].func = row[k].pc.code
      BY <1>3 DEF Sound
    <2>2. \A i \in 0 .. k : Sound(row, i)
      BY <1>2 DEF Describes
    <2> HIDE DEF row, k, r
    <2>3. QED
      BY <1>5, <2>1, <2>2 DEF Describes
  <1>7. FramesIn(row, r) = SubSeq(FramesIn(row, top), 1, Len(FramesIn(row, top)) - 1)
    <2>1. top.entry = r.entry + 1 /\ r.pc = row[r.entry].pc /\ r.bp = row[r.entry].bp
      BY <1>2, <1>5
    <2> HIDE DEF row, r, top
    <2>2. QED
      BY <1>2, <1>5, <1>6, <2>1, FrameDropped
  <1>8. entries' = [entries EXCEPT ![Top.context] = row]
    BY <1>1, TopFacts DEF IInv, TypeOK
  <1> HIDE DEF r
  <1>9. FramesIn(row, r) = SubSeq(Abstract!Frames, 1, Len(Abstract!Frames) - 1)
    BY <1>1, <1>7, AbstractTop
  <1>10. Abstract!FramesBecome(SubSeq(Abstract!Frames, 1, Len(Abstract!Frames) - 1))
    BY <1>1, <1>5, <1>8, <1>9, TopFramesBecome, AbstractBecomes
  <1>11. Len(Abstract!Frames) > 1
    BY <1>1, <1>2, AbstractTop
  <1>12. QED
    BY <1>1, <1>10, <1>11, AbstractTop DEF Abstract!Next, Abstract!Return

(* The end of a run: its activation is gone, and those below are as before. *)
LEMMA EndImplements ==
  ASSUME IInv, IInv', ReturnFromRun
  PROVE  Abstract!Next
  <1> DEFINE n == Len(runs)
             m == n - 1
  <1>1. Running /\ Top.entry = 0 /\ runs' = AllBut(runs) /\ entries' = entries
    BY TopFacts DEF ReturnFromRun
  <1>2. /\ n \in Nat \ {0} /\ m \in Nat /\ runs # << >> /\ runs \in Seq(Activations)
        /\ Len(runs') = m /\ \A i \in 1 .. m : runs'[i] = runs[i]
    <2>1. runs \in Seq(Activations) /\ n \in Nat \ {0}
      BY <1>1, TopFrames DEF IInv, TypeOK
    <2>2. runs # << >>
      BY <2>1
    <2>3. QED
      BY <1>1, <2>1, <2>2, AllButLast
  <1>3. Len(hosts') = Len(hosts)
    BY DEF ReturnFromRun, IInv, TypeOK
  <1>4. \A i \in 1 .. m : Stack'[i] = Stack[i]
    <2>1. m \in 0 .. Len(runs) /\ m <= Len(runs')
      BY <1>2
    <2> HIDE DEF m
    <2>2. QED
      BY <1>1, <1>2, <2>1, FramesKept
  <1>5. /\ Stack \in Seq(Seq(FrameSet)) /\ Stack' \in Seq(Seq(FrameSet))
        /\ Len(Stack) = n /\ Len(Stack') = m
    BY <1>2, StackFacts, StackFactsNext
  <1>6. Stack' = SubSeq(Stack, 1, Len(Stack) - 1)
    <2>1. Len(Stack) \in Nat \ {0} /\ Len(Stack') = Len(Stack) - 1
          /\ \A i \in 1 .. Len(Stack) - 1 : Stack'[i] = Stack[i]
      BY <1>2, <1>4, <1>5
    <2>2. QED
      BY <1>5, <2>1, IsAllButLast
  <1>7. Len(Abstract!Frames) = 1 /\ ~Abstract!Hosting
    BY <1>1, AbstractTop
  <1>8. Abstract!End
    BY <1>3, <1>6, <1>7 DEF Abstract!End, Stack
  <1>9. QED
    BY <1>8 DEF Abstract!Next

(* A run begins, of the host or nested, on a context no other run uses; or  *)
(* it is refused, after entry 0 of that context was written.                *)
LEMMA RunImplements ==
  ASSUME IInv, IInv', Hosting, NEW f \in Internal, NEW accepts, NEW c \in Contexts,
         \A i \in 1 .. Len(runs) : runs[i].context # c,
         SwampRun(c, f, accepts), Len(hosts') = Len(hosts)
  PROVE  [Abstract!Next]_(Abstract!vars)
  <1> DEFINE n == Len(runs)
             r == Run(c, 0, Start(f), 0)
             start == <<[pc |-> Start(f), bp |-> 0]>>
  <1>1. /\ n \in Nat /\ n = Len(hosts) /\ runs \in Seq(Activations)
        /\ \A i \in 1 .. n : runs[i].context \in Contexts
    BY Elements DEF IInv, Hosting, TypeOK, Activations
  <1>2. \A i \in 1 .. n : entries'[runs[i].context] = entries[runs[i].context]
    BY <1>1 DEF SwampRun, Rooted, IInv, TypeOK
  <1>3. CASE runs' = runs
    BY <1>2, <1>3, Unseen
  <1>4. CASE runs' = Append(runs, r)
    <2>1. r \in Activations /\ r.entry = 0 /\ r.pc = Start(f) /\ r.bp = 0
      BY BoundsAssumption DEF Activations, Run, Start, PCs
    <2> HIDE DEF r
    <2>2. Len(runs') = n + 1 /\ runs'[n + 1] = r /\ \A i \in 1 .. n : runs'[i] = runs[i]
      BY <1>1, <1>4, <2>1, AppendProperties
    <2>3. \A i \in 1 .. n : Stack'[i] = Stack[i]
      <3> DEFINE m == n
      <3>1. m \in 0 .. Len(runs) /\ m <= Len(runs')
        BY <1>1, <2>2
      <3>2. \A i \in 1 .. m : runs'[i] = runs[i] /\ entries'[runs[i].context] = entries[runs[i].context]
        BY <1>2, <2>2
      <3> HIDE DEF m
      <3>3. \A i \in 1 .. m : Stack'[i] = Stack[i]
        BY <3>1, <3>2, FramesKept
      <3>4. QED
        BY <3>3 DEF m
    <2>4. Stack'[n + 1] = start
      <3>1. n + 1 \in 1 .. Len(runs')
        BY <1>1, <2>2
      <3>2. Stack'[n + 1] = FramesIn(entries'[runs'[n + 1].context], runs'[n + 1])
        BY <3>1, StackFactsNext
      <3> DEFINE row == entries'[runs'[n + 1].context]
      <3>3. Stack'[n + 1] = FramesIn(row, r)
        BY <2>2, <3>2
      <3> HIDE DEF row
      <3>4. FramesIn(row, r) = [k \in 1 .. 1 |-> [pc |-> Start(f), bp |-> 0]]
        BY <2>1 DEF FramesIn, ActiveFrame
      <3>5. start = [k \in 1 .. 1 |-> [pc |-> Start(f), bp |-> 0]]
        OBVIOUS
      <3>6. QED
        BY <3>3, <3>4, <3>5
    <2>5. /\ Stack \in Seq(Seq(FrameSet)) /\ Len(Stack) = n
          /\ Stack' \in Seq(Seq(FrameSet)) /\ Len(Stack') = n + 1 /\ start \in Seq(FrameSet)
      <3>1. /\ Stack \in Seq(Seq(FrameSet)) /\ Len(Stack) = n
            /\ Stack' \in Seq(Seq(FrameSet)) /\ Len(Stack') = n + 1
        BY <2>2, StackFacts, StackFactsNext
      <3>2. n + 1 \in 1 .. Len(Stack')
        BY <1>1, <3>1
      <3>3. start \in Seq(FrameSet)
        BY <2>4, <3>1, <3>2, ElementOfSeq
      <3>4. QED
        BY <3>1, <3>3
    <2> HIDE DEF start
    <2>6. /\ Append(Stack, start) \in Seq(Seq(FrameSet)) /\ Len(Append(Stack, start)) = n + 1
          /\ \A i \in 1 .. n : Append(Stack, start)[i] = Stack[i]
          /\ Append(Stack, start)[n + 1] = start
      BY <2>5, AppendProperties
    <2>7. \A i \in 1 .. Len(Stack') : Stack'[i] = Append(Stack, start)[i]
      <3>1. \A i \in 1 .. n + 1 : i \in 1 .. n \/ i = n + 1
        BY <1>1
      <3>2. QED
        BY <3>1, <2>3, <2>4, <2>5, <2>6
    <2>8. Stack' = Append(Stack, start)
      BY <2>5, <2>6, <2>7, SeqEqual
    <2>9. start = <<Abstract!Frame(f, 1, 0)>>
      BY DEF start, Abstract!Frame, Start
    <2>10. Abstract!Hosting
      BY <1>1, <2>5 DEF Abstract!Hosting, Stack
    <2>11. Abstract!Run(f)
      BY <2>8, <2>9, <2>10 DEF Abstract!Run, Stack
    <2>12. QED
      BY <2>11 DEF Abstract!Next
  <1>5. QED
    BY <1>3, <1>4 DEF SwampRun

(* A context nothing uses is set up or freed, and a host function returns   *)
(* once its temporary context is gone.                                      *)
LEMMA BlankIsUnseen ==
  ASSUME IInv, IInv', NEW c, c \in Contexts => \A i \in 1 .. Len(runs) : runs[i].context # c,
         Blank(c), runs' = runs
  PROVE  Stack' = Stack
  <1>1. \A i \in 1 .. Len(runs) : entries'[runs[i].context] = entries[runs[i].context]
    BY Blanked DEF IInv
  <1> DEFINE m == Len(runs)
  <1>2. m \in 0 .. Len(runs) /\ m <= Len(runs') /\ \A i \in 1 .. m : runs'[i] = runs[i]
    BY DEF IInv, TypeOK
  <1>3. \A i \in 1 .. m : entries'[runs[i].context] = entries[runs[i].context]
    BY <1>1
  <1> HIDE DEF m
  <1>4. \A i \in 1 .. m : Stack'[i] = Stack[i]
    BY <1>2, <1>3, FramesKept
  <1>5. Len(runs') = Len(runs) /\ \A i \in 1 .. Len(runs) : Stack'[i] = Stack[i]
    BY <1>4 DEF m
  <1>6. QED
    BY <1>5, SameStack

LEMMA ContextIsUnseen ==
  ASSUME IInv, IInv', InitContext \/ DestroyContext
  PROVE  UNCHANGED Abstract!vars
  <1>1. Hosting /\ Blank(Root) /\ UNCHANGED <<runs, hosts>>
    BY DEF InitContext, DestroyContext
  <1>2. runs = << >>
    <2>1. runs \in Seq(Activations) /\ hosts \in Seq(HostActivations) /\ Len(runs) = Len(hosts)
      BY <1>1 DEF IInv, TypeOK, Hosting
    <2>2. runs = << >> \/ hosts = << >>
      BY DEF InitContext, DestroyContext, IInv, Ownership
    <2>3. QED
      BY <2>1, <2>2, EmptySeq
  <1>3. Stack' = Stack
    BY <1>1, <1>2, BlankIsUnseen
  <1>4. QED
    BY <1>1, <1>3 DEF Stack, Abstract!vars

LEMMA TempIsUnseen ==
  ASSUME IInv, IInv', NEW c \in Contexts, CreateTemp(c), Own(c)
  PROVE  UNCHANGED Abstract!vars
  <1>1. c \notin live /\ Blank(c) /\ runs' = runs /\ Len(hosts') = Len(hosts)
    BY DEF CreateTemp, Own, HostBecomes, IInv, TypeOK
  <1>2. Stack' = Stack
    BY <1>1, ContextsAreLive, BlankIsUnseen DEF IInv
  <1>3. QED
    BY <1>1, <1>2 DEF Stack, Abstract!vars

LEMMA ReturnExternalImplements ==
  ASSUME IInv, IInv', ReturnExternal
  PROVE  Abstract!Next
  <1>1. Calling /\ Hosting /\ Blank(Host.own) /\ runs' = runs /\ hosts' = AllBut(hosts)
    BY DEF ReturnExternal, Calling
  <1>2. Len(hosts') = Len(hosts) - 1 /\ Len(hosts) \in Nat \ {0}
    <2>1. hosts \in Seq(HostActivations) /\ hosts # << >>
      BY <1>1 DEF Calling, IInv, TypeOK
    <2>2. QED
      BY <1>1, <2>1, AllButLast
  <1>3. Host.own \in Contexts => \A i \in 1 .. Len(runs) : runs[i].context # Host.own
    BY <1>1, OwnIsIdle, ContextsAssumption
  <1>4. Stack' = Stack
    BY <1>1, <1>3, BlankIsUnseen
  <1>5. Abstract!Hosting
    BY <1>1, StackFacts DEF Abstract!Hosting, Stack, Hosting
  <1>6. Abstract!ReturnHost
    BY <1>2, <1>4, <1>5 DEF Abstract!ReturnHost, Stack
  <1>7. QED
    BY <1>6 DEF Abstract!Next

LEMMA HostRunImplements ==
  ASSUME IInv, IInv', NEW f \in Internal, NEW parametersAgree \in BOOLEAN, NEW sizesAgree \in BOOLEAN,
         HostRuns(f, parametersAgree, sizesAgree)
  PROVE  [Abstract!Next]_(Abstract!vars)
  <1>1. /\ Hosting /\ Root \in Contexts /\ Len(hosts') = Len(hosts)
        /\ SwampRun(Root, f, Accepts(parametersAgree, sizesAgree))
    BY ContextsAssumption DEF HostRuns
  <1>2. Len(runs) = 0
    BY DEF HostRuns, Hosting
  <1>3. QED
    BY <1>1, <1>2, RunImplements

LEMMA NestedRunImplements ==
  ASSUME IInv, IInv', RunArgument
  PROVE  [Abstract!Next]_(Abstract!vars)
  <1>1. Calling /\ Hosting /\ Host.own # NoContext
    BY DEF RunArgument, Calling
  <1>2. CASE Prepared(Host.fn) \in Internal
    <2>1. PICK accepts \in {"ok", "-3"} :
            /\ SwampRun(Host.own, Prepared(Host.fn), accepts)
            /\ HostBecomes([Host EXCEPT !.returned = IF accepts = "ok" THEN @ ELSE accepts])
      BY <1>2 DEF RunArgument, Accepts
    <2>2. Len(hosts') = Len(hosts)
      BY <2>1 DEF HostBecomes, IInv, TypeOK
    <2>3. QED
      BY <1>1, <1>2, <2>1, <2>2, OwnIsIdle, RunImplements
  <1>3. CASE Prepared(Host.fn) \notin Internal
    <2>1. UNCHANGED <<runs, hosts, entries>>
      BY <1>3 DEF RunArgument, Stop
    <2>2. QED
      BY <2>1, Unseen
  <1>4. QED
    BY <1>2, <1>3

-----------------------------------------------------------------------------
(* Every step of the interpreter is a step of Subroutines, or none.         *)
LEMMA NextImplements == IInv /\ IInv' /\ [Next]_vars => [Abstract!Next]_(Abstract!vars)
  <1> SUFFICES ASSUME IInv, IInv', [Next]_vars PROVE [Abstract!Next]_(Abstract!vars)
    OBVIOUS
  <1>1. ASSUME UNCHANGED <<entries, runs, hosts>> PROVE UNCHANGED Abstract!vars
    BY <1>1, Unseen
  <1>2. CASE InitContext \/ DestroyContext
    BY <1>2, ContextIsUnseen
  <1>3. ASSUME NEW f \in Internal, NEW parametersAgree \in BOOLEAN, NEW sizesAgree \in BOOLEAN,
               HostRuns(f, parametersAgree, sizesAgree)
        PROVE  [Abstract!Next]_(Abstract!vars)
    BY <1>3, HostRunImplements
  <1>4. CASE ReturnFromRun
    BY <1>4, EndImplements
  <1>5. CASE Return
    BY <1>5, ReturnImplements
  <1>6. CASE TailCall
    BY <1>6, TailCallImplements
  <1>7. CASE Jump
    BY <1>7, JumpImplements
  <1>8. CASE NoCase \/ CallClosure
    BY <1>1, <1>8 DEF NoCase, CallClosure, Stop
  <1>9. ASSUME NEW f \in Internal, Call(f) PROVE [Abstract!Next]_(Abstract!vars)
    BY <1>9, CallImplements, FullIsUnseen
  <1>10. ASSUME NEW e \in External, NEW fn \in ArgumentsOf(e), CallExternal(e, fn)
         PROVE  [Abstract!Next]_(Abstract!vars)
    <2>1. CASE e \in Strange
      BY <1>1, <1>10, <2>1 DEF CallExternal, Stop
    <2>2. CASE e \notin Strange
      BY <1>10, <2>2, EnterImplements DEF CallExternal
    <2>3. QED
      BY <2>1, <2>2
  <1>11. ASSUME NEW e \in External, NEW fn \in ArgumentsOf(e), CallExternalWithSizes(e, fn)
         PROVE  [Abstract!Next]_(Abstract!vars)
    <2>1. CASE e \in Strange
      BY <1>1, <1>11, <2>1 DEF CallExternalWithSizes, Stop
    <2>2. CASE e \notin Strange
      BY <1>11, <2>2, EnterImplements DEF CallExternalWithSizes
    <2>3. QED
      BY <2>1, <2>2
  <1>12. ASSUME NEW c \in Contexts, CreateTemp(c) PROVE [Abstract!Next]_(Abstract!vars)
    <2>1. CASE Own(c)
      BY <1>12, <2>1, TempIsUnseen
    <2>2. CASE Stop("trap")
      BY <1>1, <2>2 DEF Stop
    <2>3. QED
      BY <1>12, <2>1, <2>2 DEF CreateTemp
  <1>13. CASE RunArgument
    BY <1>13, NestedRunImplements
  <1>14. CASE ReturnExternal
    BY <1>14, ReturnExternalImplements
  <1>15. CASE UNCHANGED vars
    BY <1>1, <1>15 DEF vars
  <1>16. QED
    BY <1>2, <1>3, <1>4, <1>5, <1>6, <1>7, <1>8, <1>9, <1>10, <1>11, <1>12, <1>13, <1>14, <1>15 DEF Next

(* For every program, and however deep it, the host functions it calls and  *)
(* the functions these run are nested, calls and returns do what a program  *)
(* expects of subroutines: each return goes on in its caller, from where it *)
(* was and with the frame it had.                                           *)
THEOREM InterpreterImplementsSubroutines == Spec => ImplementsSubroutines
  <1>1. Init => Abstract!Init
    <2> SUFFICES ASSUME Init PROVE Abstract!Init
      OBVIOUS
    <2>1. runs = << >> /\ hosts = << >> /\ Len(hosts) = 0
      BY DEF Init
    <2>2. Stack = << >>
      BY <2>1 DEF Stack
    <2>3. QED
      BY <2>1, <2>2 DEF Stack, Abstract!Init
  <1>2. QED
    BY <1>1, NextImplements, Inductive, PTL DEF Spec, ImplementsSubroutines, Abstract!Spec
=============================================================================
