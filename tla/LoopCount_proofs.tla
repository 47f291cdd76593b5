--------------------------- MODULE LoopCount_proofs ---------------------------
(***************************************************************************)
(* Proofs about what the loop registry counts: every iteration once, no    *)
(* more than the stop condition allows, none before its delay has passed,  *)
(* and at most one after a loop was stopped.                               *)
(*                                                                         *)
(* As long as no write rested on a stale copy of the file and no two ticks *)
(* overlapped, the count in the file is the number of iterations that are  *)
(* missions, were lost in a crash, or are in the hands of the tick.        *)
(***************************************************************************)
EXTENDS Loops_proofs

\* Iterations of l that are missions or were lost.
Tally(l) == Cardinality(Runs(l)) + lost[l]

\* What the file is to count: an iteration that was marked and is not a mission yet is in hand.
Total(l) == Tally(l) + Cardinality(InHand(l))

\* The tick of s has still to fire l: it is due, or taken and marked or about to be.
Taken(s, l) == tick[s].pc = "mark" /\ tick[s].cur = l
Ahead(s, l) == l \in tick[s].due \/ Taken(s, l)

Registers(a, l) == job[a].edit = "register" /\ job[a].loop = l
Limited(l) == Halt[l].kind = "maxIterations" /\ Halt[l].bound > 0

TickForm ==
  /\ \A s \in Mount :
       /\ tick[s].pc \in {"idle", "read"} => tick[s].due = {} /\ job[Ticker(s)] = Idle
       /\ tick[s].pc = "mark" =>
            /\ tick[s].cur \notin tick[s].due
            /\ job[Ticker(s)] # Idle =>
                 job[Ticker(s)].edit = "mark" /\ job[Ticker(s)].loop = tick[s].cur
  /\ \A a \in Actor : job[a].edit = "mark" =>
       job[a].stage # "get" /\ \E s \in Mount : a = Ticker(s) /\ tick[s].pc = "mark"

OnceRegistered ==
  \A l \in Loop, a \in Actor : Registers(a, l) =>
    anchor[l] # "none" /\ \A b \in Actor : Registers(b, l) => a = b

OneTick == \A s, r \in Mount : tick[s].pc # "idle" /\ tick[r].pc # "idle" => s = r

FormInv == TickForm /\ OnceRegistered /\ (clean => OneTick)

Untouched(l) ==
  Runs(l) = {} /\ lost[l] = 0 /\ rest[l] = 0 /\ ~file[l].known /\ \A s \in Mount : ~Ahead(s, l)
NewUntouched ==
  \A l \in Loop : anchor[l] = "none" \/ (\E a \in Actor : Registers(a, l)) => Untouched(l)

FileCounts == \A l \in Loop : file[l].known => file[l].count = Total(l)
SeenCounts ==
  \A s \in Mount, l \in Loop :
    /\ Ahead(s, l) => tick[s].seen[l] = Tally(l)
    /\ Taken(s, l) /\ Limited(l) => tick[s].seen[l] < Halt[l].bound
Numbered ==
  \A l \in Loop : /\ \A i \in Runs(l) : child[i].iter <= Tally(l)
                  /\ \A i, j \in Runs(l) : child[i].iter = child[j].iter => i = j
Within == \A l \in Loop : Limited(l) => Tally(l) <= Halt[l].bound

FileRests == \A l \in Loop : file[l].known /\ file[l].enabled => rest[l] <= file[l].next
Rested ==
  \A s \in Mount, l \in Loop :
    l \in tick[s].due \/ (Taken(s, l) /\ job[Ticker(s)] # Idle) => rest[l] <= now
FewLate ==
  \A l \in Loop : /\ late[l] <= 1
                  /\ wanted[l] \in {"none", "on"} => late[l] = 0
                  /\ \A s \in Mount : Ahead(s, l) => late[l] = 0

CopyCounts(j) ==
  j.stage = "read" /\ j.edit \in Copying /\ file[j.loop].known =>
    /\ j.cfg.count = file[j.loop].count
    /\ j.cfg.enabled => rest[j.loop] <= j.cfg.next
NewCounts(j) == j.edit = "register" => j.cfg.count = 0
OutCounts(j) ==
  j.stage = "write" =>
    \A k \in Loop : j.out[k].known =>
      /\ file[k].known \/ (j.edit = "register" /\ j.loop = k)
      /\ j.out[k].count = Total(k) + (IF j.edit = "mark" /\ j.loop = k THEN 1 ELSE 0)
      /\ j.out[k].enabled /\ ~(j.edit \in {"mark", "enable"} /\ j.loop = k) => rest[k] <= j.out[k].next
Counting(j) == NewCounts(j) /\ (~j.stale => CopyCounts(j) /\ OutCounts(j))

CountBody ==
  /\ NewUntouched /\ FileCounts /\ SeenCounts /\ Numbered /\ Within
  /\ FileRests /\ Rested /\ FewLate /\ \A a \in Actor : Counting(job[a])
CountInv == FormInv /\ (clean => CountBody)

-----------------------------------------------------------------------------
(* Who does what: the tick, its operation, and the registration of a loop. *)

\* The actors are told apart.
LEMMA Actors ==
  /\ \A s \in Mount : Ticker(s) \in Actor /\ Booter(s) \in Actor
  /\ \A e \in Editor : Hand(e) \in Actor
  /\ \A s, r \in Mount : (Ticker(s) = Ticker(r) => s = r) /\ Ticker(s) # Booter(r)
  /\ \A s \in Mount, e \in Editor : Ticker(s) # Hand(e)
BY DEF Actor, Ticker, Booter, Hand

\* An operation that has begun is not the empty one.
LEMMA OpsBegun ==
  /\ Idle.edit = "none" /\ Idle.stage = "none"
  /\ \A e, l, st : /\ Op(e, l, st).edit = e /\ Op(e, l, st).loop = l /\ Op(e, l, st).stage = st
                   /\ ~Op(e, l, st).stale
BY DEF Idle, Op

\* Whoever is in an operation is not a tick that is about to begin, to read the file or,
\* unless it marks, to fire a loop.
LEMMA Working ==
  ASSUME TickForm, NEW a \in Actor, job[a] # Idle, job[a].edit # "mark", Ticks
  PROVE  \A s \in Mount : a = Ticker(s) => tick[s].pc = "work"
BY DEF TickForm, Ticks, TickType

\* A step of an operation other than a mark, and of the store.
LEMMA FormJob ==
  ASSUME FormInv, Jobs, NEW a \in Actor, NEW j, job' = [job EXCEPT ![a] = j],
         job[a].edit # "mark", j.edit # "mark", \A s \in Mount : a = Ticker(s) => tick[s].pc = "work",
         tick' = tick, clean' => clean,
         \A l \in Loop : anchor'[l] = "none" => anchor[l] = "none",
         \A l \in Loop : j.edit = "register" /\ j.loop = l =>
           Registers(a, l) \/ (anchor[l] = "none" /\ anchor'[l] # "none")
  PROVE  FormInv'
<1>1. \A b \in Actor : job'[b] = IF b = a THEN j ELSE job[b]
  BY DEF Jobs
<1>2. TickForm'
  <2>1. ASSUME NEW s \in Mount, tick[s].pc \in {"idle", "read", "mark"} PROVE job'[Ticker(s)] = job[Ticker(s)]
    BY <1>1, <2>1, Actors
  <2>2. \A b \in Actor : job'[b].edit = "mark" => job'[b] = job[b]
    BY <1>1
  <2> QED
    BY <2>1, <2>2 DEF FormInv, TickForm
<1>3. OnceRegistered'
  <2>1. ASSUME NEW l \in Loop, NEW b \in Actor, Registers(b, l)' PROVE Registers(b, l) \/ (b = a /\ anchor[l] = "none" /\ anchor'[l] # "none")
    BY <1>1, <2>1 DEF Registers
  <2> QED
    BY <2>1 DEF FormInv, OnceRegistered
<1>4. clean' => OneTick'
  BY DEF FormInv, OneTick
<1> QED
  BY <1>2, <1>3, <1>4 DEF FormInv

\* A step that leaves the operations and the ticks alone.
LEMMA FormStill ==
  ASSUME FormInv, job' = job, tick' = tick, clean' => clean,
         \A l \in Loop : anchor'[l] = "none" => anchor[l] = "none"
  PROVE  FormInv'
BY DEF FormInv, TickForm, OnceRegistered, Registers, OneTick

\* A step of one tick and its operation, which is not a registration.
LEMMA FormTick ==
  ASSUME FormInv, Jobs, Ticks, NEW s \in Mount, NEW t, NEW j,
         tick' = [tick EXCEPT ![s] = t], job' = [job EXCEPT ![Ticker(s)] = j],
         t.pc \in {"idle", "read"} => t.due = {} /\ j = Idle,
         t.pc = "mark" => t.cur \notin t.due /\ (j # Idle => j.edit = "mark" /\ j.loop = t.cur),
         j.edit = "mark" => j.stage # "get" /\ t.pc = "mark",
         j.edit # "register", anchor' = anchor, clean' => clean,
         tick[s].pc # "idle" \/ t.pc = "idle" \/ (clean' => \A r \in Mount : tick[r].pc = "idle")
  PROVE  FormInv'
<1>1. \A b \in Actor : job'[b] = IF b = Ticker(s) THEN j ELSE job[b]
  BY Actors DEF Jobs
<1>2. \A r \in Mount : tick'[r] = IF r = s THEN t ELSE tick[r]
  BY DEF Ticks
<1>3. TickForm'
  <2>1. ASSUME NEW r \in Mount, r # s PROVE tick'[r] = tick[r] /\ job'[Ticker(r)] = job[Ticker(r)]
    BY <1>1, <1>2, <2>1, Actors
  <2>2. tick'[s] = t /\ job'[Ticker(s)] = j
    BY <1>1, <1>2, Actors
  <2>3. ASSUME NEW b \in Actor, job'[b].edit = "mark"
        PROVE  job'[b].stage # "get" /\ \E r \in Mount : b = Ticker(r) /\ tick'[r].pc = "mark"
    <3>1. CASE b = Ticker(s)
      BY <2>2, <2>3, <3>1
    <3>2. CASE b # Ticker(s)
      <4>1. job'[b] = job[b]
        BY <1>1, <3>2
      <4>2. PICK r \in Mount : b = Ticker(r) /\ tick[r].pc = "mark" /\ job[b].stage # "get"
        BY <2>3, <4>1 DEF FormInv, TickForm
      <4>3. tick'[r] = tick[r]
        BY <2>1, <3>2, <4>2
      <4> QED
        BY <4>1, <4>2, <4>3
    <3> QED
      BY <3>1, <3>2
  <2> QED
    BY <2>1, <2>2, <2>3 DEF FormInv, TickForm
<1>4. OnceRegistered'
  <2>1. ASSUME NEW l \in Loop, NEW b \in Actor, Registers(b, l)' PROVE Registers(b, l)
    BY <1>1, <2>1 DEF Registers
  <2> QED
    BY <2>1 DEF FormInv, OnceRegistered
<1>5. clean' => OneTick'
  BY <1>2 DEF FormInv, OneTick
<1> QED
  BY <1>3, <1>4, <1>5 DEF FormInv

LEMMA FormGet == ASSUME FormInv, Jobs, Ticks, NEW a \in Actor, Get(a) PROVE FormInv'
<1> DEFINE k == [job[a] EXCEPT !.stage = "read", !.cfg = Patched(job[a].edit, file[job[a].loop])]
<1>1. job[a].stage = "get" /\ job[a] # Idle /\ job[a].edit # "mark" /\ job[a] \in JobType
  BY OpsBegun DEF Get, FormInv, TickForm, Jobs
<1>2. k.edit = job[a].edit /\ k.loop = job[a].loop
  BY <1>1 DEF JobType
<1>3. \A s \in Mount : a = Ticker(s) => tick[s].pc = "work"
  BY <1>1, Working DEF FormInv
<1>4. tick' = tick /\ anchor' = anchor /\ clean' = clean
  BY DEF Get, store, history
<1>5. job' = [job EXCEPT ![a] = Idle] \/ job' = [job EXCEPT ![a] = k]
  BY DEF Get
<1> HIDE DEF k
<1>6. CASE job' = [job EXCEPT ![a] = Idle]
  BY <1>1, <1>3, <1>4, <1>6, OpsBegun, FormJob
<1>7. CASE job' = [job EXCEPT ![a] = k]
  <2>1. job[a].edit # "mark" /\ k.edit # "mark"
    BY <1>1, <1>2
  <2>2. \A l \in Loop : k.edit = "register" /\ k.loop = l =>
          Registers(a, l) \/ (anchor[l] = "none" /\ anchor'[l] # "none")
    BY <1>2 DEF Registers
  <2>3. tick' = tick /\ (clean' => clean) /\ \A l \in Loop : anchor'[l] = "none" => anchor[l] = "none"
    BY <1>4
  <2> QED
    BY <1>3, <1>7, <2>1, <2>2, <2>3, FormJob
<1> QED
  BY <1>5, <1>6, <1>7

LEMMA FormRead == ASSUME FormInv, Jobs, Ticks, Anchors, NEW a \in Actor, Read(a) PROVE FormInv'
<1> DEFINE k == [job[a] EXCEPT !.stage = "write", !.out = Output(job[a], file)]
<1>1. job[a].stage = "read" /\ job[a] # Idle /\ job[a] \in JobType
  BY OpsBegun DEF Read, Jobs
<1>2. k.edit = job[a].edit /\ k.loop = job[a].loop /\ k.stage = "write" /\ k # Idle
  BY <1>1, OpsBegun DEF JobType
<1>3. tick' = tick /\ (clean' => clean)
  BY DEF Read, history
<1>4. \A l \in Loop : anchor'[l] = "none" => anchor[l] = "none"
  BY DEF Read, Return, store, Anchors
<1>5. job' = [job EXCEPT ![a] = Idle] \/ job' = [job EXCEPT ![a] = k]
  BY DEF Read
<1>6. PICK j : job' = [job EXCEPT ![a] = j] /\ (j = Idle \/ (j.edit = job[a].edit /\ j.loop = job[a].loop /\ j.stage = "write"))
  <2> HIDE DEF k
  <2> QED
    BY <1>2, <1>5
<1>7. CASE job[a].edit # "mark"
  <2>1. \A s \in Mount : a = Ticker(s) => tick[s].pc = "work"
    BY <1>1, <1>7, Working DEF FormInv
  <2>2. j.edit # "mark"
    BY <1>6, <1>7, OpsBegun
  <2>3. \A l \in Loop : j.edit = "register" /\ j.loop = l =>
          Registers(a, l) \/ (anchor[l] = "none" /\ anchor'[l] # "none")
    BY <1>6, OpsBegun DEF Registers
  <2> QED
    BY <1>3, <1>4, <1>6, <1>7, <2>1, <2>2, <2>3, FormJob
<1>8. CASE job[a].edit = "mark"
  <2>1. PICK s \in Mount : a = Ticker(s) /\ tick[s].pc = "mark"
    BY <1>8 DEF FormInv, TickForm
  <2>2. job[a].loop = tick[s].cur /\ tick[s].cur \notin tick[s].due
    BY <1>1, <2>1 DEF FormInv, TickForm
  <2>3. tick' = [tick EXCEPT ![s] = tick[s]]
    BY <1>3 DEF Ticks
  <2>4. anchor' = anchor
    BY <1>8 DEF Read, Return, store
  <2>5. /\ tick[s].pc # "idle" /\ tick[s].pc # "read" /\ j.edit # "register"
        /\ j # Idle => j.edit = "mark" /\ j.loop = tick[s].cur
        /\ j.edit = "mark" => j.stage = "write"
    BY <1>6, <1>8, <2>1, <2>2, OpsBegun
  <2>6. job' = [job EXCEPT ![Ticker(s)] = j]
    BY <1>6, <2>1
  <2>7. tick[s].cur \notin tick[s].due
    BY <2>2
  <2> QED
    BY <1>3, <2>1, <2>3, <2>4, <2>5, <2>6, <2>7, FormTick
<1> QED
  BY <1>7, <1>8

\* What a write does to the operations of the others.
LEMMA WriteJobs ==
  ASSUME Jobs, NEW a \in Actor, Write(a)
  PROVE  /\ job'[a] = Idle
         /\ \A b \in Actor \ {a} :
              /\ job'[b].edit = job[b].edit /\ job'[b].loop = job[b].loop
              /\ job'[b].stage = job[b].stage /\ job'[b].cfg = job[b].cfg
              /\ job'[b].stale <=> (job[b].stale \/ Holds(job[b]))
              /\ job[b] = Idle => job'[b] = Idle
<1>1. job' = [b \in Actor |-> IF b = a THEN Idle ELSE [job[b] EXCEPT !.stale = @ \/ Holds(job[b])]]
  BY DEF Write
<1>2. ASSUME NEW b \in Actor, b # a
      PROVE  /\ job'[b].edit = job[b].edit /\ job'[b].loop = job[b].loop
             /\ job'[b].stage = job[b].stage /\ job'[b].cfg = job[b].cfg
             /\ job'[b].stale <=> (job[b].stale \/ Holds(job[b]))
  <2> DEFINE st == job[b].stale \/ Holds(job[b])
  <2>1. job'[b] = [job[b] EXCEPT !.stale = st]
    BY <1>1, <1>2
  <2>2. job[b] \in JobType
    BY DEF Jobs
  <2>3. job'[b].stale = st
    <3> HIDE DEF st
    <3> QED
      BY <2>1, <2>2 DEF JobType
  <2> HIDE DEF st
  <2>4. /\ job'[b].edit = job[b].edit /\ job'[b].loop = job[b].loop
        /\ job'[b].stage = job[b].stage /\ job'[b].cfg = job[b].cfg
    BY <2>1, <2>2 DEF JobType
  <2>5. job'[b].stale <=> (job[b].stale \/ Holds(job[b]))
    BY Zenon, <2>3 DEF st
  <2> QED
    BY <2>4, <2>5
<1>3. ASSUME NEW b \in Actor, b # a, job[b] = Idle PROVE job'[b] = Idle
  <2>1. job'[b] = [Idle EXCEPT !.stale = @ \/ Holds(Idle)]
    BY <1>1, <1>3
  <2>2. ~Holds(Idle) /\ Idle.stale = FALSE
    BY DEF Idle, Holds
  <2>3. ASSUME NEW r \in JobType, r.stale = FALSE PROVE [r EXCEPT !.stale = FALSE] = r
    BY <2>3 DEF JobType
  <2> QED
    BY <2>1, <2>2, <2>3, OpType
<1> QED
  BY <1>1, <1>2, <1>3

LEMMA FormWrite == ASSUME FormInv, Jobs, Ticks, Anchors, NEW a \in Actor, Write(a) PROVE FormInv'
<1>1. tick' = tick /\ (clean' => clean)
  BY DEF Write
<1>2. \A l \in Loop : anchor'[l] = "none" => anchor[l] = "none"
  BY DEF Write, Return, Anchors
<1>3. TickForm'
  <2>1. ASSUME NEW s \in Mount
        PROVE  /\ job[Ticker(s)] = Idle => job'[Ticker(s)] = Idle
               /\ job'[Ticker(s)] # Idle => /\ job'[Ticker(s)].edit = job[Ticker(s)].edit
                                            /\ job'[Ticker(s)].loop = job[Ticker(s)].loop
    BY WriteJobs, Actors
  <2>2. ASSUME NEW b \in Actor, job'[b].edit = "mark" PROVE job[b].edit = "mark" /\ job'[b].stage = job[b].stage
    BY <2>2, WriteJobs, OpsBegun
  <2> QED
    BY <1>1, <2>1, <2>2 DEF FormInv, TickForm
<1>4. OnceRegistered'
  <2>1. ASSUME NEW l \in Loop, NEW b \in Actor, Registers(b, l)' PROVE Registers(b, l)
    BY <2>1, WriteJobs, OpsBegun DEF Registers
  <2> QED
    BY <1>2, <2>1 DEF FormInv, OnceRegistered
<1> QED
  BY <1>1, <1>3, <1>4 DEF FormInv, OneTick

\* The steps of a tick.
LEMMA FormTicks ==
  ASSUME FormInv, Jobs, Ticks, NEW s \in Mount,
         TickStarts(s) \/ TickReads(s) \/ TickHalts(s) \/ TickTakes(s) \/ TickFires(s) \/ TickEnds(s)
  PROVE  FormInv'
<1>1. anchor' = anchor /\ (clean' => clean)
  <2>1. anchor' = anchor
    BY ZenonT(60) DEF TickStarts, TickReads, TickHalts, TickTakes, TickFires, TickEnds, store
  <2>2. clean' => clean
    BY Zenon DEF TickStarts, TickReads, TickHalts, TickTakes, TickFires, TickEnds, history
  <2> QED
    BY ZenonT(60), <2>1, <2>2
<1>2. job = [job EXCEPT ![Ticker(s)] = job[Ticker(s)]]
  BY DEF Jobs
<1>3. tick[s] \in TickType
  BY DEF Ticks
<1>4. job[Ticker(s)].edit = "mark" => tick[s].pc = "mark" /\ job[Ticker(s)].stage # "get"
  BY Actors DEF FormInv, TickForm
<1>5. CASE TickStarts(s)
  <2> DEFINE t == [NoTick EXCEPT !.pc = "read", !.over = {l \in Loop : anchor[l] = "over"},
                    !.streak = [l \in Loop |-> Streak(l)], !.passed = {l \in Loop : Passed(l)}]
  <2>1. t.pc = "read" /\ t.due = {}
    BY DEF NoTick
  <2>2. tick' = [tick EXCEPT ![s] = t] /\ job' = job /\ (clean' => \A r \in Mount : tick[r].pc = "idle")
    BY <1>5 DEF TickStarts
  <2>3. job[Ticker(s)] = Idle
    BY <1>5 DEF TickStarts, FormInv, TickForm
  <2> HIDE DEF t
  <2> QED
    BY <1>1, <1>2, <2>1, <2>2, <2>3, OpsBegun, FormTick
<1>6. CASE TickReads(s)
  <2>1. PICK h, d, n : tick' = [tick EXCEPT ![s].pc = "work", ![s].halting = h, ![s].due = d, ![s].seen = n]
    BY <1>6 DEF TickReads
  <2> DEFINE t == [tick[s] EXCEPT !.pc = "work", !.halting = h, !.due = d, !.seen = n]
  <2>2. t.pc = "work"
    BY <1>3 DEF TickType
  <2>3. tick' = [tick EXCEPT ![s] = t] /\ job' = job /\ tick[s].pc = "read"
    BY ZenonT(60), <1>6, <2>1 DEF TickReads, history
  <2>4. job[Ticker(s)] = Idle
    BY <2>3 DEF FormInv, TickForm
  <2> HIDE DEF t
  <2> QED
    BY <1>1, <1>2, <2>2, <2>3, <2>4, OpsBegun, FormTick
<1>7. CASE TickHalts(s)
  <2>1. PICK l \in tick[s].halting : /\ tick' = [tick EXCEPT ![s].halting = @ \ {l}]
                                     /\ job' = [job EXCEPT ![Ticker(s)] = Op("disable", l, "get")]
    BY <1>7 DEF TickHalts
  <2> DEFINE t == [tick[s] EXCEPT !.halting = @ \ {l}]
  <2>2. t.pc = "work" /\ tick[s].pc = "work"
    BY <1>3, <1>7 DEF TickType, TickHalts, Free
  <2>3. tick' = [tick EXCEPT ![s] = t]
    BY <2>1
  <2> HIDE DEF t
  <2>4. Op("disable", l, "get").edit = "disable"
    BY OpsBegun
  <2> QED
    BY <1>1, <2>1, <2>2, <2>3, <2>4, FormTick
<1>8. CASE TickTakes(s)
  <2>1. PICK l \in tick[s].due :
          \/ /\ tick' = [tick EXCEPT ![s].due = @ \ {l}]
             /\ job' = [job EXCEPT ![Ticker(s)] = Op("disable", l, "get")]
          \/ /\ tick' = [tick EXCEPT ![s].due = @ \ {l}, ![s].pc = "mark", ![s].cur = l]
             /\ job' = [job EXCEPT ![Ticker(s)] = [Op("mark", l, "read") EXCEPT !.wait = Delay(s, l)]]
    BY ZenonT(60), <1>8 DEF TickTakes
  <2> DEFINE t == [tick[s] EXCEPT !.due = @ \ {l}]
             u == [tick[s] EXCEPT !.due = @ \ {l}, !.pc = "mark", !.cur = l]
             mark == [Op("mark", l, "read") EXCEPT !.wait = Delay(s, l)]
  <2>2. t.pc = "work" /\ tick[s].pc = "work" /\ u.pc = "mark" /\ u.cur = l /\ u.due = tick[s].due \ {l}
    BY <1>3, <1>8 DEF TickType, TickTakes, Free
  <2>3. mark.edit = "mark" /\ mark.loop = l /\ mark.stage = "read"
    BY DEF Op, Idle
  <2>4. \/ tick' = [tick EXCEPT ![s] = t] /\ job' = [job EXCEPT ![Ticker(s)] = Op("disable", l, "get")]
        \/ tick' = [tick EXCEPT ![s] = u] /\ job' = [job EXCEPT ![Ticker(s)] = mark]
    BY <2>1
  <2> HIDE DEF t, u, mark
  <2>5. CASE tick' = [tick EXCEPT ![s] = t] /\ job' = [job EXCEPT ![Ticker(s)] = Op("disable", l, "get")]
    <3>1. Op("disable", l, "get").edit = "disable"
      BY OpsBegun
    <3> QED
      BY <1>1, <2>2, <2>5, <3>1, FormTick
  <2>6. CASE tick' = [tick EXCEPT ![s] = u] /\ job' = [job EXCEPT ![Ticker(s)] = mark]
    BY <1>1, <2>2, <2>3, <2>6, FormTick
  <2> QED
    BY <2>4, <2>5, <2>6
<1>9. CASE TickFires(s)
  <2> DEFINE t == [tick[s] EXCEPT !.pc = "work"]
  <2>1. t.pc = "work" /\ tick[s].pc = "mark"
    BY <1>3, <1>9 DEF TickType, TickFires
  <2>2. tick' = [tick EXCEPT ![s] = t] /\ job' = job /\ job[Ticker(s)] = Idle
    BY <1>9 DEF TickFires
  <2> HIDE DEF t
  <2> QED
    BY <1>1, <1>2, <2>1, <2>2, OpsBegun, FormTick
<1>10. CASE TickEnds(s)
  <2>1. NoTick.pc = "idle" /\ NoTick.due = {}
    BY DEF NoTick
  <2>2. tick' = [tick EXCEPT ![s] = NoTick] /\ job' = job /\ job[Ticker(s)] = Idle
    BY <1>10 DEF TickEnds, Free
  <2> QED
    BY <1>1, <1>2, <2>1, <2>2, OpsBegun, FormTick
<1> QED
  BY <1>5, <1>6, <1>7, <1>8, <1>9, <1>10

\* An edit of the store begins an operation of a hand that had none.
LEMMA FormHand ==
  ASSUME FormInv, Jobs, NEW e \in Editor, NEW op, Begins(e, op), op.edit # "mark", tick' = tick, clean' => clean,
         \A l \in Loop : anchor'[l] = "none" => anchor[l] = "none",
         \A l \in Loop : op.edit = "register" /\ op.loop = l => anchor[l] = "none" /\ anchor'[l] # "none"
  PROVE  FormInv'
<1>1. job' = [job EXCEPT ![Hand(e)] = op] /\ job[Hand(e)].edit # "mark"
  BY OpsBegun DEF Begins, Open
<1> QED
  BY <1>1, Actors, FormJob

LEMMA FormNext == ASSUME TypeOK, FormInv, [Next]_vars PROVE FormInv'
<1>0. Jobs /\ Ticks /\ Anchors /\ Missions
  BY Zenon DEF TypeOK, Jobs, Ticks, Anchors, Missions
<1>1. ASSUME NEW a \in Actor, Get(a) PROVE FormInv'
  BY <1>0, <1>1, FormGet
<1>2. ASSUME NEW a \in Actor, Read(a) PROVE FormInv'
  BY <1>0, <1>2, FormRead
<1>3. ASSUME NEW a \in Actor, Write(a) PROVE FormInv'
  BY <1>0, <1>3, FormWrite
<1>4. ASSUME NEW s \in Mount, Begin(s) PROVE FormInv'
  <2>1. job' = [job EXCEPT ![Booter(s)] = Op("boot", Nobody, "read")] /\ tick' = tick /\ anchor' = anchor /\ (clean' => clean)
    BY <1>4 DEF Begin, store, history
  <2>2. job[Booter(s)].edit # "mark"
    BY Actors DEF FormInv, TickForm
  <2>3. Op("boot", Nobody, "read").edit = "boot"
    BY OpsBegun
  <2> QED
    BY ZenonT(60), <1>0, <2>1, <2>2, <2>3, Actors, FormJob
<1>5. ASSUME NEW s \in Mount, Stop(s) PROVE FormInv'
  BY <1>5, FormStill DEF Stop, store, history
<1>6. ASSUME NEW s \in Mount,
             TickStarts(s) \/ TickReads(s) \/ TickHalts(s) \/ TickTakes(s) \/ TickFires(s) \/ TickEnds(s)
      PROVE  FormInv'
  BY Zenon, <1>0, <1>6, FormTicks
<1>7. ASSUME NEW e \in Editor, NEW l \in Loop, Create(e, l) PROVE FormInv'
  <2> DEFINE op == [Op("register", l, "read") EXCEPT !.cfg = Fresh(l)]
  <2>1. op.edit = "register" /\ op.loop = l
    BY DEF Op, Idle
  <2>2. Begins(e, op) /\ anchor[l] = "none" /\ anchor' = [anchor EXCEPT ![l] = "live"] /\ tick' = tick /\ (clean' => clean)
    BY <1>7 DEF Create, history
  <2> HIDE DEF op
  <2>3. anchor'[l] = "live" /\ \A k \in Loop : k # l => anchor'[k] = anchor[k]
    BY <1>0, <2>2 DEF Anchors
  <2> QED
    BY <1>0, <2>1, <2>2, <2>3, FormHand
<1>8. ASSUME NEW e \in Editor, NEW l \in Loop, Simple(e, l) PROVE FormInv'
  <2>1. PICK op : /\ Begins(e, op)
                  /\ op \in {Op("enable", l, "read"), Op("pause", l, "get"), Op("freeze", l, "get"), Op("remove", l, "read")}
    BY <1>8 DEF Simple, Edited
  <2>2. op.edit # "mark" /\ op.edit # "register"
    BY <2>1, OpsBegun
  <2>3. tick' = tick /\ anchor' = anchor /\ (clean' => clean)
    BY <1>8 DEF Simple, store, history
  <2> QED
    BY <1>0, <2>1, <2>2, <2>3, FormHand
<1>9. ASSUME NEW e \in Editor, NEW l \in Loop, Skip(e, l) PROVE FormInv'
  <2> DEFINE op == [Op("skip", l, "read") EXCEPT
                     !.cfg = [copy[l] EXCEPT !.next = (IF @ = 0 THEN now ELSE @) + Cadence[l]],
                     !.stale = copy[l] # file[l]]
  <2>1. op.edit = "skip"
    BY DEF Op, Idle
  <2>2. Begins(e, op) /\ tick' = tick /\ anchor' = anchor /\ (clean' => clean)
    BY <1>9 DEF Skip, Edited, store, history
  <2> HIDE DEF op
  <2> QED
    BY <1>0, <2>1, <2>2, FormHand
<1>10. ASSUME NEW e \in Editor, NEW l \in Loop, Retire(e, l) PROVE FormInv'
  <2>1. PICK op : Begins(e, op) /\ op \in {Op("archive", l, "get"), Op("delete", l, "get")}
    BY <1>10 DEF Retire, Edited
  <2>2. op.edit # "mark" /\ op.edit # "register"
    BY <2>1, OpsBegun
  <2>3. tick' = tick /\ (clean' => clean) /\ \A k \in Loop : anchor'[k] = "none" => anchor[k] = "none"
    BY <1>0, <1>10 DEF Retire, history, Anchors
  <2> QED
    BY <1>0, <2>1, <2>2, <2>3, FormHand
<1>11. ASSUME NEW e \in Editor, NEW l \in Loop, Sweep(e, l) PROVE FormInv'
  <2>1. Begins(e, Op("disable", l, "get")) /\ tick' = tick /\ anchor' = anchor /\ (clean' => clean)
    BY <1>11 DEF Sweep, store, history
  <2> QED
    BY <1>0, <2>1, OpsBegun, FormHand
<1>12. ASSUME NEW l \in Loop, AnchorEnds(l) PROVE FormInv'
  <2>1. \A k \in Loop : anchor'[k] = "none" => anchor[k] = "none"
    BY <1>0, <1>12 DEF AnchorEnds, Anchors
  <2> QED
    BY <1>12, <2>1, FormStill DEF AnchorEnds, history
<1>13. ASSUME NEW e \in Editor, NEW i \in DOMAIN child, ChildEnds(e, i) PROVE FormInv'
  <2>1. tick' = tick /\ anchor' = anchor /\ (clean' => clean)
    BY <1>13 DEF ChildEnds, store, history
  <2>2. CASE job' = job
    BY <2>1, <2>2, FormStill
  <2>3. CASE job' # job
    <3>1. PICK op : /\ Begins(e, op)
                    /\ op \in {Op("fail", child[i].loop, "get"), Op("approve", child[i].loop, "get")}
      BY <1>13, <2>3 DEF ChildEnds
    <3>2. op.edit # "mark" /\ op.edit # "register"
      BY <3>1, OpsBegun
    <3> QED
      BY <1>0, <2>1, <3>1, <3>2, FormHand
  <2> QED
    BY <2>2, <2>3
<1>14. CASE Crash
  <2>1. /\ tick' = [s \in Mount |-> NoTick] /\ job' = [a \in Actor |-> Idle] /\ anchor' = anchor
        /\ NoTick.pc = "idle" /\ NoTick.due = {}
    BY <1>14 DEF Crash, store, NoTick
  <2>2. \A a \in Actor : job'[a].edit = "none"
    BY <2>1, OpsBegun
  <2>3. TickForm'
    BY <2>1, <2>2, Actors DEF TickForm
  <2> QED
    BY <2>1, <2>2, <2>3 DEF FormInv, OnceRegistered, Registers, OneTick
<1>15. CASE Advance
  BY <1>15, FormStill DEF Advance, store, history
<1>16. CASE UNCHANGED vars
  BY <1>16, FormStill DEF vars, store, history
<1> QED
  BY Zenon, <1>1, <1>2, <1>3, <1>4, <1>5, <1>6, <1>7, <1>8, <1>9, <1>10, <1>11, <1>12, <1>13, <1>14, <1>15, <1>16, Steps

-----------------------------------------------------------------------------
(* Counting.                                                               *)

\* The iterations of a loop are finitely many, and so are the ticks that hold one.
LEMMA Counts ==
  ASSUME Missions, Past, NEW l \in Loop
  PROVE  /\ IsFiniteSet(Runs(l)) /\ Cardinality(Runs(l)) \in Nat
         /\ IsFiniteSet(InHand(l)) /\ Cardinality(InHand(l)) \in Nat
         /\ Tally(l) \in Nat /\ Total(l) \in Nat /\ Total(l) = Tally(l) + Cardinality(InHand(l))
<1>1. IsFiniteSet(1 .. Len(child)) /\ DOMAIN child = 1 .. Len(child)
  BY FS_Interval DEF Missions
<1>2. Runs(l) \subseteq 1 .. Len(child)
  BY <1>1 DEF Runs
<1>3. IsFiniteSet(Runs(l)) /\ Cardinality(Runs(l)) \in Nat
  BY <1>1, <1>2, FS_Subset, FS_CardinalityType
<1>4. IsFiniteSet(InHand(l)) /\ Cardinality(InHand(l)) \in Nat
  <2>1. InHand(l) \in SUBSET Mount /\ IsFiniteSet(Mount)
    BY LoopAssumption DEF InHand
  <2> QED
    BY <2>1, FS_Subset, FS_CardinalityType
<1>5. lost[l] \in Nat
  BY DEF Past
<1> QED
  BY <1>3, <1>4, <1>5 DEF Tally, Total

\* With one tick at a time, an iteration is in the hands of one.
LEMMA OneInHand ==
  ASSUME OneTick, NEW l \in Loop
  PROVE  /\ InHand(l) = {} => Cardinality(InHand(l)) = 0
         /\ \A s \in InHand(l) : InHand(l) = {s} /\ Cardinality(InHand(l)) = 1
<1>1. InHand(l) = {} => Cardinality(InHand(l)) = 0
  BY FS_EmptySet
<1>2. ASSUME NEW s \in InHand(l) PROVE InHand(l) = {s}
  BY DEF InHand, OneTick
<1> QED
  BY <1>1, <1>2, FS_Singleton

\* A loop nobody has run yet is in nobody's hands.
LEMMA UntouchedTotal ==
  ASSUME NEW l \in Loop, Untouched(l)
  PROVE  InHand(l) = {} /\ Tally(l) = 0 /\ Total(l) = 0
<1>1. InHand(l) = {} /\ Runs(l) = {} /\ lost[l] = 0
  BY DEF Untouched, InHand, Ahead, Taken
<1> QED
  BY <1>1, FS_EmptySet DEF Tally, Total

SameRuns ==
  DOMAIN child' = DOMAIN child /\
  \A i \in DOMAIN child : child'[i].loop = child[i].loop /\ child'[i].iter = child[i].iter

\* What a loop is still due rests: it is taken up again only after its delay.
Firing(s, l) == l \in tick[s].due \/ (Taken(s, l) /\ job[Ticker(s)] # Idle)

\* A step that counts nothing: the file, the missions and the history stand, no tick has
\* more ahead of it, no iteration changes hands, and every operation is sound.
LEMMA Quiet ==
  ASSUME TypeOK, CountBody, SameRuns, now' \in Nat, now <= now',
         file' = file, lost' = lost, rest' = rest, late' = late, wanted' = wanted,
         \A l \in Loop : anchor'[l] = "none" => anchor[l] = "none",
         \A l \in Loop, b \in Actor : Registers(b, l)' => anchor[l] = "none" \/ \E c \in Actor : Registers(c, l),
         \A l \in Loop : InHand(l)' = InHand(l),
         \A s \in Mount, l \in Loop : Ahead(s, l)' => Ahead(s, l) /\ tick'[s].seen[l] = tick[s].seen[l],
         \A s \in Mount, l \in Loop : Taken(s, l)' /\ Limited(l) => tick'[s].seen[l] < Halt[l].bound,
         \A s \in Mount, l \in Loop : Firing(s, l)' => Firing(s, l),
         \A b \in Actor : Counting(job'[b])
  PROVE  CountBody'
<1>0. Missions /\ Past /\ now \in Nat
  BY Zenon DEF TypeOK, Missions, Past
<1>1. \A l \in Loop : Runs(l)' = Runs(l)
  BY DEF Runs, SameRuns
<1>2. \A l \in Loop : Tally(l)' = Tally(l) /\ Total(l)' = Total(l)
  BY <1>1 DEF Tally, Total
<1>3. NewUntouched'
  BY <1>1 DEF CountBody, NewUntouched, Untouched
<1>4. FileCounts' /\ SeenCounts'
  BY <1>2 DEF CountBody, FileCounts, SeenCounts
<1>5. Numbered'
  <2>1. ASSUME NEW l \in Loop, NEW i \in Runs(l) PROVE child'[i].iter = child[i].iter
    BY DEF Runs, SameRuns
  <2> QED
    BY <1>1, <1>2, <2>1 DEF CountBody, Numbered
<1>6. Within' /\ FileRests'
  BY <1>2 DEF CountBody, Within, FileRests
<1>7. Rested'
  <2>1. ASSUME NEW s \in Mount, NEW l \in Loop, Firing(s, l)' PROVE rest[l] <= now'
    <3>1. rest[l] <= now /\ rest[l] \in Nat
      BY <1>0, <2>1 DEF CountBody, Rested, Firing, Past
    <3> QED
      BY <1>0, <3>1
  <2> QED
    BY <2>1 DEF Rested, Firing
<1>8. FewLate'
  BY DEF CountBody, FewLate
<1>9. ASSUME NEW j, Counting(j) PROVE Counting(j)'
  BY <1>2, <1>9 DEF Counting, NewCounts, CopyCounts, OutCounts
<1> QED
  BY <1>3, <1>4, <1>5, <1>6, <1>7, <1>8, <1>9 DEF CountBody

\* A step of one operation, which a tick that fires a loop neither begins nor ends.
LEMMA QuietJob ==
  ASSUME TypeOK, CountBody, SameRuns, now' = now, tick' = tick,
         file' = file, lost' = lost, rest' = rest, late' = late, wanted' = wanted,
         \A l \in Loop : anchor'[l] = "none" => anchor[l] = "none",
         NEW a \in Actor, NEW j, job' = [job EXCEPT ![a] = j], Counting(j),
         j.edit = "register" => Registers(a, j.loop) \/ anchor[j.loop] = "none",
         \A s \in Mount : a = Ticker(s) /\ tick[s].pc = "mark" => job[a] # Idle /\ j # Idle
  PROVE  CountBody'
<1>1. \A b \in Actor : job'[b] = IF b = a THEN j ELSE job[b]
  BY DEF TypeOK
<1>2. \A s \in Mount : tick[s].pc = "mark" => (job'[Ticker(s)] = Idle <=> job[Ticker(s)] = Idle)
  BY <1>1, Actors
<1>3. \A l \in Loop : InHand(l)' = InHand(l)
  BY <1>2 DEF InHand
<1>4. \A s \in Mount, l \in Loop : Ahead(s, l)' => Ahead(s, l) /\ tick'[s].seen[l] = tick[s].seen[l]
  BY DEF Ahead, Taken
<1>5. \A s \in Mount, l \in Loop : Taken(s, l)' /\ Limited(l) => tick'[s].seen[l] < Halt[l].bound
  BY DEF Taken, CountBody, SeenCounts
<1>6. \A s \in Mount, l \in Loop : Firing(s, l)' => Firing(s, l)
  BY <1>2 DEF Firing, Taken
<1>7. \A l \in Loop, b \in Actor : Registers(b, l)' => anchor[l] = "none" \/ \E c \in Actor : Registers(c, l)
  BY <1>1 DEF Registers
<1>8. \A b \in Actor : Counting(job'[b])
  BY <1>1 DEF CountBody
<1>9. now' \in Nat /\ now <= now'
  BY DEF TypeOK
<1> QED
  BY <1>3, <1>4, <1>5, <1>6, <1>7, <1>8, <1>9, Quiet

\* A step of no operation and no tick.
LEMMA QuietStill ==
  ASSUME TypeOK, CountBody, SameRuns, now' \in Nat, now <= now', tick' = tick, job' = job,
         file' = file, lost' = lost, rest' = rest, late' = late, wanted' = wanted,
         \A l \in Loop : anchor'[l] = "none" => anchor[l] = "none"
  PROVE  CountBody'
<1>1. \A l \in Loop : InHand(l)' = InHand(l)
  BY DEF InHand
<1>2. \A s \in Mount, l \in Loop : /\ Ahead(s, l)' => Ahead(s, l) /\ tick'[s].seen[l] = tick[s].seen[l]
                                   /\ Taken(s, l)' /\ Limited(l) => tick'[s].seen[l] < Halt[l].bound
                                   /\ Firing(s, l)' => Firing(s, l)
  BY DEF Ahead, Taken, Firing, CountBody, SeenCounts
<1>3. \A l \in Loop, b \in Actor : Registers(b, l)' => anchor[l] = "none" \/ \E c \in Actor : Registers(c, l)
  BY DEF Registers
<1>4. \A b \in Actor : Counting(job'[b])
  BY DEF CountBody
<1> QED
  BY <1>1, <1>2, <1>3, <1>4, Quiet

\* An operation that begins has read nothing.
LEMMA FreshCounts ==
  /\ Counting(Idle)
  /\ \A e \in Edit \ {"register"}, l \in Loop : Counting(Op(e, l, "get"))
  /\ \A e \in Edit \ (Copying \cup {"register"}), l \in Loop : Counting(Op(e, l, "read"))
<1>1. Counting(Idle)
  BY OpsBegun DEF Counting, NewCounts, CopyCounts, OutCounts
<1>2. ASSUME NEW e \in Edit \ {"register"}, NEW l \in Loop PROVE Counting(Op(e, l, "get"))
  <2>1. Op(e, l, "get").stage = "get" /\ Op(e, l, "get").edit = e
    BY OpsBegun
  <2> QED
    BY <2>1 DEF Counting, NewCounts, CopyCounts, OutCounts
<1>3. ASSUME NEW e \in Edit \ (Copying \cup {"register"}), NEW l \in Loop PROVE Counting(Op(e, l, "read"))
  <2>1. Op(e, l, "read").stage = "read" /\ Op(e, l, "read").edit = e
    BY OpsBegun
  <2> QED
    BY <2>1 DEF Counting, NewCounts, CopyCounts, OutCounts
<1> QED
  BY <1>1, <1>2, <1>3

\* getLoop copies the count and the next run of an entry, or switches it off.
LEMMA CountGet == ASSUME TypeOK, WordInv, FormInv, CountBody, NEW a \in Actor, Get(a) PROVE CountBody'
<1> DEFINE new == Patched(job[a].edit, file[job[a].loop])
           k == [job[a] EXCEPT !.stage = "read", !.cfg = new]
           c == file[job[a].loop]
<1>0. Jobs /\ Ticks /\ Registry
  BY Zenon DEF TypeOK, Jobs, Ticks, Registry
<1>1. job[a].stage = "get" /\ job[a] # Idle /\ job[a].edit # "mark" /\ job[a] \in JobType
  BY <1>0, OpsBegun DEF Get, FormInv, TickForm, Jobs
<1>2. /\ k.edit = job[a].edit /\ k.loop = job[a].loop /\ k.stage = "read" /\ k.cfg = new
      /\ k.stale = job[a].stale
  BY <1>1 DEF JobType
<1>3. \A s \in Mount : a = Ticker(s) => tick[s].pc = "work"
  BY <1>0, <1>1, Working DEF FormInv
<1>4. /\ tick' = tick /\ anchor' = anchor /\ file' = file /\ child' = child /\ now' = now
      /\ lost' = lost /\ rest' = rest /\ late' = late /\ wanted' = wanted
  BY DEF Get, store, history
<1>5. job' = [job EXCEPT ![a] = Idle] \/ job' = [job EXCEPT ![a] = k]
  BY DEF Get
<1>6. c \in Config /\ job[a].loop \in Loop
  BY <1>0, <1>1 DEF JobType, Registry
<1>7. ASSUME c.known PROVE new.count = c.count /\ (new.enabled => c.enabled /\ new.next = c.next)
  <2> HIDE DEF c
  <2>1. CASE job[a].edit \in Turning
    <3>1. Patched(job[a].edit, c) = [c EXCEPT !.enabled = FALSE, !.next = 0]
      BY <1>7, <2>1 DEF Patched, Turning
    <3> QED
      BY <1>6, <3>1 DEF Config, c
  <2>2. CASE job[a].edit \notin Turning
    <3>1. /\ Patched(job[a].edit, c).count = c.count /\ Patched(job[a].edit, c).enabled = c.enabled
          /\ Patched(job[a].edit, c).next = c.next
      BY <1>6, <2>2 DEF Patched, Config
    <3> QED
      BY <3>1 DEF c
  <2> QED
    BY <2>1, <2>2
<1> HIDE DEF k, new
<1>8. Counting(k)
  <2>1. job[a].edit # "register" \/ k.cfg.count = 0
    <3>1. CASE job[a].edit = "register"
      BY <1>1, <3>1 DEF WordInv, Sound, Begun
    <3> QED
      BY <3>1
  <2> QED
    BY <1>2, <1>6, <1>7, <2>1 DEF Counting, NewCounts, CopyCounts, OutCounts, CountBody, FileRests
<1>9. SameRuns
  BY <1>4 DEF SameRuns
<1>10. CASE job' = [job EXCEPT ![a] = Idle]
  BY <1>3, <1>4, <1>9, <1>10, FreshCounts, OpsBegun, QuietJob
<1>11. CASE job' = [job EXCEPT ![a] = k]
  BY <1>2, <1>3, <1>4, <1>8, <1>9, <1>11, QuietJob DEF Registers
<1> QED
  BY <1>5, <1>10, <1>11

\* What an operation is about to write, once it has read the file, counts what there is
\* to count, and one more for the iteration it marks.
LEMMA OutSound ==
  ASSUME TypeOK, WordInv, CountBody, NEW a \in Actor, job[a].stage = "read", ~job[a].stale,
         ~Pointless(job[a], file), NEW n \in Loop, Output(job[a], file)[n].known
  PROVE  LET out == Output(job[a], file)
         IN /\ file[n].known \/ (job[a].edit = "register" /\ job[a].loop = n)
            /\ out[n].count = Total(n) + (IF job[a].edit = "mark" /\ job[a].loop = n THEN 1 ELSE 0)
            /\ out[n].enabled /\ ~(job[a].edit \in {"mark", "enable"} /\ job[a].loop = n) => rest[n] <= out[n].next
<1> DEFINE j == job[a]
           out == Output(j, file)
<1>0. Jobs /\ Registry /\ Past /\ Missions /\ now \in Nat
  BY Zenon DEF TypeOK, Jobs, Registry, Past, Missions
<1>1. j \in JobType /\ j.loop \in Loop /\ j.edit # "none" /\ Counting(j)
  <2>1. j \in JobType /\ j.edit # "none" /\ Counting(j)
    BY <1>0 DEF Jobs, WordInv, Sound, Begun, CountBody
  <2> QED
    BY <2>1 DEF JobType
<1>2. /\ file[n] \in Config /\ Total(n) \in Nat /\ rest[n] \in Nat
      /\ file[n].known => file[n].count = Total(n)
      /\ file[n].known /\ file[n].enabled => rest[n] <= file[n].next
  BY <1>0, Counts DEF Registry, Past, CountBody, FileCounts, FileRests
<1>3. CASE j.edit = "boot"
  <2>1. out = Loaded(file)
    BY <1>3 DEF Output
  <2>2. out[n] = file[n] \/ (out[n] = [file[n] EXCEPT !.next = now] /\ file[n].next < now)
    BY <2>1 DEF Loaded, Overdue
  <2>3. /\ out[n].known = file[n].known /\ out[n].enabled = file[n].enabled /\ out[n].count = file[n].count
        /\ out[n].next = file[n].next \/ (out[n].next = now /\ file[n].next < now)
    BY <1>2, <2>2 DEF Config
  <2>4. file[n].next \in Nat
    BY <1>2 DEF Config
  <2> HIDE DEF out
  <2>5. file[n].known /\ out[n].count = Total(n) /\ (out[n].enabled => rest[n] <= out[n].next)
    BY <1>0, <1>2, <2>3, <2>4 DEF out
  <2> QED
    BY <1>2, <1>3, <2>5 DEF out
<1>4. CASE j.edit # "boot" /\ j.loop # n
  <2>1. out[n] = file[n]
    BY <1>0, <1>4 DEF Output, Registry
  <2> QED
    BY <1>2, <1>4, <2>1
<1>5. CASE j.edit # "boot" /\ j.loop = n
  <2> DEFINE w == Written(j, file[n])
  <2>1. out[n] = w
    BY <1>0, <1>5 DEF Output, Registry
  <2>2. CASE j.edit = "mark"
    <3>1. file[n].known /\ w.count = file[n].count + 1
      BY <1>2, <1>5, <2>2 DEF Written, Pointless, Config
    <3> QED
      BY <1>2, <1>5, <2>1, <2>2, <3>1
  <2>3. CASE j.edit = "enable"
    <3>1. file[n].known /\ w.count = file[n].count
      BY <1>2, <1>5, <2>3 DEF Written, Pointless, Config
    <3> QED
      BY <1>2, <1>5, <2>1, <2>3, <3>1
  <2>4. CASE j.edit \in {"remove", "delete"}
    <3>1. ~w.known
      BY <2>4 DEF Written, Absent
    <3> QED
      BY <2>1, <3>1
  <2>5. CASE j.edit = "register"
    <3>1. w = j.cfg /\ w.count = 0
      BY <1>1, <2>5 DEF Written, Counting, NewCounts
    <3>2. w.next \in Nat
      BY <1>1, <3>1 DEF JobType, Config
    <3>3. Untouched(n)
      BY <1>5, <2>5 DEF CountBody, NewUntouched, Registers
    <3>4. Total(n) = 0 /\ rest[n] = 0
      BY <3>3, UntouchedTotal DEF Untouched
    <3> QED
      BY <1>5, <2>1, <2>5, <3>1, <3>2, <3>4
  <2>6. CASE j.edit \in Copying
    <3>1. w = j.cfg /\ file[n].known
      BY <1>5, <2>6 DEF Written, Copying, Pointless
    <3>2. j.cfg.count = file[n].count /\ (j.cfg.enabled => rest[n] <= j.cfg.next)
      BY <1>1, <1>5, <2>6, <3>1 DEF Counting, CopyCounts
    <3> QED
      BY <1>2, <1>5, <2>1, <2>6, <3>1, <3>2 DEF Copying
  <2>7. j.edit \in {"mark", "enable", "remove", "delete", "register"} \cup Copying
    BY <1>1, <1>5 DEF JobType, Edit, Copying
  <2> QED
    BY <2>2, <2>3, <2>4, <2>5, <2>6, <2>7
<1> QED
  BY <1>3, <1>4, <1>5

\* A mark that finds the loop gone returns: its iteration is in hand and not counted.
LEMMA CountVoid ==
  ASSUME TypeOK, FormInv, OneTick, CountBody, NEW a \in Actor, job[a].edit = "mark", job[a].stage = "read",
         ~file[job[a].loop].known, job' = [job EXCEPT ![a] = Idle], tick' = tick, child' = child, now' = now,
         anchor' = anchor, file' = file, lost' = lost, rest' = rest, late' = late, wanted' = wanted
  PROVE  CountBody'
<1>0. Jobs /\ Ticks /\ Missions /\ Past
  BY Zenon DEF TypeOK, Jobs, Ticks, Missions, Past
<1>1. PICK s \in Mount : a = Ticker(s) /\ tick[s].pc = "mark"
  BY DEF FormInv, TickForm
<1>2. job[a] # Idle /\ job[a].loop = tick[s].cur
  BY <1>1, OpsBegun DEF FormInv, TickForm
<1> DEFINE l == tick[s].cur
<1>3. l \in Loop /\ Taken(s, l) /\ ~file[l].known
  BY <1>0, <1>1, <1>2 DEF Ticks, TickType, Taken
<1>4. \A b \in Actor : job'[b] = IF b = a THEN Idle ELSE job[b]
  BY <1>0 DEF Jobs
<1>5. \A n \in Loop : Runs(n)' = Runs(n) /\ Tally(n)' = Tally(n)
  BY DEF Runs, Tally
<1>6. ASSUME NEW n \in Loop, n # l PROVE Total(n)' = Total(n)
  <2>1. \A r \in Mount : r # s => job'[Ticker(r)] = job[Ticker(r)]
    BY <1>1, <1>4, Actors
  <2>2. InHand(n)' = InHand(n)
    BY <1>6, <2>1 DEF InHand
  <2> QED
    BY <1>5, <2>2 DEF Total
<1>7. \A r \in Mount, n \in Loop : (Ahead(r, n)' <=> Ahead(r, n)) /\ (Taken(r, n)' <=> Taken(r, n))
  BY DEF Ahead, Taken
<1>8. \A b \in Actor, n \in Loop : Registers(b, n)' => Registers(b, n)
  BY <1>4, OpsBegun DEF Registers
<1>9. NewUntouched'
  BY <1>5, <1>7, <1>8 DEF CountBody, NewUntouched, Untouched
<1>10. FileCounts'
  BY <1>3, <1>6 DEF CountBody, FileCounts
<1>11. SeenCounts'
  BY <1>5, <1>7 DEF CountBody, SeenCounts
<1>12. Numbered' /\ Within' /\ FileRests'
  BY <1>5 DEF CountBody, Numbered, Within, FileRests
<1>13. Rested'
  <2>1. \A r \in Mount : job'[Ticker(r)] # Idle => job[Ticker(r)] # Idle
    BY <1>4, Actors
  <2> QED
    BY <1>7, <2>1 DEF CountBody, Rested
<1>14. FewLate'
  BY <1>7 DEF CountBody, FewLate
<1>15. ASSUME NEW b \in Actor, NEW j, j = job'[b] PROVE Counting(j)'
  <2>1. CASE b = a
    BY <1>4, <1>15, <2>1, OpsBegun DEF Counting, NewCounts, CopyCounts, OutCounts
  <2>2. CASE b # a
    <3>1. Counting(j) /\ j = job[b]
      BY <1>4, <1>15, <2>2 DEF CountBody
    <3>2. ASSUME ~j.stale, j.stage = "write", j.out[l].known PROVE FALSE
      <4>1. j.edit = "register" /\ j.loop = l
        BY <1>3, <3>1, <3>2 DEF Counting, OutCounts
      <4>2. Untouched(l)
        BY <1>3, <3>1, <4>1 DEF CountBody, NewUntouched, Registers
      <4> QED
        BY <1>3, <4>2 DEF Untouched, Ahead
    <3>3. \A n \in Loop : n = l \/ Total(n)' = Total(n)
      BY <1>6
    <3> QED
      BY <3>1, <3>2, <3>3 DEF Counting, NewCounts, CopyCounts, OutCounts
  <2> QED
    BY <2>1, <2>2
<1>16. \A b \in Actor : Counting(job[b])'
  BY <1>15
<1> QED
  BY <1>9, <1>10, <1>11, <1>12, <1>13, <1>14, <1>16 DEF CountBody

\* The read of the file.
LEMMA CountRead ==
  ASSUME TypeOK, WordInv, FormInv, OneTick, CountBody, NEW a \in Actor, Read(a)
  PROVE  CountBody'
<1> DEFINE out == Output(job[a], file)
           k == [job[a] EXCEPT !.stage = "write", !.out = out]
<1>0. Jobs /\ Ticks /\ Anchors
  BY Zenon DEF TypeOK, Jobs, Ticks, Anchors
<1>1. job[a].stage = "read" /\ job[a] # Idle /\ job[a] \in JobType
  BY <1>0, OpsBegun DEF Read, Jobs
<1>2. /\ k.edit = job[a].edit /\ k.loop = job[a].loop /\ k.stage = "write" /\ k.out = out
      /\ k.stale = job[a].stale /\ k.cfg = job[a].cfg
  BY <1>1 DEF JobType
<1>3. /\ tick' = tick /\ file' = file /\ child' = child /\ now' = now
      /\ lost' = lost /\ rest' = rest /\ late' = late /\ wanted' = wanted
  BY DEF Read, history
<1>4. \A l \in Loop : anchor'[l] = "none" => anchor[l] = "none"
  BY <1>0 DEF Read, Return, store, Anchors
<1>5. \/ Pointless(job[a], file) /\ job' = [job EXCEPT ![a] = Idle]
      \/ ~Pointless(job[a], file) /\ job' = [job EXCEPT ![a] = k]
  BY DEF Read
<1>6. SameRuns
  BY <1>3 DEF SameRuns
<1>7. ASSUME ~Pointless(job[a], file) PROVE Counting(k)
  <2>1. NewCounts(k)
    BY <1>2 DEF CountBody, Counting, NewCounts
  <2>2. ASSUME ~k.stale PROVE CopyCounts(k) /\ OutCounts(k)
    <3>1. CopyCounts(k)
      BY <1>2 DEF CopyCounts
    <3>2. OutCounts(k)
      <4> HIDE DEF k
      <4> SUFFICES ASSUME NEW n \in Loop, out[n].known
                   PROVE  /\ file[n].known \/ (job[a].edit = "register" /\ job[a].loop = n)
                          /\ out[n].count = Total(n) + (IF job[a].edit = "mark" /\ job[a].loop = n THEN 1 ELSE 0)
                          /\ out[n].enabled /\ ~(job[a].edit \in {"mark", "enable"} /\ job[a].loop = n) => rest[n] <= out[n].next
        BY <1>2 DEF OutCounts
      <4> QED
        BY <1>1, <1>2, <1>7, <2>2, OutSound
    <3> QED
      BY <3>1, <3>2
  <2> QED
    BY <2>1, <2>2 DEF Counting
<1> HIDE DEF k
<1>8. CASE job[a].edit = "mark" /\ Pointless(job[a], file)
  <2>1. ~file[job[a].loop].known /\ anchor' = anchor
    BY <1>8 DEF Pointless, Read, Return
  <2> QED
    BY <1>1, <1>3, <1>5, <1>8, <2>1, CountVoid
<1>9. CASE job[a].edit # "mark" /\ Pointless(job[a], file)
  <2>1. \A s \in Mount : a = Ticker(s) => tick[s].pc = "work"
    BY <1>0, <1>1, <1>9, Working DEF FormInv
  <2> QED
    BY <1>3, <1>4, <1>5, <1>6, <1>9, <2>1, FreshCounts, OpsBegun, QuietJob
<1>10. CASE ~Pointless(job[a], file)
  <2>1. k # Idle
    BY <1>2, OpsBegun
  <2> QED
    BY <1>1, <1>2, <1>3, <1>4, <1>5, <1>6, <1>7, <1>10, <2>1, QuietJob DEF Registers
<1> QED
  BY <1>5, <1>8, <1>9, <1>10

\* A write that rests on what the file says: a mark is in hand from then on, and every
\* other operation that holds a copy of the file is stale.
LEMMA CountWrite ==
  ASSUME TypeOK, FormInv, OneTick, CountBody, NEW a \in Actor, Write(a), ~job[a].stale
  PROVE  CountBody'
<1> DEFINE j == job[a]
           one(n) == IF j.edit = "mark" /\ j.loop = n THEN 1 ELSE 0
<1>0. Jobs /\ Ticks /\ Missions /\ Past /\ Anchors
  BY Zenon DEF TypeOK, Jobs, Ticks, Missions, Past, Anchors
<1>1. j.stage = "write" /\ j # Idle /\ j \in JobType /\ j.loop \in Loop
  <2>1. j.stage = "write" /\ j \in JobType
    BY <1>0 DEF Write, Jobs
  <2> QED
    BY <2>1, OpsBegun DEF JobType
<1>2. /\ tick' = tick /\ child' = child /\ now' = now /\ lost' = lost /\ file' = j.out
      /\ wanted' = [wanted EXCEPT ![j.loop] = Wish(j)]
  BY DEF Write
<1>3. \A l \in Loop : anchor'[l] = "none" => anchor[l] = "none"
  BY <1>0 DEF Write, Return, Anchors
<1>4. \A n \in Loop : Runs(n)' = Runs(n) /\ Tally(n)' = Tally(n)
  BY <1>2 DEF Runs, Tally
<1>5. OutCounts(j)
  BY DEF CountBody, Counting
<1>6. \A r \in Mount, n \in Loop : (Ahead(r, n)' <=> Ahead(r, n)) /\ (Taken(r, n)' <=> Taken(r, n))
  BY <1>2 DEF Ahead, Taken
<1>7. \A s \in Mount : tick[s].pc = "mark" /\ a # Ticker(s) => (job'[Ticker(s)] = Idle <=> job[Ticker(s)] = Idle)
  <2> SUFFICES ASSUME NEW s \in Mount, tick[s].pc = "mark", a # Ticker(s)
               PROVE  job'[Ticker(s)] = Idle <=> job[Ticker(s)] = Idle
    OBVIOUS
  <2>1. job[Ticker(s)] # Idle => job[Ticker(s)].edit = "mark"
    BY DEF FormInv, TickForm
  <2> DEFINE b == Ticker(s)
  <2>2. b \in Actor \ {a} /\ Idle.edit = "none"
    BY Actors, OpsBegun
  <2> HIDE DEF b
  <2>3. job'[b].edit = job[b].edit /\ (job[b] = Idle => job'[b] = Idle)
    BY <1>0, <2>2, WriteJobs
  <2>4. job[b] # Idle => job[b].edit = "mark"
    BY <2>1 DEF b
  <2> QED
    BY <2>2, <2>3, <2>4 DEF b
<1>8. \A s \in Mount : a = Ticker(s) /\ tick[s].pc = "mark" => j.edit = "mark" /\ j.loop = tick[s].cur
  BY <1>1 DEF FormInv, TickForm
<1>9. j.edit = "mark" => \E s \in Mount : a = Ticker(s) /\ tick[s].pc = "mark"
  BY DEF FormInv, TickForm
<1>10. \A n \in Loop : Total(n)' = Total(n) + one(n)
  <2> SUFFICES ASSUME NEW n \in Loop PROVE Total(n)' = Total(n) + one(n)
    OBVIOUS
  <2>1. CASE j.edit = "mark" /\ j.loop = n
    <3>1. PICK s \in Mount : a = Ticker(s) /\ tick[s].pc = "mark" /\ tick[s].cur = n
      BY <1>8, <1>9, <2>1
    <3>2. InHand(n) = {}
      BY <1>1, <3>1 DEF InHand, OneTick
    <3>3. InHand(n)' = {s}
      <4>1. job'[Ticker(s)] = Idle
        BY <1>0, <3>1, WriteJobs
      <4>2. \A r \in Mount : tick[r].pc = "mark" => r = s
        BY <3>1 DEF OneTick
      <4> QED
        BY <1>2, <3>1, <4>1, <4>2 DEF InHand
    <3>4. Cardinality(InHand(n)) = 0 /\ Cardinality(InHand(n)') = 1
      BY <3>2, <3>3, FS_EmptySet, FS_Singleton
    <3>5. Tally(n) \in Nat
      BY <1>0, Counts
    <3> QED
      BY <1>4, <2>1, <3>4, <3>5 DEF Total
  <2>2. CASE ~(j.edit = "mark" /\ j.loop = n)
    <3>1. InHand(n)' = InHand(n)
      BY <1>2, <1>7, <1>8, <2>2 DEF InHand
    <3> QED
      BY <1>0, <1>4, <2>2, <3>1, Counts DEF Total
  <2> QED
    BY <2>1, <2>2
<1>11. NewUntouched'
  <2> SUFFICES ASSUME NEW l \in Loop, (anchor[l] = "none" \/ \E b \in Actor : Registers(b, l))'
               PROVE  Untouched(l)'
    BY DEF NewUntouched
  <2>1. /\ anchor[l] = "none" \/ \E b \in Actor : Registers(b, l)
        /\ ~Registers(a, l)
    <3>1. CASE anchor'[l] = "none"
      BY <1>3, <3>1 DEF FormInv, OnceRegistered
    <3>2. CASE \E b \in Actor : Registers(b, l)'
      <4>1. PICK b \in Actor : Registers(b, l)'
        BY <3>2
      <4>2. job'[a].edit = "none"
        BY <1>0, WriteJobs, OpsBegun
      <4>3. b # a /\ Registers(b, l)
        BY <1>0, <4>1, <4>2, WriteJobs DEF Registers
      <4> QED
        BY <4>3 DEF FormInv, OnceRegistered
    <3> QED
      BY <3>1, <3>2
  <2>2. Untouched(l)
    BY <2>1 DEF CountBody, NewUntouched
  <2>3. ~file'[l].known
    BY <1>1, <1>2, <1>5, <2>1, <2>2 DEF OutCounts, Untouched, Registers
  <2>4. ~(j.edit = "mark" /\ j.loop = l)
    BY <1>8, <1>9, <2>2 DEF Untouched, Ahead, Taken
  <2>5. rest'[l] = 0
    <3>1. rest[l] = 0
      BY <2>2 DEF Untouched
    <3> QED
      BY <1>0, <2>4, <3>1 DEF Write, Past
  <2> QED
    BY <1>2, <1>4, <1>6, <2>2, <2>3, <2>5 DEF Untouched
<1>12. FileCounts'
  BY <1>1, <1>2, <1>5, <1>10 DEF FileCounts, OutCounts
<1>13. SeenCounts' /\ Numbered' /\ Within'
  BY <1>2, <1>4, <1>6 DEF CountBody, SeenCounts, Numbered, Within
<1>14. FileRests'
  <2> SUFFICES ASSUME NEW n \in Loop, j.out[n].known, j.out[n].enabled PROVE rest'[n] <= j.out[n].next
    BY <1>2 DEF FileRests
  <2>1. j.out[n].next \in Nat
    BY <1>1 DEF JobType, Config
  <2>2. CASE j.edit = "mark" /\ j.loop = n
    <3>1. rest'[n] = j.out[n].next
      BY <1>0, <2>2 DEF Write, Past
    <3> QED
      BY <2>1, <3>1
  <2>3. CASE j.edit = "enable" /\ j.loop = n
    <3>1. rest'[n] = 0
      BY <1>0, <2>3 DEF Write, Past
    <3> QED
      BY <2>1, <3>1
  <2>4. CASE ~(j.edit \in {"mark", "enable"} /\ j.loop = n)
    <3>1. rest'[n] = rest[n]
      BY <1>0, <1>1, <2>4 DEF Write, Past
    <3> QED
      BY <1>1, <1>5, <2>4, <3>1 DEF OutCounts
  <2> QED
    BY <2>2, <2>3, <2>4
<1>15. Rested'
  <2> SUFFICES ASSUME NEW s \in Mount, NEW l \in Loop,
                      l \in tick[s].due \/ (Taken(s, l) /\ job'[Ticker(s)] # Idle)
               PROVE  rest'[l] <= now
    BY <1>2, <1>6 DEF Rested
  <2>1. rest[l] <= now
    <3>1. Taken(s, l) /\ job'[Ticker(s)] # Idle => job[Ticker(s)] # Idle
      BY <1>1, <1>7 DEF Taken
    <3> QED
      BY <3>1 DEF CountBody, Rested
  <2>2. ~(j.edit = "mark" /\ j.loop = l)
    <3> SUFFICES ASSUME j.edit = "mark", j.loop = l PROVE FALSE
      OBVIOUS
    <3>1. PICK r \in Mount : a = Ticker(r) /\ tick[r].pc = "mark" /\ tick[r].cur = l
      BY <1>8, <1>9
    <3>2. tick[s].pc # "idle"
      BY DEF FormInv, TickForm, Taken
    <3>3. s = r
      BY <3>1, <3>2 DEF OneTick
    <3>4. job'[Ticker(s)] = Idle
      BY <1>0, <3>1, <3>3, WriteJobs
    <3>5. l \notin tick[s].due
      BY <3>1, <3>3 DEF FormInv, TickForm
    <3> QED
      BY <3>4, <3>5
  <2>3. rest'[l] = rest[l] \/ rest'[l] = 0
    BY <1>0, <1>1, <2>2 DEF Write, Past
  <2> QED
    BY <2>1, <2>3 DEF TypeOK
<1>16. FewLate'
  <2>1. late' = IF j.edit \in {"enable", "register"} THEN [late EXCEPT ![j.loop] = 0] ELSE late
    BY DEF Write
  <2> SUFFICES ASSUME NEW l \in Loop
               PROVE  /\ late'[l] <= 1
                      /\ wanted'[l] \in {"none", "on"} => late'[l] = 0
                      /\ \A s \in Mount : Ahead(s, l) => late'[l] = 0
    BY <1>6 DEF FewLate
  <2>2. late'[l] = late[l] \/ late'[l] = 0
    BY <1>0, <1>1, <2>1 DEF Past
  <2>3. wanted'[l] \in {"none", "on"} => wanted[l] \in {"none", "on"} \/ late'[l] = 0
    BY <1>0, <1>1, <1>2, <2>1 DEF Past, Wish
  <2> QED
    BY <2>2, <2>3 DEF CountBody, FewLate
<1>17. ASSUME NEW b \in Actor, NEW m, m = job'[b] PROVE Counting(m)'
  <2>1. CASE b = a
    BY <1>17, <2>1, <1>0, WriteJobs, OpsBegun DEF Counting, NewCounts, CopyCounts, OutCounts
  <2>2. CASE b # a
    <3>1. /\ m.edit = job[b].edit /\ m.stage = job[b].stage /\ m.cfg = job[b].cfg
          /\ Holds(job[b]) => m.stale
      BY <1>17, <2>2, <1>0, WriteJobs
    <3>2. NewCounts(m)
      BY <3>1 DEF CountBody, Counting, NewCounts
    <3>3. m.stage = "write" \/ (m.stage = "read" /\ m.edit \in Copying) => m.stale
      BY <3>1 DEF Holds
    <3> QED
      BY <3>2, <3>3 DEF Counting, NewCounts, CopyCounts, OutCounts
  <2> QED
    BY <2>1, <2>2
<1>18. \A b \in Actor : Counting(job[b])'
  BY <1>17
<1> QED
  BY <1>11, <1>12, <1>13, <1>14, <1>15, <1>16, <1>18 DEF CountBody

\* A step of a tick that has no iteration in hand: it takes up what was due or lets it go.
LEMMA QuietTick ==
  ASSUME TypeOK, CountBody, NEW s \in Mount, NEW t, NEW j, tick[s].pc # "mark",
         tick' = [tick EXCEPT ![s] = t], job' = [job EXCEPT ![Ticker(s)] = j],
         t.due \subseteq tick[s].due, t.due = {} \/ t.seen = tick[s].seen,
         t.pc = "mark" => /\ j # Idle /\ t.seen = tick[s].seen /\ t.cur \in tick[s].due
                          /\ Limited(t.cur) => t.seen[t.cur] < Halt[t.cur].bound,
         Counting(j), j.edit # "register", child' = child, now' = now, anchor' = anchor,
         file' = file, lost' = lost, rest' = rest, late' = late, wanted' = wanted
  PROVE  CountBody'
<1>1. \A b \in Actor : job'[b] = IF b = Ticker(s) THEN j ELSE job[b]
  BY Actors DEF TypeOK
<1>2. \A r \in Mount : tick'[r] = IF r = s THEN t ELSE tick[r]
  BY DEF TypeOK
<1>3. \A r \in Mount : r # s => job'[Ticker(r)] = job[Ticker(r)]
  BY <1>1, Actors
<1>4. job'[Ticker(s)] = j
  BY <1>1, Actors
<1>5. \A l \in Loop : InHand(l)' = InHand(l)
  BY <1>2, <1>3, <1>4 DEF InHand
<1>6. \A r \in Mount, l \in Loop : Ahead(r, l)' => Ahead(r, l) /\ tick'[r].seen[l] = tick[r].seen[l]
  BY <1>2 DEF Ahead, Taken
<1>7. \A r \in Mount, l \in Loop : Taken(r, l)' /\ Limited(l) => tick'[r].seen[l] < Halt[l].bound
  BY <1>2 DEF Taken, CountBody, SeenCounts
<1>8. \A r \in Mount, l \in Loop : Firing(r, l)' => Firing(r, l)
  BY <1>2, <1>3 DEF Firing, Taken
<1>9. \A l \in Loop, b \in Actor : Registers(b, l)' => anchor[l] = "none" \/ \E c \in Actor : Registers(c, l)
  BY <1>1 DEF Registers
<1>10. \A b \in Actor : Counting(job'[b])
  BY <1>1 DEF CountBody
<1>11. now' \in Nat /\ now <= now' /\ SameRuns
  BY DEF TypeOK, SameRuns
<1> QED
  BY <1>5, <1>6, <1>7, <1>8, <1>9, <1>10, <1>11, Quiet

LEMMA CountStarts == ASSUME TypeOK, CountBody, NEW s \in Mount, TickStarts(s) PROVE CountBody'
<1> DEFINE t == [NoTick EXCEPT !.pc = "read", !.over = {l \in Loop : anchor[l] = "over"},
                  !.streak = [l \in Loop |-> Streak(l)], !.passed = {l \in Loop : Passed(l)}]
<1>1. t.pc = "read" /\ t.due = {}
  BY DEF NoTick
<1>2. tick' = [tick EXCEPT ![s] = t] /\ tick[s].pc = "idle"
  BY DEF TickStarts
<1>3. /\ child' = child /\ now' = now /\ anchor' = anchor /\ file' = file /\ lost' = lost /\ rest' = rest
      /\ late' = late /\ wanted' = wanted /\ job' = job
  BY DEF TickStarts, store, history
<1> HIDE DEF t
<1>4. \A l \in Loop : InHand(l)' = InHand(l)
  BY <1>1, <1>2, <1>3 DEF InHand, TypeOK
<1>5. \A r \in Mount : tick'[r] = IF r = s THEN t ELSE tick[r]
  BY <1>2 DEF TypeOK
<1>6. \A r \in Mount, l \in Loop : /\ Ahead(r, l)' => Ahead(r, l) /\ tick'[r].seen[l] = tick[r].seen[l]
                                   /\ Taken(r, l)' /\ Limited(l) => tick'[r].seen[l] < Halt[l].bound
                                   /\ Firing(r, l)' => Firing(r, l)
  BY <1>1, <1>3, <1>5 DEF Ahead, Taken, Firing, CountBody, SeenCounts
<1>7. \A l \in Loop, b \in Actor : Registers(b, l)' => anchor[l] = "none" \/ \E c \in Actor : Registers(c, l)
  BY <1>3 DEF Registers
<1>8. /\ \A b \in Actor : Counting(job'[b])
      /\ now' \in Nat /\ now <= now' /\ SameRuns
  BY <1>3 DEF CountBody, TypeOK, SameRuns
<1> QED
  BY <1>3, <1>4, <1>6, <1>7, <1>8, Quiet

LEMMA CountHalts == ASSUME TypeOK, CountBody, NEW s \in Mount, TickHalts(s) PROVE CountBody'
<1>0. Ticks /\ tick[s] \in TickType
  BY DEF TypeOK, Ticks
<1>1. PICK l \in tick[s].halting : /\ tick' = [tick EXCEPT ![s].halting = @ \ {l}]
                                   /\ job' = [job EXCEPT ![Ticker(s)] = Op("disable", l, "get")]
  BY DEF TickHalts
<1> DEFINE t == [tick[s] EXCEPT !.halting = @ \ {l}]
<1>2. t.pc = "work" /\ tick[s].pc = "work" /\ t.due = tick[s].due /\ t.seen = tick[s].seen
  BY <1>0 DEF TickType, TickHalts, Free
<1>3. tick' = [tick EXCEPT ![s] = t] /\ l \in Loop
  BY <1>0, <1>1 DEF TickType
<1>4. Op("disable", l, "get").edit = "disable" /\ Counting(Op("disable", l, "get"))
  BY <1>3, OpsBegun, FreshCounts DEF Edit
<1>5. /\ child' = child /\ now' = now /\ anchor' = anchor /\ file' = file /\ lost' = lost /\ rest' = rest
      /\ late' = late /\ wanted' = wanted
  BY DEF TickHalts, store, history
<1> HIDE DEF t
<1> QED
  BY <1>1, <1>2, <1>3, <1>4, <1>5, QuietTick

LEMMA CountTakes == ASSUME TypeOK, CountBody, NEW s \in Mount, TickTakes(s) PROVE CountBody'
<1>0. Ticks /\ tick[s] \in TickType
  BY DEF TypeOK, Ticks
<1>1. PICK l \in tick[s].due :
        \/ /\ tick' = [tick EXCEPT ![s].due = @ \ {l}]
           /\ job' = [job EXCEPT ![Ticker(s)] = Op("disable", l, "get")]
        \/ /\ tick' = [tick EXCEPT ![s].due = @ \ {l}, ![s].pc = "mark", ![s].cur = l]
           /\ job' = [job EXCEPT ![Ticker(s)] = [Op("mark", l, "read") EXCEPT !.wait = Delay(s, l)]]
           /\ ~ShouldStop(s, l)
  BY DEF TickTakes
<1> DEFINE t == [tick[s] EXCEPT !.due = @ \ {l}]
           u == [tick[s] EXCEPT !.due = @ \ {l}, !.pc = "mark", !.cur = l]
           mark == [Op("mark", l, "read") EXCEPT !.wait = Delay(s, l)]
<1>2. /\ tick[s].pc = "work" /\ l \in Loop
      /\ t.pc = "work" /\ t.due = tick[s].due \ {l} /\ t.seen = tick[s].seen
      /\ u.pc = "mark" /\ u.cur = l /\ u.due = tick[s].due \ {l} /\ u.seen = tick[s].seen
  BY <1>0 DEF TickType, TickTakes, Free
<1>3. mark.edit = "mark" /\ mark.stage = "read"
  BY DEF Op, Idle
<1>4. \/ tick' = [tick EXCEPT ![s] = t] /\ job' = [job EXCEPT ![Ticker(s)] = Op("disable", l, "get")]
      \/ /\ tick' = [tick EXCEPT ![s] = u] /\ job' = [job EXCEPT ![Ticker(s)] = mark]
         /\ ~ShouldStop(s, l)
  BY <1>1
<1>5. /\ child' = child /\ now' = now /\ anchor' = anchor /\ file' = file /\ lost' = lost /\ rest' = rest
      /\ late' = late /\ wanted' = wanted
  BY DEF TickTakes, store, history
<1> HIDE DEF t, u, mark
<1>6. CASE tick' = [tick EXCEPT ![s] = t] /\ job' = [job EXCEPT ![Ticker(s)] = Op("disable", l, "get")]
  <2>1. Op("disable", l, "get").edit = "disable" /\ Counting(Op("disable", l, "get"))
    BY <1>2, OpsBegun, FreshCounts DEF Edit
  <2> QED
    BY <1>2, <1>5, <1>6, <2>1, QuietTick
<1>7. CASE tick' = [tick EXCEPT ![s] = u] /\ job' = [job EXCEPT ![Ticker(s)] = mark] /\ ~ShouldStop(s, l)
  <2>1. Counting(mark) /\ mark # Idle
    BY <1>3, OpsBegun DEF Counting, NewCounts, CopyCounts, OutCounts, Copying
  <2>2. Limited(l) => tick[s].seen[l] < Halt[l].bound
    <3>1. tick[s].seen[l] \in Nat /\ Halt[l].bound \in Nat
      BY <1>0, <1>2, LoopAssumption DEF TickType, StopCondition
    <3> QED
      BY <1>7, <3>1 DEF Limited, ShouldStop
  <2> QED
    BY <1>2, <1>3, <1>5, <1>7, <2>1, <2>2, QuietTick
<1> QED
  BY <1>4, <1>6, <1>7

LEMMA CountEnds == ASSUME TypeOK, CountBody, NEW s \in Mount, TickEnds(s) PROVE CountBody'
<1>1. /\ tick' = [tick EXCEPT ![s] = NoTick] /\ tick[s].pc = "work" /\ job[Ticker(s)] = Idle
      /\ job' = [job EXCEPT ![Ticker(s)] = Idle]
  BY DEF TickEnds, Free, TypeOK
<1>2. NoTick.pc = "idle" /\ NoTick.due = {}
  BY DEF NoTick
<1>3. /\ child' = child /\ now' = now /\ anchor' = anchor /\ file' = file /\ lost' = lost /\ rest' = rest
      /\ late' = late /\ wanted' = wanted
  BY DEF TickEnds, store, history
<1> QED
  BY <1>1, <1>2, <1>3, OpsBegun, FreshCounts, QuietTick

\* The tick sees the count and the next run of the loops it finds due, and those loops
\* are on: nobody has asked for anything else since they were.
LEMMA CountReads ==
  ASSUME TypeOK, LastWordKept, clean, FormInv, OneTick, CountBody, NEW s \in Mount, TickReads(s)
  PROVE  CountBody'
<1>0. Ticks /\ Missions /\ Past /\ Registry /\ now \in Nat /\ tick[s] \in TickType
  BY DEF TypeOK, Ticks, Missions, Past, Registry
<1> DEFINE on   == {l \in Loop : file[l].known /\ file[l].enabled}
           halt == {l \in on : \/ l \in tick[s].over
                               \/ file[l].count >= HardCap
                               \/ tick[s].streak[l] >= FailLimit}
           due  == {l \in on \ halt : 0 < file[l].next /\ file[l].next <= now}
           seen == [l \in Loop |-> IF l \in due THEN file[l].count ELSE 0]
           t == [tick[s] EXCEPT !.pc = "work", !.halting = halt, !.due = due, !.seen = seen]
<1>1. tick' = [tick EXCEPT ![s] = t] /\ tick[s].pc = "read"
  BY DEF TickReads
<1>2. /\ child' = child /\ now' = now /\ anchor' = anchor /\ file' = file /\ lost' = lost /\ rest' = rest
      /\ late' = late /\ wanted' = wanted /\ job' = job
  BY DEF TickReads, store, history
<1>3. \A l \in due : l \in Loop /\ file[l].known /\ file[l].enabled /\ file[l].next <= now /\ seen[l] = file[l].count
  OBVIOUS
<1> HIDE DEF on, halt, due, seen
<1>4. t.pc = "work" /\ t.due = due /\ t.seen = seen
  BY <1>0 DEF TickType
<1> HIDE DEF t
<1>5. \A r \in Mount : tick'[r] = IF r = s THEN t ELSE tick[r]
  BY <1>0, <1>1 DEF Ticks
<1>6. \A l \in Loop : InHand(l)' = InHand(l) /\ InHand(l) = {}
  BY <1>1, <1>2, <1>4, <1>5 DEF InHand, OneTick
<1>7. \A l \in Loop : Runs(l)' = Runs(l) /\ Tally(l)' = Tally(l) /\ Total(l)' = Total(l) /\ Total(l) = Tally(l)
  <2>1. \A l \in Loop : Total(l) = Tally(l) /\ Tally(l) \in Nat
    BY <1>0, <1>6, Counts, FS_EmptySet
  <2> QED
    BY <1>2, <1>6, <2>1 DEF Runs, Tally, Total
<1>8. \A r \in Mount, l \in Loop : /\ ~Taken(r, l)'
                                   /\ Ahead(r, l)' => r = s /\ l \in due
  BY <1>1, <1>4, <1>5 DEF Ahead, Taken, OneTick, FormInv, TickForm
<1>9. NewUntouched'
  BY <1>2, <1>3, <1>7, <1>8 DEF CountBody, NewUntouched, Untouched, Registers
<1>10. SeenCounts'
  BY <1>3, <1>4, <1>5, <1>7, <1>8 DEF CountBody, SeenCounts, FileCounts
<1>11. FileCounts' /\ Numbered' /\ Within' /\ FileRests'
  BY <1>2, <1>7 DEF CountBody, FileCounts, Numbered, Within, FileRests
<1>12. Rested'
  <2> SUFFICES ASSUME NEW l \in Loop, l \in due PROVE rest[l] <= now
    BY <1>2, <1>8 DEF Rested, Ahead
  <2>1. rest[l] <= file[l].next /\ file[l].next <= now
    BY <1>3 DEF CountBody, FileRests
  <2>2. file[l].next \in Nat /\ rest[l] \in Nat
    BY <1>0 DEF Registry, Config, Past
  <2> QED
    BY <1>0, <2>1, <2>2
<1>13. FewLate'
  <2>1. ASSUME NEW l \in Loop, l \in due PROVE late[l] = 0
    <3>1. wanted[l] = "on"
      BY <1>3, <2>1, AgreesAt DEF LastWordKept
    <3> QED
      BY <3>1 DEF CountBody, FewLate
  <2> QED
    BY <1>2, <1>8, <2>1 DEF CountBody, FewLate
<1>14. ASSUME NEW j, Counting(j) PROVE Counting(j)'
  BY <1>2, <1>7, <1>14 DEF Counting, NewCounts, CopyCounts, OutCounts
<1>15. \A b \in Actor : Counting(job[b])'
  BY <1>2, <1>14 DEF CountBody
<1> QED
  BY <1>9, <1>10, <1>11, <1>12, <1>13, <1>15 DEF CountBody

\* The iteration in hand becomes a mission, and bears the number that follows.
LEMMA CountFires ==
  ASSUME TypeOK, FormInv, OneTick, CountBody, NEW s \in Mount, TickFires(s)
  PROVE  CountBody'
<1>0. Ticks /\ Missions /\ Past /\ now \in Nat /\ tick[s] \in TickType
  BY DEF TypeOK, Ticks, Missions, Past
<1>a. PICK l : l = tick[s].cur
  OBVIOUS
<1> DEFINE new == [loop |-> l, iter |-> tick[s].seen[l] + 1, state |-> "run"]
           t == [tick[s] EXCEPT !.pc = "work"]
<1>1. /\ tick' = [tick EXCEPT ![s] = t] /\ tick[s].pc = "mark" /\ job[Ticker(s)] = Idle
      /\ child' = Append(child, new)
      /\ late' = IF wanted[l] \in {"off", "gone"} THEN [late EXCEPT ![l] = @ + 1] ELSE late
  BY <1>a DEF TickFires
<1>2. /\ now' = now /\ anchor' = anchor /\ file' = file /\ lost' = lost /\ rest' = rest
      /\ wanted' = wanted /\ job' = job
  BY DEF TickFires, store
<1>3. l \in Loop /\ Taken(s, l) /\ t.pc = "work" /\ t.due = tick[s].due /\ t.seen = tick[s].seen /\ l \notin tick[s].due
  BY <1>a, <1>0, <1>1 DEF TickType, Taken, FormInv, TickForm
<1>4. tick[s].seen[l] = Tally(l) /\ (Limited(l) => Tally(l) < Halt[l].bound) /\ late[l] = 0
  BY <1>3 DEF CountBody, SeenCounts, FewLate, Ahead
<1> HIDE DEF t
<1>5. \A r \in Mount : tick'[r] = IF r = s THEN t ELSE tick[r]
  BY <1>0, <1>1 DEF Ticks
<1> DEFINE n == Len(child)
<1>6. /\ n \in Nat /\ DOMAIN child = 1 .. n /\ DOMAIN child' = 1 .. (n + 1)
      /\ child'[n + 1] = new /\ \A i \in 1 .. n : child'[i] = child[i]
  BY <1>0, <1>1 DEF Missions
<1>7. new.loop = l /\ new.iter = Tally(l) + 1
  BY <1>4
<1> HIDE DEF new
<1>8. Runs(l)' = Runs(l) \cup {n + 1} /\ n + 1 \notin Runs(l)
  BY <1>6, <1>7 DEF Runs
<1>9. \A m \in Loop : m # l => Runs(m)' = Runs(m)
  BY <1>6, <1>7 DEF Runs
<1>10. \A m \in Loop : /\ Tally(m) \in Nat /\ Total(m) \in Nat
                       /\ Total(m) = Tally(m) + Cardinality(InHand(m)) /\ IsFiniteSet(Runs(m))
                       /\ Cardinality(Runs(m)) \in Nat /\ lost[m] \in Nat
  <2>1. ASSUME NEW m \in Loop PROVE lost[m] \in Nat
    BY <1>0 DEF Past
  <2>2. ASSUME NEW m \in Loop
        PROVE  /\ Tally(m) \in Nat /\ Total(m) \in Nat
               /\ Total(m) = Tally(m) + Cardinality(InHand(m)) /\ IsFiniteSet(Runs(m))
               /\ Cardinality(Runs(m)) \in Nat
    BY <1>0, Counts
  <2> QED
    BY <2>1, <2>2
<1>11. InHand(l) = {s} /\ Cardinality(InHand(l)) = 1
  BY <1>a, <1>1, <1>3, OneInHand DEF InHand
<1>12. \A m \in Loop : InHand(m)' = {}
  <2>1. \A r \in Mount : tick'[r].pc # "mark"
    <3>1. \A r \in Mount : tick[r].pc = "mark" => r = s
      BY <1>1 DEF OneTick
    <3> QED
      BY <1>3, <1>5, <3>1
  <2> QED
    BY <2>1 DEF InHand
<1>13. \A m \in Loop : m # l => InHand(m) = {}
  BY <1>a, <1>1 DEF InHand, OneTick
<1>14. Tally(l)' = Tally(l) + 1 /\ Total(l)' = Total(l)
  <2>1. Cardinality(Runs(l)') = Cardinality(Runs(l)) + 1
    BY <1>3, <1>8, <1>10, FS_AddElement
  <2>2. Cardinality(InHand(l)') = 0
    BY <1>3, <1>12, FS_EmptySet
  <2> QED
    BY <1>2, <1>3, <1>10, <1>11, <2>1, <2>2 DEF Tally, Total
<1>15. \A m \in Loop : m # l => Tally(m)' = Tally(m) /\ Total(m)' = Total(m)
  BY <1>2, <1>9, <1>12, <1>13 DEF Tally, Total
<1>16. \A r \in Mount, m \in Loop : /\ ~Taken(r, m)'
                                    /\ Ahead(r, m)' => r = s /\ m \in tick[s].due /\ m # l
  BY <1>1, <1>3, <1>5 DEF Ahead, Taken, OneTick, FormInv, TickForm
<1>17. NewUntouched'
  <2>1. ASSUME NEW m \in Loop, anchor[m] = "none" \/ \E b \in Actor : Registers(b, m) PROVE m # l /\ Untouched(m)
    <3>1. Untouched(m)
      BY <2>1 DEF CountBody, NewUntouched
    <3> QED
      BY <1>3, <3>1 DEF Untouched, Ahead
  <2>2. ASSUME NEW m \in Loop, m # l, Untouched(m) PROVE Untouched(m)'
    BY <1>2, <1>9, <1>16, <2>2 DEF Untouched, Ahead
  <2> QED
    BY <1>2, <2>1, <2>2 DEF NewUntouched, Registers
<1>18. FileCounts'
  BY <1>2, <1>14, <1>15 DEF CountBody, FileCounts
<1>19. SeenCounts'
  BY <1>3, <1>5, <1>15, <1>16 DEF CountBody, SeenCounts, Ahead
<1>20. Numbered'
  <2> SUFFICES ASSUME NEW m \in Loop
               PROVE  /\ \A i \in Runs(m)' : child'[i].iter <= Tally(m)'
                      /\ \A i, j \in Runs(m)' : child'[i].iter = child'[j].iter => i = j
    BY DEF Numbered
  <2>1. \A i \in Runs(m) : child'[i] = child[i] /\ child[i].iter \in Nat
    <3>1. \A i \in Runs(m) : i \in 1 .. n
      BY <1>6 DEF Runs
    <3>2. \A i \in 1 .. n : child[i] \in Iteration
      BY <1>0 DEF Missions
    <3>3. \A c \in Iteration : c.iter \in Nat
      BY DEF Iteration
    <3> QED
      BY <1>6, <3>1, <3>2, <3>3
  <2>2. /\ \A i \in Runs(m) : child[i].iter <= Tally(m)
        /\ \A i, j \in Runs(m) : child[i].iter = child[j].iter => i = j
    BY DEF CountBody, Numbered
  <2>3. CASE m # l
    BY <1>9, <1>15, <2>1, <2>2, <2>3
  <2>4. CASE m = l
    <3>1. \A i \in Runs(l) : child'[i].iter <= Tally(l) /\ child'[i].iter \in Nat
      BY <2>1, <2>2, <2>4
    <3>2. child'[n + 1].iter = Tally(l) + 1
      BY <1>6, <1>7
    <3> QED
      BY <1>3, <1>8, <1>10, <1>14, <2>1, <2>2, <2>4, <3>1, <3>2
  <2> QED
    BY <2>3, <2>4
<1>21. Within'
  <2>1. Limited(l) => Tally(l) + 1 <= Halt[l].bound
    <3>1. Halt[l].bound \in Nat
      BY <1>3, LoopAssumption DEF StopCondition
    <3> QED
      BY <1>3, <1>4, <1>10, <3>1
  <2> QED
    BY <1>14, <1>15, <2>1 DEF CountBody, Within
<1>22. FileRests'
  BY <1>2 DEF CountBody, FileRests
<1>23. Rested'
  BY <1>2, <1>16 DEF CountBody, Rested, Ahead
<1>24. FewLate'
  <2>1. late'[l] <= 1 /\ (wanted[l] \in {"none", "on"} => late'[l] = 0)
    BY <1>0, <1>1, <1>3, <1>4 DEF Past
  <2>2. \A m \in Loop : m # l => late'[m] = late[m]
    BY <1>0, <1>1 DEF Past
  <2> QED
    BY <1>2, <1>16, <2>1, <2>2 DEF CountBody, FewLate, Ahead
<1>25. ASSUME NEW j, Counting(j) PROVE Counting(j)'
  <2>1. \A m \in Loop : Total(m)' = Total(m)
    BY <1>14, <1>15
  <2> QED
    BY <1>2, <1>25, <2>1 DEF Counting, NewCounts, CopyCounts, OutCounts
<1>26. \A b \in Actor : Counting(job[b])'
  BY <1>2, <1>25 DEF CountBody
<1> QED
  BY <1>17, <1>18, <1>19, <1>20, <1>21, <1>22, <1>23, <1>24, <1>26 DEF CountBody

\* A crash loses the iterations in hand.
LEMMA CountCrash ==
  ASSUME TypeOK, FormInv, OneTick, CountBody, Crash
  PROVE  CountBody'
<1>0. Ticks /\ Missions /\ Past /\ now \in Nat
  BY DEF TypeOK, Ticks, Missions, Past
<1>1. /\ tick' = [s \in Mount |-> NoTick] /\ job' = [a \in Actor |-> Idle]
      /\ NoTick.pc = "idle" /\ NoTick.due = {}
      /\ now' = now /\ anchor' = anchor /\ file' = file /\ rest' = rest /\ wanted' = wanted
      /\ child' = child /\ late' = late
  BY DEF Crash, store, NoTick
<1>2. \A l \in Loop : lost'[l] = lost[l] + Cardinality(InHand(l))
  BY DEF Crash, InHand
<1>3. ASSUME NEW l \in Loop
      PROVE  /\ Runs(l)' = Runs(l) /\ Tally(l)' = Total(l) /\ Total(l)' = Total(l)
             /\ Tally(l) <= Total(l) /\ Tally(l) \in Nat /\ Total(l) \in Nat
  <2>1. Runs(l)' = Runs(l) /\ InHand(l)' = {}
    BY <1>1 DEF Runs, InHand
  <2>2. /\ Cardinality(Runs(l)) \in Nat /\ Cardinality(InHand(l)) \in Nat /\ lost[l] \in Nat
        /\ Total(l) = Cardinality(Runs(l)) + lost[l] + Cardinality(InHand(l)) /\ Total(l) \in Nat
        /\ Tally(l) \in Nat
    BY <1>0, Counts DEF Past, Tally
  <2>3. Cardinality(InHand(l)') = 0
    BY <2>1, FS_EmptySet
  <2> QED
    BY <1>2, <2>1, <2>2, <2>3 DEF Tally, Total
<1>4. \A a \in Actor : job'[a] = Idle
  BY <1>1
<1>5. \A s \in Mount, l \in Loop : ~Ahead(s, l)' /\ ~Taken(s, l)'
  BY <1>1 DEF Ahead, Taken
<1>6. NewUntouched'
  <2> SUFFICES ASSUME NEW l \in Loop, anchor[l] = "none" PROVE Untouched(l)'
    BY <1>1, <1>4, OpsBegun DEF NewUntouched, Registers
  <2>1. Untouched(l)
    BY DEF CountBody, NewUntouched
  <2>2. lost'[l] = 0
    <3>1. Cardinality(InHand(l)) = 0 /\ lost[l] = 0
      BY <2>1, UntouchedTotal, FS_EmptySet DEF Untouched
    <3> QED
      BY <1>2, <3>1
  <2> QED
    BY <1>1, <1>3, <1>5, <2>1, <2>2 DEF Untouched
<1>7. FileCounts' /\ SeenCounts'
  BY <1>1, <1>3, <1>5 DEF CountBody, FileCounts, SeenCounts
<1>8. Numbered'
  <2> SUFFICES ASSUME NEW m \in Loop
               PROVE  /\ \A i \in Runs(m) : child[i].iter <= Total(m)
                      /\ \A i, j \in Runs(m) : child[i].iter = child[j].iter => i = j
    BY <1>1, <1>3 DEF Numbered
  <2>1. \A i \in Runs(m) : child[i].iter \in Nat
    <3>1. \A i \in Runs(m) : child[i] \in Iteration
      BY <1>0 DEF Missions, Runs
    <3>2. \A c \in Iteration : c.iter \in Nat
      BY DEF Iteration
    <3> QED
      BY <3>1, <3>2
  <2>2. /\ \A i \in Runs(m) : child[i].iter <= Tally(m)
        /\ \A i, j \in Runs(m) : child[i].iter = child[j].iter => i = j
    BY DEF CountBody, Numbered
  <2> QED
    BY <1>3, <2>1, <2>2
<1>9. Within'
  <2> SUFFICES ASSUME NEW l \in Loop, Limited(l) PROVE Total(l) <= Halt[l].bound
    BY <1>3 DEF Within
  <2>1. CASE InHand(l) = {}
    <3>1. Total(l) = Tally(l)
      BY <1>0, <2>1, Counts, FS_EmptySet
    <3> QED
      BY <3>1 DEF CountBody, Within
  <2>2. CASE InHand(l) # {}
    <3>1. PICK s \in Mount : s \in InHand(l)
      BY <2>2 DEF InHand
    <3>2. Taken(s, l)
      BY <3>1 DEF InHand, Taken
    <3>3. Tally(l) < Halt[l].bound /\ Halt[l].bound \in Nat
      BY <3>2, LoopAssumption DEF CountBody, SeenCounts, Ahead, StopCondition
    <3>4. Cardinality(InHand(l)) = 1
      BY <3>1, OneInHand
    <3>5. Total(l) = Tally(l) + 1 /\ Tally(l) \in Nat
      BY <1>0, <3>4, Counts
    <3> QED
      BY <3>3, <3>5
  <2> QED
    BY <2>1, <2>2
<1>10. FileRests' /\ Rested' /\ FewLate'
  BY <1>1, <1>5 DEF CountBody, FileRests, Rested, FewLate, Ahead
<1>11. \A a \in Actor : Counting(job[a])'
  <2>1. Counting(Idle)'
    BY OpsBegun DEF Counting, NewCounts, CopyCounts, OutCounts
  <2> QED
    BY <1>4, <2>1
<1> QED
  BY <1>6, <1>7, <1>8, <1>9, <1>10, <1>11 DEF CountBody

\* An edit of the store begins a sound operation.
LEMMA CountHand ==
  ASSUME TypeOK, CountBody, NEW e \in Editor, NEW op, Begins(e, op), Counting(op),
         op.edit = "register" => anchor[op.loop] = "none", SameRuns, now' = now, tick' = tick,
         file' = file, lost' = lost, rest' = rest, late' = late, wanted' = wanted,
         \A l \in Loop : anchor'[l] = "none" => anchor[l] = "none"
  PROVE  CountBody'
<1>1. job' = [job EXCEPT ![Hand(e)] = op] /\ Hand(e) \in Actor
  BY Actors DEF Begins
<1>2. \A s \in Mount : Hand(e) # Ticker(s)
  BY Actors
<1> QED
  BY <1>1, <1>2, QuietJob

-----------------------------------------------------------------------------
(* The invariant.                                                          *)

\* Every loop that is live has run once.
LEMMA RanOnce ==
  ASSUME Init, NEW l \in Loop
  PROVE  /\ anchor[l] = "live" => Cardinality(Runs(l)) = 1
         /\ anchor[l] # "live" => Runs(l) = {}
         /\ \A i \in Runs(l) : child[i].iter = 1
         /\ \A i, k \in Runs(l) : i = k
<1> DEFINE ran == {k \in Loop : anchor[k] = "live"}
           n == Cardinality(ran)
<1>1. n \in Nat /\ IsFiniteSet(ran)
  BY LoopAssumption, FS_Subset, FS_CardinalityType
<1>2. child \in [1 .. n -> First] /\ {child[i].loop : i \in DOMAIN child} = ran
  BY DEF Init
<1> HIDE DEF n
<1>3. IsFiniteSet(1 .. n) /\ Cardinality(1 .. n) = n
  BY <1>1, FS_Interval
<1> DEFINE S == 1 .. n
           T == ran
           g == [i \in S |-> child[i].loop]
<1>4. /\ \A i \in S : g[i] = child[i].loop /\ g[i] \in T /\ child[i].iter = 1
      /\ \A k \in T : \E i \in S : g[i] = k
  BY <1>2 DEF First
<1>5. g \in [S -> T]
  BY <1>4
<1>6. Runs(l) = {i \in S : g[i] = l}
  BY <1>2, <1>4 DEF Runs
<1>7. IsFiniteSet(S) /\ Cardinality(S) = Cardinality(T)
  BY <1>3 DEF n
<1>8. anchor[l] = "live" <=> l \in T
  OBVIOUS
<1> HIDE DEF S, T, g
<1>9. g \in Surjection(S, T)
  BY <1>4, <1>5 DEF Surjection
<1>10. g \in Injection(S, T)
  BY <1>7, <1>9, FS_SurjSameCardinalityImpliesInj
<1>11. \A i, k \in S : g[i] = g[k] => i = k
  BY <1>10 DEF Injection, IsInjective
<1>12. CASE anchor[l] = "live"
  <2>1. PICK i \in S : g[i] = l
    BY <1>4, <1>8, <1>12
  <2>2. Runs(l) = {i}
    BY <1>6, <1>11, <2>1
  <2>3. Cardinality(Runs(l)) = 1
    BY <2>2, FS_Singleton
  <2> QED
    BY <1>4, <1>12, <2>1, <2>2, <2>3
<1>13. CASE anchor[l] # "live"
  <2>1. Runs(l) = {}
    BY <1>4, <1>6, <1>8, <1>13
  <2> QED
    BY <1>13, <2>1
<1> QED
  BY <1>12, <1>13

LEMMA CountInit == Init => CountInv
<1> SUFFICES ASSUME Init PROVE CountInv
  OBVIOUS
<1>1. /\ tick = [s \in Mount |-> NoTick] /\ NoTick.pc = "idle" /\ NoTick.due = {}
      /\ \A l \in Loop : rest[l] = 0 /\ lost[l] = 0 /\ late[l] = 0
      /\ anchor \in [Loop -> {"none", "live"}]
  BY DEF Init, NoTick
<1>2. \A a \in Actor : job[a] = Idle \/ (a = Booter(1) /\ job[a] = Op("boot", Nobody, "read"))
  BY DEF Init
<1>3. /\ \A a \in Actor : job[a].edit \in {"none", "boot"}
      /\ \A a \in Actor : Counting(job[a])
  <2>1. Op("boot", Nobody, "read").edit = "boot" /\ Counting(Op("boot", Nobody, "read"))
    <3>1. Nobody \in Loop
      BY LoopAssumption DEF Nobody
    <3> QED
      BY <3>1, OpsBegun, FreshCounts DEF Edit, Copying
  <2>2. Idle.edit = "none" /\ Counting(Idle)
    BY OpsBegun, FreshCounts
  <2> QED
    BY <1>2, <2>1, <2>2
<1>4. \A s \in Mount : job[Ticker(s)] = Idle
  BY <1>2 DEF Actor, Ticker, Booter
<1>5. FormInv
  BY <1>1, <1>3, <1>4 DEF FormInv, TickForm, OnceRegistered, Registers, OneTick
<1>6. \A s \in Mount, l \in Loop : ~Ahead(s, l) /\ ~Taken(s, l)
  BY <1>1 DEF Ahead, Taken
<1>7. \A l \in Loop : InHand(l) = {} /\ Cardinality(InHand(l)) = 0
  <2>1. \A l \in Loop : InHand(l) = {}
    BY <1>1 DEF InHand
  <2> QED
    BY <2>1, FS_EmptySet
<1>8. \A l \in Loop : /\ anchor[l] = "live" => Tally(l) = 1 /\ Total(l) = 1
                      /\ anchor[l] # "live" => Runs(l) = {} /\ Tally(l) = 0 /\ Total(l) = 0
  <2> SUFFICES ASSUME NEW l \in Loop
               PROVE  /\ anchor[l] = "live" => Tally(l) = 1 /\ Total(l) = 1
                      /\ anchor[l] # "live" => Runs(l) = {} /\ Tally(l) = 0 /\ Total(l) = 0
    OBVIOUS
  <2>1. anchor[l] # "live" => Runs(l) = {} /\ Cardinality(Runs(l)) = 0
    BY RanOnce, FS_EmptySet
  <2>2. anchor[l] = "live" => Cardinality(Runs(l)) = 1
    BY RanOnce
  <2> QED
    BY <1>1, <1>7, <2>1, <2>2 DEF Tally, Total
<1>9. \A l \in Loop : /\ file[l].known <=> anchor[l] = "live"
                      /\ file[l].known => file[l].count = 1
                      /\ file[l].next \in Nat
  BY DEF Init, Blank, Absent
<1>10. NewUntouched
  BY <1>1, <1>3, <1>6, <1>8, <1>9 DEF NewUntouched, Untouched, Registers
<1>11. FileCounts /\ SeenCounts
  BY <1>6, <1>8, <1>9 DEF FileCounts, SeenCounts
<1>12. Numbered
  <2> SUFFICES ASSUME NEW l \in Loop
               PROVE  /\ \A i \in Runs(l) : child[i].iter <= Tally(l)
                      /\ \A i, j \in Runs(l) : child[i].iter = child[j].iter => i = j
    BY DEF Numbered
  <2>1. Runs(l) = {} \/ Tally(l) = 1
    BY <1>8
  <2> QED
    BY <2>1, RanOnce
<1>13. Within
  <2> SUFFICES ASSUME NEW l \in Loop, Limited(l) PROVE Tally(l) <= Halt[l].bound
    BY DEF Within
  <2>1. Halt[l].bound \in Nat /\ Halt[l].bound > 0
    BY LoopAssumption DEF StopCondition, Limited
  <2>2. Tally(l) = 0 \/ Tally(l) = 1
    BY <1>8
  <2> QED
    BY <2>1, <2>2
<1>14. FileRests /\ Rested /\ FewLate
  BY <1>1, <1>6, <1>9 DEF FileRests, Rested, FewLate, Ahead
<1> QED
  BY <1>3, <1>5, <1>10, <1>11, <1>12, <1>13, <1>14 DEF CountInv, CountBody

LEMMA CountNext == ASSUME TypeOK, WordInv, CountInv, [Next]_vars PROVE CountInv'
<1>0. FormInv' /\ (clean => OneTick /\ CountBody /\ LastWordKept) /\ FormInv
  BY FormNext DEF CountInv, FormInv, WordInv
<1>a. Registry /\ Missions /\ Anchors /\ now \in Nat
  BY DEF TypeOK, Registry, Missions, Anchors
<1> SUFFICES ASSUME clean' PROVE CountBody'
  BY <1>0 DEF CountInv
<1>1. ASSUME NEW a \in Actor, Get(a) PROVE CountBody'
  <2>1. clean
    BY <1>1 DEF Get, history
  <2> QED
    BY <1>0, <1>1, <2>1, CountGet
<1>2. ASSUME NEW a \in Actor, Read(a) PROVE CountBody'
  <2>1. clean
    BY <1>2 DEF Read, history
  <2> QED
    BY <1>0, <1>2, <2>1, CountRead
<1>3. ASSUME NEW a \in Actor, Write(a) PROVE CountBody'
  <2>1. clean /\ ~job[a].stale
    BY <1>3 DEF Write
  <2> QED
    BY <1>0, <1>3, <2>1, CountWrite
<1>4. ASSUME NEW s \in Mount, Begin(s) PROVE CountBody'
  <2>1. /\ job' = [job EXCEPT ![Booter(s)] = Op("boot", Nobody, "read")] /\ tick' = tick /\ anchor' = anchor /\ clean
        /\ child' = child /\ now' = now /\ file' = file /\ lost' = lost /\ rest' = rest /\ late' = late /\ wanted' = wanted
    BY <1>4 DEF Begin, store, history
  <2>2. Op("boot", Nobody, "read").edit = "boot" /\ Counting(Op("boot", Nobody, "read"))
    <3>1. Nobody \in Loop
      BY LoopAssumption DEF Nobody
    <3> QED
      BY <3>1, OpsBegun, FreshCounts DEF Edit, Copying
  <2>3. SameRuns /\ Booter(s) \in Actor /\ \A r \in Mount : Booter(s) # Ticker(r)
    BY <2>1, Actors DEF SameRuns
  <2> QED
    BY <1>0, <2>1, <2>2, <2>3, QuietJob
<1>5. ASSUME NEW s \in Mount, Stop(s) PROVE CountBody'
  <2>1. /\ job' = job /\ tick' = tick /\ anchor' = anchor /\ clean
        /\ child' = child /\ now' = now /\ file' = file /\ lost' = lost /\ rest' = rest /\ late' = late /\ wanted' = wanted
    BY <1>5 DEF Stop, store, history
  <2> QED
    BY <1>0, <1>a, <2>1, QuietStill DEF SameRuns
<1>6. ASSUME NEW s \in Mount, TickStarts(s) PROVE CountBody'
  <2>1. clean
    BY <1>6 DEF TickStarts
  <2> QED
    BY <1>0, <1>6, <2>1, CountStarts
<1>7. ASSUME NEW s \in Mount, TickReads(s) PROVE CountBody'
  <2>1. clean
    BY <1>7 DEF TickReads, history
  <2> QED
    BY <1>0, <1>7, <2>1, CountReads
<1>8. ASSUME NEW s \in Mount, TickHalts(s) PROVE CountBody'
  <2>1. clean
    BY <1>8 DEF TickHalts, history
  <2> QED
    BY <1>0, <1>8, <2>1, CountHalts
<1>9. ASSUME NEW s \in Mount, TickTakes(s) PROVE CountBody'
  <2>1. clean
    BY <1>9 DEF TickTakes, history
  <2> QED
    BY <1>0, <1>9, <2>1, CountTakes
<1>10. ASSUME NEW s \in Mount, TickFires(s) PROVE CountBody'
  <2>1. clean
    BY <1>10 DEF TickFires
  <2> QED
    BY <1>0, <1>10, <2>1, CountFires
<1>11. ASSUME NEW s \in Mount, TickEnds(s) PROVE CountBody'
  <2>1. clean
    BY <1>11 DEF TickEnds, history
  <2> QED
    BY <1>0, <1>11, <2>1, CountEnds
<1>12. ASSUME NEW e \in Editor, NEW l \in Loop, Create(e, l) PROVE CountBody'
  <2> DEFINE op == [Op("register", l, "read") EXCEPT !.cfg = Fresh(l)]
  <2>1. op.edit = "register" /\ op.loop = l /\ op.stage = "read" /\ op.cfg = Fresh(l)
    BY DEF Op, Idle
  <2>2. /\ Begins(e, op) /\ anchor[l] = "none" /\ anchor' = [anchor EXCEPT ![l] = "live"] /\ tick' = tick /\ clean
        /\ child' = child /\ now' = now /\ file' = file /\ lost' = lost /\ rest' = rest /\ late' = late /\ wanted' = wanted
    BY <1>12 DEF Create, history
  <2> HIDE DEF op
  <2>3. \A k \in Loop : anchor'[k] = "none" => anchor[k] = "none"
    BY <1>a, <2>2 DEF Anchors
  <2>4. Fresh(l).count = 0
    BY DEF Fresh, Blank, Absent
  <2>5. Counting(op)
    BY <2>1, <2>4 DEF Counting, NewCounts, CopyCounts, OutCounts, Copying
  <2>6. SameRuns
    BY <2>2 DEF SameRuns
  <2> QED
    BY <1>0, <2>1, <2>2, <2>3, <2>5, <2>6, CountHand
<1>13. ASSUME NEW e \in Editor, NEW l \in Loop, Simple(e, l) PROVE CountBody'
  <2>1. PICK op : /\ Begins(e, op)
                  /\ op \in {Op("enable", l, "read"), Op("pause", l, "get"), Op("freeze", l, "get"), Op("remove", l, "read")}
    BY <1>13 DEF Simple, Edited
  <2>2. op.edit # "register" /\ Counting(op)
    <3>1. /\ Counting(Op("enable", l, "read")) /\ Counting(Op("pause", l, "get"))
          /\ Counting(Op("freeze", l, "get")) /\ Counting(Op("remove", l, "read"))
      BY FreshCounts DEF Edit, Copying
    <3> QED
      BY <2>1, <3>1, OpsBegun
  <2>3. /\ tick' = tick /\ anchor' = anchor /\ clean
        /\ child' = child /\ now' = now /\ file' = file /\ lost' = lost /\ rest' = rest /\ late' = late /\ wanted' = wanted
    BY <1>13 DEF Simple, store, history
  <2>4. SameRuns
    BY <2>3 DEF SameRuns
  <2> QED
    BY <1>0, <2>1, <2>2, <2>3, <2>4, CountHand
<1>14. ASSUME NEW e \in Editor, NEW l \in Loop, Skip(e, l) PROVE CountBody'
  <2> DEFINE base == IF copy[l].next = 0 THEN now ELSE copy[l].next
             cfg == [copy[l] EXCEPT !.next = base + Cadence[l]]
             op == [Op("skip", l, "read") EXCEPT !.cfg = cfg, !.stale = copy[l] # file[l]]
  <2>1. Begins(e, op)
    BY <1>14 DEF Skip, Edited
  <2>2. /\ tick' = tick /\ anchor' = anchor /\ clean
        /\ child' = child /\ now' = now /\ file' = file /\ lost' = lost /\ rest' = rest /\ late' = late /\ wanted' = wanted
    BY <1>14 DEF Skip, store, history
  <2>3. /\ copy[l] \in Config /\ base \in Nat /\ copy[l].next <= base /\ base <= base + Cadence[l] /\ base + Cadence[l] \in Nat
        /\ copy[l].next \in Nat
    BY <1>a, LoopAssumption DEF Registry, Config
  <2> HIDE DEF base
  <2>4. cfg.count = copy[l].count /\ cfg.enabled = copy[l].enabled /\ cfg.next = base + Cadence[l]
    BY <2>3 DEF Config
  <2> HIDE DEF cfg
  <2>5. /\ op.edit = "skip" /\ op.loop = l /\ op.stage = "read" /\ op.cfg = cfg
        /\ ~op.stale => copy[l] = file[l]
    BY DEF Op, Idle
  <2> HIDE DEF op
  <2>6. ASSUME ~op.stale, file[l].known, cfg.enabled PROVE rest[l] <= cfg.next
    <3>1. rest[l] <= copy[l].next
      BY <1>0, <2>2, <2>4, <2>5, <2>6 DEF CountBody, FileRests
    <3>2. rest[l] \in Nat
      BY DEF TypeOK
    <3> QED
      BY <2>3, <2>4, <3>1, <3>2, LoopAssumption
  <2>7. Counting(op)
    BY <2>4, <2>5, <2>6 DEF Counting, NewCounts, CopyCounts, OutCounts
  <2>8. SameRuns
    BY <2>2 DEF SameRuns
  <2> QED
    BY <1>0, <2>1, <2>2, <2>5, <2>7, <2>8, CountHand
<1>15. ASSUME NEW e \in Editor, NEW l \in Loop, Retire(e, l) PROVE CountBody'
  <2>1. PICK op : Begins(e, op) /\ op \in {Op("archive", l, "get"), Op("delete", l, "get")}
    BY <1>15 DEF Retire, Edited
  <2>2. op.edit # "register" /\ Counting(op)
    <3>1. Counting(Op("archive", l, "get")) /\ Counting(Op("delete", l, "get"))
      BY FreshCounts DEF Edit
    <3> QED
      BY <2>1, <3>1, OpsBegun
  <2>3. /\ tick' = tick /\ clean
        /\ child' = child /\ now' = now /\ file' = file /\ lost' = lost /\ rest' = rest /\ late' = late /\ wanted' = wanted
    BY <1>15 DEF Retire, history
  <2>4. SameRuns /\ \A k \in Loop : anchor'[k] = "none" => anchor[k] = "none"
    BY <1>a, <1>15, <2>3 DEF SameRuns, Retire, Anchors
  <2> QED
    BY <1>0, <2>1, <2>2, <2>3, <2>4, CountHand
<1>16. ASSUME NEW e \in Editor, NEW l \in Loop, Sweep(e, l) PROVE CountBody'
  <2>1. /\ Begins(e, Op("disable", l, "get")) /\ tick' = tick /\ anchor' = anchor /\ clean
        /\ child' = child /\ now' = now /\ file' = file /\ lost' = lost /\ rest' = rest /\ late' = late /\ wanted' = wanted
    BY <1>16 DEF Sweep, store, history
  <2>2. Op("disable", l, "get").edit # "register" /\ Counting(Op("disable", l, "get"))
    BY OpsBegun, FreshCounts DEF Edit
  <2>3. SameRuns
    BY <2>1 DEF SameRuns
  <2> QED
    BY <1>0, <2>1, <2>2, <2>3, CountHand
<1>17. ASSUME NEW l \in Loop, AnchorEnds(l) PROVE CountBody'
  <2>1. /\ job' = job /\ tick' = tick /\ clean
        /\ child' = child /\ now' = now /\ file' = file /\ lost' = lost /\ rest' = rest /\ late' = late /\ wanted' = wanted
    BY <1>17 DEF AnchorEnds, history
  <2>2. SameRuns /\ \A k \in Loop : anchor'[k] = "none" => anchor[k] = "none"
    BY <1>a, <1>17, <2>1 DEF SameRuns, AnchorEnds, Anchors
  <2> QED
    BY <1>0, <1>a, <2>1, <2>2, QuietStill
<1>18. ASSUME NEW e \in Editor, NEW i \in DOMAIN child, ChildEnds(e, i) PROVE CountBody'
  <2>1. /\ tick' = tick /\ anchor' = anchor /\ clean
        /\ now' = now /\ file' = file /\ lost' = lost /\ rest' = rest /\ late' = late /\ wanted' = wanted
    BY <1>18 DEF ChildEnds, store, history
  <2>2. child[i] \in Iteration /\ \A k \in DOMAIN child : child[k] \in Iteration
    BY <1>a DEF Missions
  <2>3. SameRuns
    <3>1. PICK st : child' = [child EXCEPT ![i].state = st]
      BY <1>18 DEF ChildEnds
    <3>2. ASSUME NEW c \in Iteration PROVE [c EXCEPT !.state = st].loop = c.loop /\ [c EXCEPT !.state = st].iter = c.iter
      BY DEF Iteration
    <3>3. DOMAIN child' = DOMAIN child /\ \A k \in DOMAIN child : child'[k] = child[k] \/ child'[k] = [child[k] EXCEPT !.state = st]
      BY <1>a, <3>1 DEF Missions
    <3> QED
      BY <2>2, <3>2, <3>3 DEF SameRuns
  <2>4. CASE job' = job
    BY <1>0, <1>a, <2>1, <2>3, <2>4, QuietStill
  <2>5. CASE job' # job
    <3>1. PICK op : /\ Begins(e, op)
                    /\ op \in {Op("fail", child[i].loop, "get"), Op("approve", child[i].loop, "get")}
      BY <1>18, <2>5 DEF ChildEnds
    <3>2. child[i].loop \in Loop
      BY <2>2 DEF Iteration
    <3>3. op.edit # "register" /\ Counting(op)
      <4>1. Counting(Op("fail", child[i].loop, "get")) /\ Counting(Op("approve", child[i].loop, "get"))
        BY <3>2, FreshCounts DEF Edit
      <4> QED
        BY <3>1, <4>1, OpsBegun
    <3> QED
      BY <1>0, <2>1, <2>3, <3>1, <3>3, CountHand
  <2> QED
    BY <2>4, <2>5
<1>19. CASE Crash
  <2>1. clean
    BY <1>19 DEF Crash
  <2> QED
    BY <1>0, <1>19, <2>1, CountCrash
<1>20. CASE Advance
  <2>1. /\ job' = job /\ tick' = tick /\ anchor' = anchor /\ clean /\ now' = now + 1
        /\ child' = child /\ file' = file /\ lost' = lost /\ rest' = rest /\ late' = late /\ wanted' = wanted
    BY <1>20 DEF Advance, store, history
  <2>2. now' \in Nat /\ now <= now' /\ SameRuns
    BY <1>a, <2>1 DEF SameRuns
  <2> QED
    BY <1>0, <2>1, <2>2, QuietStill
<1>21. CASE UNCHANGED vars
  <2>1. /\ job' = job /\ tick' = tick /\ anchor' = anchor /\ clean /\ now' = now
        /\ child' = child /\ file' = file /\ lost' = lost /\ rest' = rest /\ late' = late /\ wanted' = wanted
    BY <1>21 DEF vars, store, history
  <2>2. SameRuns
    BY <2>1 DEF SameRuns
  <2> QED
    BY <1>0, <1>a, <2>1, <2>2, QuietStill
<1> QED
  BY Zenon, <1>1, <1>2, <1>3, <1>4, <1>5, <1>6, <1>7, <1>8, <1>9, <1>10, <1>11, <1>12, <1>13, <1>14, <1>15, <1>16,
     <1>17, <1>18, <1>19, <1>20, <1>21, Steps

-----------------------------------------------------------------------------
(* What it comes to.                                                       *)

\* The invariant, for any number of loops, schedulers and editors.
THEOREM CountInvariant == Spec => [](TypeOK /\ WordInv /\ CountInv)
<1>1. Init => TypeOK /\ WordInv /\ CountInv
  BY TypeInit, WordInit, CountInit
<1>2. TypeOK /\ WordInv /\ CountInv /\ [Next]_vars => TypeOK' /\ WordInv' /\ CountInv'
  BY TypeNext, WordNext, CountNext
<1> QED
  BY <1>1, <1>2, PTL DEF Spec

\* As long as nobody wrote from a stale copy and no two ticks overlapped, loops.json counts
\* every iteration once (markIterationFired, loopEngine.ts:485-509), and no two iterations
\* of a loop have the same number (loopScheduler.ts:185).
THEOREM EveryIterationCounted == Spec => []Counted
<1>1. TypeOK /\ CountInv => Counted
  <2> SUFFICES ASSUME TypeOK, CountInv, clean, NEW l \in Loop
               PROVE  /\ file[l].known => file[l].count = Cardinality(Runs(l)) + Cardinality(InHand(l)) + lost[l]
                      /\ \A i, j \in Runs(l) : child[i].iter = child[j].iter => i = j
    BY DEF Counted
  <2>1. /\ file[l].known => file[l].count = Total(l)
        /\ \A i, j \in Runs(l) : child[i].iter = child[j].iter => i = j
    BY DEF CountInv, CountBody, FileCounts, Numbered
  <2>2. Cardinality(Runs(l)) \in Nat /\ Cardinality(InHand(l)) \in Nat /\ lost[l] \in Nat
    BY Counts DEF TypeOK, Past, Missions
  <2>3. Total(l) = Cardinality(Runs(l)) + Cardinality(InHand(l)) + lost[l]
    BY <2>2 DEF Total, Tally
  <2> QED
    BY <2>1, <2>3
<1> QED
  BY <1>1, CountInvariant, PTL

\* A loop does not run more iterations than its stop condition allows (shouldStopLoop,
\* loopEngine.ts:378-405).  The hypothesis: a loop that is on at the start has run once, so
\* a limit of none would be broken from the start.  The one limit the code sets is
\* DEFAULT_MANAGER_LOOP_MAX_ITERATIONS (agentsStore.tsx:10495-10498), which is positive.
THEOREM NoMoreThanAllowed ==
  ASSUME \A l \in Loop : Halt[l].kind = "maxIterations" => Halt[l].bound > 0
  PROVE  Spec => []Bounded
<1>1. TypeOK /\ CountInv => Bounded
  <2> SUFFICES ASSUME TypeOK, CountInv, clean, NEW l \in Loop, Halt[l].kind = "maxIterations"
               PROVE  Cardinality(Runs(l)) <= Halt[l].bound
    BY DEF Bounded
  <2>1. Tally(l) <= Halt[l].bound
    BY DEF CountInv, CountBody, Within, Limited
  <2>2. Cardinality(Runs(l)) \in Nat /\ lost[l] \in Nat /\ Halt[l].bound \in Nat
    BY Counts, LoopAssumption DEF TypeOK, Past, Missions, StopCondition
  <2> QED
    BY <2>1, <2>2 DEF Tally
<1> QED
  BY <1>1, CountInvariant, PTL

\* Once a loop was paused, disabled or deleted, at most one iteration still comes: the one
\* the tick had in hand or on its list of due loops, which it does not look at again
\* (loopScheduler.ts:177-235).
THEOREM AtMostOneLate == Spec => []LateFires
<1>1. CountInv => LateFires
  BY DEF CountInv, CountBody, FewLate, LateFires
<1> QED
  BY <1>1, CountInvariant, PTL

\* The step that reads the file to mark an iteration is the tick's, and the tick took the
\* loop when it was due.
LEMMA MarkRested == ASSUME TypeOK, CountInv, clean, NEW l \in Loop, Marks(l) PROVE now >= rest[l]
<1>1. PICK a \in Actor : job[a].edit = "mark" /\ job[a].loop = l /\ job[a].stage = "read"
  BY DEF Marks
<1>2. PICK s \in Mount : a = Ticker(s) /\ tick[s].pc = "mark"
  BY <1>1 DEF CountInv, FormInv, TickForm
<1>3. job[Ticker(s)] # Idle
  BY <1>1, <1>2, OpsBegun
<1>4. Taken(s, l)
  BY <1>1, <1>2, <1>3 DEF CountInv, FormInv, TickForm, Taken
<1>5. rest[l] <= now
  BY <1>3, <1>4 DEF CountInv, CountBody, Rested
<1>6. rest[l] \in Nat /\ now \in Nat
  BY DEF TypeOK, Past, Clock
<1> QED
  BY <1>5, <1>6

\* A loop is not fired again before its delay has passed (the next time that
\* markIterationFired wrote, loopEngine.ts:501-506), unless the user enabled it in between.
THEOREM LoopsAreSpaced == Spec => Spaced
<1>1. TypeOK /\ CountInv /\ [Next]_vars => [clean => \A l \in Loop : Marks(l) => now >= rest[l]]_vars
  BY MarkRested
<1> QED
  BY <1>1, CountInvariant, PTL DEF Spec, Spaced
=============================================================================
