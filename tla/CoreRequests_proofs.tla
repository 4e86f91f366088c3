------------------------- MODULE CoreRequests_proofs -------------------------
(***************************************************************************)
(* What a core keeps of its word, for any number of windows, of requests   *)
(* and of lines and runs of the server: the state file is whole, the log   *)
(* is followed, and no request is answered twice.                          *)
(***************************************************************************)
EXTENDS CoreRequests, TLAPS

Request == [method : Methods, id : Nat, value : Nat \ {0}]
WorkSteps == {"idle", "open", "write", "rename", "measure", "read"}
Position == Nat \union {NoPosition}
Work == [step : WorkSteps, id : Nat, value : Nat, file : Nat, size : Nat, from : Position, run : Nat]
Core == [inbox : Seq(Request), asked : SUBSET Nat, work : Work, jobs : SUBSET Request,
         answers : Seq(Nat), open : BOOLEAN, alive : BOOLEAN]
LogLine == Nat \X Nat
Panel == [at : Position, run : Nat, shown : Seq(LogLine), since : Nat \X Nat, slipped : BOOLEAN]

TypeInv ==
    /\ asks \in [Windows -> SUBSET Methods]
    /\ cores \in [Windows -> Core]
    /\ panels \in [Windows -> Panel]
    /\ files \in [state : Nat, tmp : Nat, content : Seq(Int), overlapped : BOOLEAN]
    /\ log \in [run : Nat, lines : Nat, steps : Nat]
    /\ sent \in Nat

-----------------------------------------------------------------------------
(* A number of a request is in one place: waiting, at hand, on a thread or *)
(* among the answers.  Notifications have none.                            *)
Waits(c, n) == \E i \in DOMAIN c.inbox : c.inbox[i].id = n
OnThread(c, n) == \E r \in c.jobs : r.id = n
IsAnswered(c, n) == \E i \in DOMAIN c.answers : c.answers[i] = n
Numbered(c, most) ==
    /\ \A n \in Nat : Waits(c, n) \/ OnThread(c, n) \/ c.work.id = n => n <= most
    /\ \A n \in Nat : IsAnswered(c, n) => n \in 1..most
    /\ \A i, j \in DOMAIN c.inbox : c.inbox[i].id = c.inbox[j].id => i = j \/ c.inbox[i].id = NoId
    /\ \A r, q \in c.jobs : r.id = q.id => r = q \/ r.id = NoId
    /\ \A i, j \in DOMAIN c.answers : c.answers[i] = c.answers[j] => i = j
    /\ \A n \in Nat \ {NoId} :
          /\ Waits(c, n) => ~OnThread(c, n) /\ c.work.id # n /\ ~IsAnswered(c, n)
          /\ OnThread(c, n) => c.work.id # n /\ ~IsAnswered(c, n)
          /\ c.work.id = n => ~IsAnswered(c, n)
AnswersInv == \A w \in Windows : Numbered(cores[w], sent)

-----------------------------------------------------------------------------
(* Until two windows save at once one of them has the temporary: empty     *)
(* until it is written, whole until it takes the name of the state.        *)
IsWhole(file) == files.content[file] \notin {Emptied, Torn}
Saving(w) ==
    /\ Writing(w) => /\ files.tmp # NoFile /\ cores[w].work.file = files.tmp
                     /\ \A v \in Windows \ {w} : ~Writing(v)
    /\ At(w, "write") => files.content[files.tmp] = Emptied
    /\ At(w, "rename") => IsWhole(files.tmp)
FilesInv ==
    /\ files.state <= Len(files.content) /\ files.tmp <= Len(files.content)
    /\ files.state # NoFile => files.state # files.tmp
    /\ \A w \in Windows : At(w, "open") \/ Writing(w) => cores[w].work.value > 0
    /\ ~files.overlapped =>
          /\ files.state # NoFile => IsWhole(files.state)
          /\ \A w \in Windows : Saving(w)

-----------------------------------------------------------------------------
(* A window is at a line of a run that was; what it shows ends with the    *)
(* lines of that run up to there.                                          *)
Base(p) == IF p.since[1] = p.run THEN p.since[2] ELSE 0
EndsWith(p, old) ==
    /\ Len(p.shown) = old + (p.at - Base(p))
    /\ \A i \in 1..old : p.shown[i][1] < p.run
    /\ \A k \in 1..(p.at - Base(p)) : p.shown[old + k] = <<p.run, Base(p) + k>>
Follows(p) ==
    /\ p.at = NoPosition => p.shown = <<>>
    /\ p.at # NoPosition => \E old \in 0..Len(p.shown) : EndsWith(p, old)
    /\ \A i, j \in DOMAIN p.shown : i < j => Before(p.shown[i], p.shown[j])
PanelInv(p) ==
    /\ p.run <= log.run
    /\ p.run = log.run => p.at <= log.lines
    /\ p.at = NoPosition => p.run = 0 /\ p.since = <<0, 0>>
    /\ p.at # NoPosition => p.since[1] <= p.run /\ (p.since[1] = p.run => p.since[2] <= p.at)
    /\ ~p.slipped => Follows(p)

(* Between the measure and the read the log may grow or begin a new run;   *)
(* from where to read was chosen by the position the window still has.     *)
ReadInv(p, work) ==
    /\ work.run <= log.run
    /\ work.run = log.run => work.size <= log.lines
    /\ work.from = IF p.at = NoPosition THEN NoPosition ELSE IF work.size < p.at THEN 0 ELSE p.at
    /\ p.run <= work.run
    /\ p.run = work.run => p.at <= work.size
LogInv ==
    /\ log.run > 0
    /\ \A w \in Windows : PanelInv(panels[w])
    /\ \A w \in Windows : At(w, "read") => ReadInv(panels[w], cores[w].work)

DeskInv == TypeInv /\ AnswersInv /\ FilesInv /\ LogInv

-----------------------------------------------------------------------------
(* A core that has less to do is still in order.                           *)
LEMMA LessToDo ==
    ASSUME NEW c \in Core, NEW d \in Core, NEW m \in Nat, Numbered(c, m),
           d.inbox \in {c.inbox, <<>>}, d.jobs \subseteq c.jobs,
           d.work.id \in {c.work.id, NoId}, d.answers = c.answers
    PROVE  Numbered(d, m)
<1>1. \A n \in Nat \ {NoId} : /\ Waits(d, n) => Waits(c, n)
                              /\ OnThread(d, n) => OnThread(c, n)
                              /\ d.work.id = n => c.work.id = n
                              /\ IsAnswered(d, n) <=> IsAnswered(c, n)
  BY DEF Waits, OnThread, IsAnswered
<1>2. \A n \in Nat : Waits(d, n) \/ OnThread(d, n) \/ d.work.id = n => n <= m
  BY <1>1 DEF Numbered, NoId
<1>3. \A n \in Nat : IsAnswered(d, n) => n \in 1..m
  BY DEF Numbered, IsAnswered
<1>4. \A i, j \in DOMAIN d.inbox : d.inbox[i].id = d.inbox[j].id => i = j \/ d.inbox[i].id = NoId
  BY DEF Numbered
<1>5. \A r, q \in d.jobs : r.id = q.id => r = q \/ r.id = NoId
  BY DEF Numbered
<1>6. \A i, j \in DOMAIN d.answers : d.answers[i] = d.answers[j] => i = j
  BY DEF Numbered
<1>7. \A n \in Nat \ {NoId} :
          /\ Waits(d, n) => ~OnThread(d, n) /\ d.work.id # n /\ ~IsAnswered(d, n)
          /\ OnThread(d, n) => d.work.id # n /\ ~IsAnswered(d, n)
          /\ d.work.id = n => ~IsAnswered(d, n)
  BY <1>1 DEF Numbered
<1>8. QED
  BY <1>2, <1>3, <1>4, <1>5, <1>6, <1>7 DEF Numbered

(* Numbers grow.                                                           *)
LEMMA MoreSent ==
    ASSUME NEW c, NEW m \in Nat, Numbered(c, m)
    PROVE  Numbered(c, m + 1)
<1>1. \A n \in Nat : n <= m => n <= m + 1
  OBVIOUS
<1>2. \A n : n \in 1..m => n \in 1..(m + 1)
  OBVIOUS
<1>3. QED
  BY <1>1, <1>2 DEF Numbered

(* A request that arrives has a number that no other had.                  *)
LEMMA Arrival ==
    ASSUME NEW c \in Core, NEW d \in Core, NEW m \in Nat, Numbered(c, m),
           NEW r \in Request, r.id \in {NoId, m + 1},
           d.inbox = Append(c.inbox, r), d.work = c.work, d.jobs = c.jobs, d.answers = c.answers
    PROVE  Numbered(d, m + 1)
<1>1. c.inbox \in Seq(Request)
  BY DEF Core
<1>2. /\ Len(c.inbox) \in Nat /\ DOMAIN c.inbox = 1..Len(c.inbox)
      /\ DOMAIN d.inbox = 1..(Len(c.inbox) + 1)
      /\ d.inbox[Len(c.inbox) + 1] = r
      /\ \A i \in 1..Len(c.inbox) : d.inbox[i] = c.inbox[i] /\ c.inbox[i] \in Request
  BY <1>1
<1>3. \A n \in Nat : /\ Waits(d, n) => Waits(c, n) \/ n = r.id
                     /\ OnThread(d, n) <=> OnThread(c, n)
                     /\ IsAnswered(d, n) <=> IsAnswered(c, n)
                     /\ d.work.id = c.work.id
  <2>1. \A i \in DOMAIN d.inbox : i \in DOMAIN c.inbox \/ i = Len(c.inbox) + 1
    BY <1>2
  <2>2. QED
    BY <2>1, <1>2 DEF Waits, OnThread, IsAnswered
<1>4. /\ \A n \in Nat : Waits(c, n) \/ OnThread(c, n) \/ c.work.id = n => n <= m
      /\ \A n \in Nat : IsAnswered(c, n) => n \in 1..m
  BY DEF Numbered
<1>5. r.id \in Nat /\ r.id <= m + 1 /\ (r.id # NoId => r.id > m)
  BY DEF NoId
<1>6. \A n \in Nat : Waits(d, n) \/ OnThread(d, n) \/ d.work.id = n => n <= m + 1
  <2>1. \A n \in Nat : n <= m => n <= m + 1
    OBVIOUS
  <2>2. QED
    BY <1>3, <1>4, <1>5, <2>1, Zenon
<1>7. \A n \in Nat : IsAnswered(d, n) => n \in 1..(m + 1)
  BY <1>3, <1>4
<1>8. \A i, j \in DOMAIN d.inbox : d.inbox[i].id = d.inbox[j].id => i = j \/ d.inbox[i].id = NoId
  <2>1. \A i \in 1..Len(c.inbox) : c.inbox[i].id \in Nat /\ Waits(c, c.inbox[i].id)
    BY <1>2 DEF Waits, Request
  <2>2. \A i \in 1..Len(c.inbox) : c.inbox[i].id <= m /\ c.inbox[i].id \in Nat
    BY <2>1, <1>4
  <2>3. \A i, j \in 1..Len(c.inbox) : c.inbox[i].id = c.inbox[j].id => i = j \/ c.inbox[i].id = NoId
    BY <1>2 DEF Numbered
  <2>4. \A i \in DOMAIN d.inbox : i \in 1..Len(c.inbox) \/ i = Len(c.inbox) + 1
    BY <1>2
  <2>5. \A i \in 1..Len(c.inbox) : d.inbox[i].id # r.id \/ r.id = NoId
    BY <2>2, <1>2, <1>5
  <2>6. QED
    BY <2>3, <2>4, <2>5, <1>2
<1>9. /\ \A p, q \in d.jobs : p.id = q.id => p = q \/ p.id = NoId
      /\ \A i, j \in DOMAIN d.answers : d.answers[i] = d.answers[j] => i = j
  BY DEF Numbered
<1>10. ASSUME NEW n \in Nat \ {NoId}
       PROVE  /\ Waits(d, n) => ~OnThread(d, n) /\ d.work.id # n /\ ~IsAnswered(d, n)
              /\ OnThread(d, n) => d.work.id # n /\ ~IsAnswered(d, n)
              /\ d.work.id = n => ~IsAnswered(d, n)
  <2>1. CASE n = r.id
    BY <2>1, <1>3, <1>4, <1>5
  <2>2. CASE n # r.id
    BY <2>2, <1>3 DEF Numbered
  <2>3. QED
    BY <2>1, <2>2
<1>11. QED
  BY <1>6, <1>7, <1>8, <1>9, <1>10 DEF Numbered

(* The request at the head is nowhere else, and waits no more.             *)
LEMMA Departure ==
    ASSUME NEW c \in Core, NEW d \in Core, NEW m \in Nat, Numbered(c, m),
           c.inbox # <<>>, d = [c EXCEPT !.inbox = Tail(@)]
    PROVE  /\ Numbered(d, m)
           /\ Head(c.inbox) \in Request /\ Head(c.inbox).id <= m
           /\ \A n \in Nat \ {NoId} : Head(c.inbox).id = n =>
                 ~Waits(d, n) /\ ~OnThread(d, n) /\ d.work.id # n /\ ~IsAnswered(d, n)
<1>1. c.inbox \in Seq(Request)
  BY DEF Core
<1>2. /\ Len(c.inbox) \in Nat \ {0} /\ DOMAIN c.inbox = 1..Len(c.inbox)
      /\ Head(c.inbox) = c.inbox[1] /\ Head(c.inbox) \in Request
  BY <1>1
<1>3. d.inbox = Tail(c.inbox) /\ d.work = c.work /\ d.jobs = c.jobs /\ d.answers = c.answers
  BY DEF Core
<1>4. /\ DOMAIN d.inbox = 1..(Len(c.inbox) - 1)
      /\ \A i \in DOMAIN d.inbox : d.inbox[i] = c.inbox[i + 1] /\ i + 1 \in DOMAIN c.inbox /\ i + 1 # 1
  BY <1>1, <1>2, <1>3
<1>5. \A n \in Nat : /\ Waits(d, n) => Waits(c, n)
                     /\ OnThread(d, n) <=> OnThread(c, n)
                     /\ IsAnswered(d, n) <=> IsAnswered(c, n)
  BY <1>3, <1>4 DEF Waits, OnThread, IsAnswered
<1>6. Head(c.inbox).id \in Nat /\ Waits(c, Head(c.inbox).id)
  BY <1>2 DEF Waits, Request
<1>7. ASSUME NEW n \in Nat \ {NoId}, Head(c.inbox).id = n
      PROVE  ~Waits(d, n) /\ ~OnThread(d, n) /\ d.work.id # n /\ ~IsAnswered(d, n)
  <2>1. ~Waits(d, n)
    <3>1. \A i, j \in DOMAIN c.inbox : c.inbox[i].id = c.inbox[j].id => i = j \/ c.inbox[i].id = NoId
      BY DEF Numbered
    <3>2. ASSUME NEW i \in DOMAIN d.inbox, d.inbox[i].id = n PROVE FALSE
      <4>1. c.inbox[i + 1].id = n /\ i + 1 \in DOMAIN c.inbox /\ i + 1 # 1 /\ 1 \in DOMAIN c.inbox /\ c.inbox[1].id = n
        BY <3>2, <1>2, <1>4, <1>7
      <4>2. QED
        BY <3>1, <4>1
    <3>3. QED
      BY <3>2 DEF Waits
  <2>2. QED
    BY <2>1, <1>3, <1>5, <1>6, <1>7 DEF Numbered
<1>8. Numbered(d, m)
  <2>1. \A i, j \in DOMAIN d.inbox : d.inbox[i].id = d.inbox[j].id => i = j \/ d.inbox[i].id = NoId
    <3>1. \A i, j \in DOMAIN d.inbox : i + 1 = j + 1 => i = j
      BY <1>2, <1>4
    <3>2. QED
      BY <3>1, <1>4 DEF Numbered
  <2>2. QED
    BY <2>1, <1>3, <1>5, Zenon DEF Numbered
<1>9. Head(c.inbox).id <= m
  BY <1>6 DEF Numbered
<1>10. QED
  BY <1>2, <1>7, <1>8, <1>9

(* What is nowhere may go to a thread, be taken at hand or be answered.    *)
Nowhere(c, id) == \A n \in Nat \ {NoId} : id = n => ~Waits(c, n) /\ ~OnThread(c, n) /\ c.work.id # n /\ ~IsAnswered(c, n)
LEMMA ToThread ==
    ASSUME NEW c \in Core, NEW d \in Core, NEW m \in Nat, Numbered(c, m),
           NEW r \in Request, r.id <= m, Nowhere(c, r.id),
           d = [c EXCEPT !.jobs = @ \union {r}]
    PROVE  Numbered(d, m)
<1>1. d.inbox = c.inbox /\ d.work = c.work /\ d.jobs = c.jobs \union {r} /\ d.answers = c.answers
  BY DEF Core
<1>2. r.id \in Nat
  BY DEF Request
<1>3. \A n \in Nat : /\ Waits(d, n) <=> Waits(c, n)
                     /\ OnThread(d, n) <=> OnThread(c, n) \/ r.id = n
                     /\ IsAnswered(d, n) <=> IsAnswered(c, n)
  BY <1>1 DEF Waits, OnThread, IsAnswered
<1>4. \A p, q \in d.jobs : p.id = q.id => p = q \/ p.id = NoId
  <2>1. \A p \in c.jobs : p.id = r.id => r.id = NoId
    BY <1>2 DEF Nowhere, OnThread
  <2>2. QED
    BY <2>1, <1>1 DEF Numbered
<1>5. \A n \in Nat : Waits(d, n) \/ OnThread(d, n) \/ d.work.id = n => n <= m
  BY <1>1, <1>3 DEF Numbered
<1>6. \A n \in Nat \ {NoId} :
          /\ Waits(d, n) => ~OnThread(d, n) /\ d.work.id # n /\ ~IsAnswered(d, n)
          /\ OnThread(d, n) => d.work.id # n /\ ~IsAnswered(d, n)
          /\ d.work.id = n => ~IsAnswered(d, n)
  BY <1>1, <1>3 DEF Numbered, Nowhere
<1>7. \A i, j \in DOMAIN d.answers : d.answers[i] = d.answers[j] => i = j
  BY <1>1 DEF Numbered
<1>8. \A i, j \in DOMAIN d.inbox : d.inbox[i].id = d.inbox[j].id => i = j \/ d.inbox[i].id = NoId
  BY <1>1 DEF Numbered
<1>9. \A n \in Nat : IsAnswered(d, n) => n \in 1..m
  BY <1>3 DEF Numbered
<1>10. QED
  BY <1>4, <1>5, <1>6, <1>7, <1>8, <1>9 DEF Numbered

(* The request at hand.                                                    *)
LEMMA ToHand ==
    ASSUME NEW c \in Core, NEW d \in Core, NEW m \in Nat, Numbered(c, m),
           d.work.id <= m, Nowhere(c, d.work.id),
           d.inbox = c.inbox, d.jobs = c.jobs, d.answers = c.answers
    PROVE  Numbered(d, m)
<1>1. d.work.id \in Nat
  BY DEF Core, Work
<1>2. \A n \in Nat : /\ Waits(d, n) <=> Waits(c, n)
                     /\ OnThread(d, n) <=> OnThread(c, n)
                     /\ IsAnswered(d, n) <=> IsAnswered(c, n)
  BY DEF Waits, OnThread, IsAnswered
<1>3. QED
  BY <1>1, <1>2 DEF Numbered, Nowhere

(* The answer.                                                             *)
LEMMA Answering ==
    ASSUME NEW c \in Core, NEW m \in Nat, Numbered(c, m),
           NEW id \in Nat, id <= m, Nowhere(c, id)
    PROVE  /\ Answered(c, id) \in Core /\ Numbered(Answered(c, id), m)
           /\ Answered(c, id).work = c.work /\ Answered(c, id).alive = c.alive
<1>1. CASE id = NoId
  BY <1>1 DEF Answered
<1>2. CASE id # NoId
  <2> DEFINE d == Answered(c, id)
  <2>1. c.answers \in Seq(Nat)
    BY DEF Core
  <2>2. Append(c.answers, id) \in Seq(Nat)
    BY <2>1
  <2>3. d = [c EXCEPT !.answers = Append(@, id)]
    BY <1>2 DEF Answered
  <2>4. /\ d.inbox = c.inbox /\ d.work = c.work /\ d.jobs = c.jobs /\ d.alive = c.alive
        /\ d.answers = Append(c.answers, id)
    BY <2>3 DEF Core
  <2>5. d \in Core
    BY <2>2, <2>3 DEF Core
  <2> HIDE DEF d
  <2>6. /\ DOMAIN c.answers = 1..Len(c.answers) /\ DOMAIN d.answers = 1..(Len(c.answers) + 1)
        /\ Len(c.answers) \in Nat /\ d.answers[Len(c.answers) + 1] = id
        /\ \A i \in 1..Len(c.answers) : d.answers[i] = c.answers[i] /\ c.answers[i] \in Nat
    BY <2>1, <2>4
  <2>7. \A i \in DOMAIN d.answers : i \in DOMAIN c.answers \/ i = Len(c.answers) + 1
    BY <2>6
  <2>8. \A n \in Nat : /\ Waits(d, n) <=> Waits(c, n)
                       /\ OnThread(d, n) <=> OnThread(c, n)
                       /\ IsAnswered(d, n) => IsAnswered(c, n) \/ n = id
    BY <2>4, <2>6, <2>7 DEF Waits, OnThread, IsAnswered
  <2>9. \A i, j \in DOMAIN d.answers : d.answers[i] = d.answers[j] => i = j
    <3>1. \A i \in DOMAIN c.answers : c.answers[i] # id
      BY <1>2, <2>6 DEF Nowhere, IsAnswered
    <3>2. \A i, j \in DOMAIN c.answers : c.answers[i] = c.answers[j] => i = j
      BY DEF Numbered
    <3>3. QED
      BY <3>1, <3>2, <2>6, <2>7
  <2>10. \A n \in Nat : IsAnswered(d, n) => n \in 1..m
    BY <2>8, <1>2 DEF Numbered, NoId
  <2>11. \A n \in Nat \ {NoId} :
            /\ Waits(d, n) => ~OnThread(d, n) /\ d.work.id # n /\ ~IsAnswered(d, n)
            /\ OnThread(d, n) => d.work.id # n /\ ~IsAnswered(d, n)
            /\ d.work.id = n => ~IsAnswered(d, n)
    BY <2>4, <2>8 DEF Numbered, Nowhere
  <2>12. Numbered(d, m)
    BY <2>4, <2>8, <2>9, <2>10, <2>11 DEF Numbered
  <2>13. QED
    BY <2>4, <2>5, <2>12 DEF d
<1>3. QED
  BY <1>1, <1>2

-----------------------------------------------------------------------------
(* A step of one core.  A quiet one meets neither the disk nor the log.    *)
Turns(w, d) == cores' = [cores EXCEPT ![w] = d] /\ Numbered(d, sent')
IsQuiet(c, d) ==
    \/ d.work = c.work /\ (d.alive => c.alive)
    \/ d.work.step \in {"idle", "open", "measure"} /\ (d.work.step = "open" => d.work.value > 0)
Quietly(w) == \E d \in Core : Turns(w, d) /\ IsQuiet(cores[w], d)

(* The numbers of the other windows stay where they are.                   *)
LEMMA TurnAnswers ==
    ASSUME TypeInv, AnswersInv, NEW w \in Windows, NEW d \in Core, Turns(w, d), sent' \in {sent, sent + 1}
    PROVE  /\ cores' \in [Windows -> Core] /\ AnswersInv' /\ cores'[w] = d /\ sent' \in Nat
           /\ \A v \in Windows : v # w => cores'[v] = cores[v]
<1>1. cores \in [Windows -> Core] /\ sent \in Nat /\ cores' = [cores EXCEPT ![w] = d]
  BY DEF TypeInv, Turns
<1>2. /\ cores' \in [Windows -> Core] /\ cores'[w] = d
      /\ \A v \in Windows : v # w => cores'[v] = cores[v]
  BY <1>1
<1>3. \A v \in Windows : Numbered(cores[v], sent')
  BY <1>1, MoreSent DEF AnswersInv
<1>4. \A v \in Windows : Numbered(cores'[v], sent')
  BY <1>2, <1>3 DEF Turns
<1>5. QED
  BY <1>1, <1>2, <1>4 DEF AnswersInv

(* Nothing of the log happens.                                             *)
LEMMA LogKept ==
    ASSUME LogInv, UNCHANGED <<panels, log>>,
           \A v \in Windows : At(v, "read")' => At(v, "read") /\ cores'[v].work = cores[v].work
    PROVE  LogInv'
<1>1. panels' = panels /\ log' = log
  OBVIOUS
<1>2. \A v \in Windows : PanelInv(panels[v])'
  BY <1>1 DEF LogInv, PanelInv
<1>3. \A v \in Windows : At(v, "read")' => ReadInv(panels[v], cores[v].work)'
  BY <1>1 DEF LogInv, ReadInv
<1>4. QED
  BY <1>1, <1>2, <1>3 DEF LogInv

(* A quiet step of a core leaves everything in order.                      *)
LEMMA QuietInv ==
    ASSUME DeskInv, NEW w \in Windows, Quietly(w),
           UNCHANGED <<asks, panels, files, log>>, sent' \in {sent, sent + 1}
    PROVE  DeskInv'
<1>1. PICK d \in Core : Turns(w, d) /\ IsQuiet(cores[w], d)
  BY DEF Quietly
<1>2. /\ cores' \in [Windows -> Core] /\ AnswersInv' /\ cores'[w] = d /\ sent' \in Nat
      /\ \A v \in Windows : v # w => cores'[v] = cores[v]
  BY <1>1, TurnAnswers DEF DeskInv
<1>3. TypeInv'
  BY <1>2 DEF DeskInv, TypeInv
<1>4. \A v \in Windows : /\ At(v, "write")' => At(v, "write") /\ cores'[v].work = cores[v].work
                         /\ At(v, "rename")' => At(v, "rename") /\ cores'[v].work = cores[v].work
                         /\ At(v, "read")' => At(v, "read") /\ cores'[v].work = cores[v].work
                         /\ At(v, "open")' => \/ At(v, "open") /\ cores'[v].work = cores[v].work
                                            \/ cores'[v].work.value > 0
  BY <1>1, <1>2 DEF At, Alive, IsQuiet
<1>5. FilesInv'
  <2>1. UNCHANGED files
    OBVIOUS
  <2>2. \A v \in Windows : Writing(v)' => Writing(v) /\ cores'[v].work = cores[v].work
    BY <1>4 DEF Writing
  <2>3. \A v \in Windows : (At(v, "open") \/ Writing(v))' => cores'[v].work.value > 0
    BY <1>4, <2>2 DEF DeskInv, FilesInv
  <2>4. ~files.overlapped => \A v \in Windows : Saving(v)'
    BY <1>4, <2>1, <2>2 DEF DeskInv, FilesInv, Saving, IsWhole
  <2>5. QED
    BY <2>1, <2>3, <2>4 DEF DeskInv, FilesInv, IsWhole
<1>6. LogInv'
  BY <1>4, LogKept DEF DeskInv
<1>7. QED
  BY <1>2, <1>3, <1>5, <1>6 DEF DeskInv

(* Send, Close, Crash.                                                     *)
LEMMA OutsideInv ==
    ASSUME DeskInv, NEW w \in Windows, Send(w) \/ Close(w) \/ Crash(w)
    PROVE  DeskInv'
<1> DEFINE c == cores[w]
<1>1. c \in Core /\ sent \in Nat /\ Numbered(c, sent) /\ cores \in [Windows -> Core]
  BY DEF DeskInv, TypeInv, AnswersInv
<1>2. CASE Send(w)
  <2>1. PICK method \in asks[w], id \in {NoId, sent + 1} :
           cores' = [cores EXCEPT ![w].inbox = Append(@, [method |-> method, id |-> id, value |-> sent + 1]),
                                  ![w].asked = IF method = "malformed" THEN @ ELSE @ \union ({id} \ {NoId})]
    BY <1>2, Zenon DEF Send
  <2> DEFINE r == [method |-> method, id |-> id, value |-> sent + 1]
             d == [c EXCEPT !.inbox = Append(@, r),
                            !.asked = IF method = "malformed" THEN @ ELSE @ \union ({id} \ {NoId})]
  <2>2. cores' = [cores EXCEPT ![w] = d]
    BY <1>1, <2>1
  <2>3. r \in Request /\ r.id \in {NoId, sent + 1}
    BY <1>1, <2>1 DEF Request, NoId, DeskInv, TypeInv
  <2>4. Append(c.inbox, r) \in Seq(Request)
    BY <1>1, <2>3 DEF Core
  <2>5. d \in Core
    <3>1. (IF method = "malformed" THEN c.asked ELSE c.asked \union ({id} \ {NoId})) \in SUBSET Nat
      BY <1>1, <2>1 DEF Core, NoId
    <3>2. QED
      BY <1>1, <2>4, <3>1 DEF Core
  <2>6. d.inbox = Append(c.inbox, r) /\ d.work = c.work /\ d.jobs = c.jobs /\ d.answers = c.answers /\ d.alive = c.alive
    BY <1>1 DEF Core
  <2> HIDE DEF r, d
  <2>7. sent' = sent + 1 /\ UNCHANGED <<asks, panels, files, log>>
    BY <1>2 DEF Send
  <2>8. Numbered(d, sent + 1)
    BY <1>1, <2>3, <2>5, <2>6, Arrival
  <2>9. Quietly(w)
    BY <2>2, <2>5, <2>6, <2>7, <2>8, Zenon DEF Quietly, Turns, IsQuiet
  <2>10. QED
    BY <2>7, <2>9, QuietInv
<1>3. CASE Close(w)
  <2> DEFINE d == [c EXCEPT !.open = FALSE]
  <2>1. cores' = [cores EXCEPT ![w] = d] /\ UNCHANGED <<asks, panels, files, log, sent>>
    BY <1>1, <1>3 DEF Close
  <2>2. /\ d \in Core /\ d.inbox = c.inbox /\ d.work = c.work /\ d.jobs = c.jobs
        /\ d.answers = c.answers /\ d.alive = c.alive
    BY <1>1 DEF Core
  <2> HIDE DEF d
  <2>3. Numbered(d, sent)
    BY <1>1, <2>2, LessToDo
  <2>4. Quietly(w)
    BY <2>1, <2>2, <2>3 DEF Quietly, Turns, IsQuiet
  <2>5. QED
    BY <2>1, <2>4, QuietInv
<1>4. CASE Crash(w)
  <2> DEFINE d == [c EXCEPT !.inbox = <<>>, !.work = Idle, !.jobs = {}, !.alive = FALSE]
  <2>1. cores' = [cores EXCEPT ![w] = d] /\ UNCHANGED <<asks, panels, files, log, sent>>
    BY <1>1, <1>4 DEF Crash
  <2>2. Idle \in Work
    BY DEF Idle, Work, WorkSteps, NoId, NoFile, Position
  <2>3. /\ d \in Core /\ d.inbox = <<>> /\ d.work = Idle /\ d.jobs = {}
        /\ d.answers = c.answers
    <3>1. <<>> \in Seq(Request) /\ {} \in SUBSET Request
      OBVIOUS
    <3>2. QED
      BY <1>1, <2>2, <3>1 DEF Core
  <2> HIDE DEF d
  <2>4. d.work.id = NoId /\ d.work.step = "idle"
    BY <2>3 DEF Idle
  <2>5. Numbered(d, sent)
    BY <1>1, <2>3, <2>4, LessToDo
  <2>6. Quietly(w)
    BY <2>1, <2>3, <2>4, <2>5 DEF Quietly, Turns, IsQuiet
  <2>7. QED
    BY <2>1, <2>6, QuietInv
<1>5. QED
  BY <1>2, <1>3, <1>4

(* The loop takes a request: it answers it, gives it to a thread or begins *)
(* to work on it.                                                          *)
LEMMA ServeInv ==
    ASSUME DeskInv, NEW w \in Windows, Serve(w)
    PROVE  DeskInv'
<1> DEFINE e == cores[w]
           r == Head(e.inbox)
           c == [e EXCEPT !.inbox = Tail(@)]
           begun(step) == [c EXCEPT !.work = [Idle EXCEPT !.step = step, !.id = r.id, !.value = r.value]]
<1>1. e \in Core /\ sent \in Nat /\ Numbered(e, sent) /\ cores \in [Windows -> Core]
  BY DEF DeskInv, TypeInv, AnswersInv
<1>2. /\ e.inbox # <<>> /\ e.work.step = "idle" /\ UNCHANGED <<asks, panels, files, log, sent>>
      /\ \/ cores' = [cores EXCEPT ![w] = c]
         \/ cores' = [cores EXCEPT ![w] = Answered(c, r.id)]
         \/ cores' = [cores EXCEPT ![w] = [c EXCEPT !.jobs = @ \union {r}]]
         \/ cores' = [cores EXCEPT ![w] = begun("open")]
         \/ cores' = [cores EXCEPT ![w] = begun("measure")]
  BY DEF Serve, At
<1>3. c \in Core /\ c.work = e.work /\ c.alive = e.alive /\ c.inbox = Tail(e.inbox)
      /\ c.jobs = e.jobs /\ c.answers = e.answers
  <2>1. Tail(e.inbox) \in Seq(Request)
    BY <1>1, <1>2 DEF Core
  <2>2. QED
    BY <1>1, <2>1 DEF Core
<1>4. /\ Numbered(c, sent) /\ r \in Request /\ r.id <= sent /\ Nowhere(c, r.id)
  BY <1>1, <1>2, <1>3, Departure DEF Nowhere
<1> HIDE DEF c, r
<1>5. r.id \in Nat /\ r.value \in Nat \ {0}
  BY <1>4 DEF Request
<1>6. CASE cores' = [cores EXCEPT ![w] = c]
  BY <1>2, <1>3, <1>4, <1>6, QuietInv DEF Quietly, Turns, IsQuiet
<1>7. CASE cores' = [cores EXCEPT ![w] = Answered(c, r.id)]
  <2>1. /\ Answered(c, r.id) \in Core /\ Numbered(Answered(c, r.id), sent)
        /\ Answered(c, r.id).work = e.work /\ Answered(c, r.id).alive = e.alive
    BY <1>1, <1>3, <1>4, <1>5, Answering
  <2>2. Quietly(w)
    BY <1>2, <1>7, <2>1 DEF Quietly, Turns, IsQuiet
  <2>3. QED
    BY <1>2, <2>2, QuietInv
<1>8. CASE cores' = [cores EXCEPT ![w] = [c EXCEPT !.jobs = @ \union {r}]]
  <2> DEFINE d == [c EXCEPT !.jobs = @ \union {r}]
  <2>1. d \in Core /\ d.work = e.work /\ d.alive = e.alive
    BY <1>3, <1>4 DEF Core
  <2>2. Numbered(d, sent)
    BY <1>1, <1>3, <1>4, <2>1, ToThread
  <2> HIDE DEF d
  <2>3. cores' = [cores EXCEPT ![w] = d]
    BY <1>8 DEF d
  <2>4. Quietly(w)
    BY <1>2, <2>1, <2>2, <2>3 DEF Quietly, Turns, IsQuiet
  <2>5. QED
    BY <1>2, <2>4, QuietInv
<1>9. ASSUME NEW step \in {"open", "measure"}, cores' = [cores EXCEPT ![w] = begun(step)]
      PROVE  DeskInv'
  <2> DEFINE d == begun(step)
             work == [Idle EXCEPT !.step = step, !.id = r.id, !.value = r.value]
  <2>1. work \in Work /\ work.step = step /\ work.id = r.id /\ work.value = r.value
    BY <1>5 DEF Idle, Work, WorkSteps, NoId, NoFile, Position
  <2>2. d \in Core /\ d.work = work /\ d.inbox = c.inbox /\ d.jobs = c.jobs /\ d.answers = c.answers
    BY <1>3, <2>1 DEF Core
  <2> HIDE DEF d, work
  <2>3. Numbered(d, sent)
    BY <1>1, <1>3, <1>4, <2>1, <2>2, ToHand
  <2>4. IsQuiet(e, d)
    BY <1>5, <2>1, <2>2 DEF IsQuiet
  <2>5. Quietly(w)
    BY <1>2, <1>9, <2>2, <2>3, <2>4 DEF Quietly, Turns, d
  <2>6. QED
    BY <1>2, <2>5, QuietInv
<1>10. QED
  BY <1>2, <1>6, <1>7, <1>8, <1>9

(* A thread answers what it had; the process ends with its threads.        *)
LEMMA ThreadsInv ==
    ASSUME DeskInv, NEW w \in Windows, CompileDone(w) \/ Exit(w)
    PROVE  DeskInv'
<1> DEFINE e == cores[w]
<1>1. e \in Core /\ sent \in Nat /\ Numbered(e, sent) /\ cores \in [Windows -> Core]
  BY DEF DeskInv, TypeInv, AnswersInv
<1>2. UNCHANGED <<asks, panels, files, log, sent>>
  BY DEF CompileDone, Exit
<1>3. CASE CompileDone(w)
  <2>1. PICK r \in e.jobs : cores' = [cores EXCEPT ![w] = Answered([e EXCEPT !.jobs = @ \ {r}], r.id)]
    BY <1>3 DEF CompileDone
  <2> DEFINE c == [e EXCEPT !.jobs = @ \ {r}]
  <2>2. /\ c \in Core /\ c.inbox = e.inbox /\ c.work = e.work /\ c.answers = e.answers
        /\ c.alive = e.alive /\ c.jobs = e.jobs \ {r}
    BY <1>1 DEF Core
  <2>3. r \in Request /\ r.id \in Nat
    BY <1>1, <2>1 DEF Core, Request
  <2>4. cores' = [cores EXCEPT ![w] = Answered(c, r.id)]
    BY <2>1
  <2> HIDE DEF c
  <2>5. Numbered(c, sent)
    BY <1>1, <2>2, LessToDo
  <2>6. r.id <= sent /\ Nowhere(c, r.id)
    <3>1. OnThread(e, r.id)
      BY DEF OnThread
    <3>2. \A n \in Nat : /\ Waits(c, n) <=> Waits(e, n)
                         /\ IsAnswered(c, n) <=> IsAnswered(e, n)
      BY <2>2 DEF Waits, IsAnswered
    <3>3. r.id # NoId => ~OnThread(c, r.id)
      BY <1>1, <2>2 DEF OnThread, Numbered
    <3>4. QED
      BY <1>1, <2>2, <2>3, <3>1, <3>2, <3>3 DEF Numbered, Nowhere
  <2>7. /\ Answered(c, r.id) \in Core /\ Numbered(Answered(c, r.id), sent)
        /\ Answered(c, r.id).work = e.work /\ Answered(c, r.id).alive = e.alive
    BY <1>1, <2>2, <2>3, <2>5, <2>6, Answering
  <2>8. Quietly(w)
    BY <1>2, <2>4, <2>7 DEF Quietly, Turns, IsQuiet
  <2>9. QED
    BY <1>2, <2>8, QuietInv
<1>4. CASE Exit(w)
  <2> DEFINE d == [e EXCEPT !.jobs = {}, !.alive = FALSE]
  <2>1. cores' = [cores EXCEPT ![w] = d]
    BY <1>1, <1>4 DEF Exit
  <2>2. /\ d \in Core /\ d.inbox = e.inbox /\ d.work = e.work /\ d.jobs = {}
        /\ d.answers = e.answers /\ d.alive = FALSE
    BY <1>1 DEF Core
  <2> HIDE DEF d
  <2>3. Numbered(d, sent)
    BY <1>1, <2>2, LessToDo
  <2>4. Quietly(w)
    BY <1>2, <2>1, <2>2, <2>3 DEF Quietly, Turns, IsQuiet
  <2>5. QED
    BY <1>2, <2>4, QuietInv
<1>5. QED
  BY <1>3, <1>4

-----------------------------------------------------------------------------
(* A value in the place of another.                                        *)
Overwrites(t, s, k, x) == t = [s EXCEPT ![k] = x]
Overwritten(t, s, k, x) ==
    /\ t \in Seq(Int) /\ Len(t) = Len(s) /\ Len(s) \in Nat
    /\ k \in 1..Len(s) => t[k] = x
    /\ \A i \in 1..Len(s) : i # k => t[i] = s[i]
LEMMA Overwriting ==
    ASSUME NEW s \in Seq(Int), NEW k \in Nat, NEW x \in Int, NEW t, Overwrites(t, s, k, x)
    PROVE  Overwritten(t, s, k, x)
<1>1. Len(s) \in Nat /\ s \in [1..Len(s) -> Int]
  OBVIOUS
<1>2. t = [s EXCEPT ![k] = x] /\ t \in [1..Len(s) -> Int]
  BY <1>1 DEF Overwrites
<1>3. t \in Seq(Int) /\ Len(t) = Len(s)
  BY <1>1, <1>2
<1>4. QED
  BY <1>1, <1>2, <1>3 DEF Overwritten

(* Saving.  The temporary is opened: nobody else has it, or the windows    *)
(* are saving at once.                                                     *)
LEMMA OpenInv ==
    ASSUME DeskInv, NEW w \in Windows, OpenTmp(w)
    PROVE  DeskInv'
<1> DEFINE e == cores[w]
           fresh == files.tmp = NoFile
           file == IF fresh THEN Len(files.content) + 1 ELSE files.tmp
           d == [e EXCEPT !.work = [@ EXCEPT !.step = "write", !.file = file]]
<1>1. /\ e \in Core /\ e.work \in Work /\ sent \in Nat /\ Numbered(e, sent) /\ cores \in [Windows -> Core]
      /\ files \in [state : Nat, tmp : Nat, content : Seq(Int), overlapped : BOOLEAN]
  BY DEF DeskInv, TypeInv, AnswersInv, Core
<1>2. /\ At(w, "open") /\ UNCHANGED <<asks, panels, log, sent>>
      /\ cores' = [cores EXCEPT ![w] = d]
      /\ files' = [files EXCEPT !.tmp = file,
                       !.content = IF fresh THEN Append(@, Emptied) ELSE [@ EXCEPT ![file] = Emptied],
                       !.overlapped = @ \/ \E v \in Windows \ {w} : Writing(v)]
  BY <1>1 DEF OpenTmp
<1>3. /\ file \in Nat \ {0} /\ Len(files.content) \in Nat
      /\ files.state <= Len(files.content) /\ files.tmp <= Len(files.content)
  BY <1>1 DEF DeskInv, FilesInv, NoFile
<1>4. /\ d \in Core /\ d.work.step = "write" /\ d.work.file = file /\ d.work.id = e.work.id /\ d.alive = e.alive
      /\ d.work.value = e.work.value
      /\ d.inbox = e.inbox /\ d.jobs = e.jobs /\ d.answers = e.answers
  <2> DEFINE work == [e.work EXCEPT !.step = "write", !.file = file]
  <2>1. /\ work \in Work /\ work.step = "write" /\ work.file = file /\ work.id = e.work.id
        /\ work.value = e.work.value
    BY <1>1, <1>3 DEF Work, WorkSteps
  <2>2. d = [e EXCEPT !.work = work]
    OBVIOUS
  <2> HIDE DEF work, d
  <2>3. QED
    BY <1>1, <2>1, <2>2 DEF Core
<1>5. /\ files'.content \in Seq(Int) /\ file <= Len(files'.content) /\ Len(files.content) <= Len(files'.content)
      /\ files'.content[file] = Emptied
      /\ \A i \in 1..Len(files.content) : i # file => files'.content[i] = files.content[i]
  <2>1. CASE fresh
    BY <1>1, <1>2, <1>3, <2>1 DEF Emptied
  <2>2. CASE ~fresh
    BY <1>1, <1>2, <1>3, <2>2 DEF Emptied
  <2>3. QED
    BY <2>1, <2>2
<1>6. /\ files'.state = files.state /\ files'.tmp = file
      /\ files'.overlapped = (files.overlapped \/ \E v \in Windows \ {w} : Writing(v))
      /\ files' \in [state : Nat, tmp : Nat, content : Seq(Int), overlapped : BOOLEAN]
  <2>1. files' = [files EXCEPT !.tmp = file, !.content = files'.content, !.overlapped = files'.overlapped]
    BY <1>1, <1>2
  <2>2. files'.overlapped = (files.overlapped \/ \E v \in Windows \ {w} : Writing(v))
    BY <1>1, <1>2
  <2>3. files'.overlapped \in BOOLEAN
    BY <1>1, <2>2
  <2>4. QED
    BY <1>1, <1>3, <1>5, <2>1, <2>2, <2>3
<1>7. files.state # NoFile => files.state # file
  BY <1>1, <1>3 DEF DeskInv, FilesInv
<1> HIDE DEF file, fresh, d
<1>8. Numbered(d, sent)
  BY <1>1, <1>4, LessToDo
<1>9. /\ cores' \in [Windows -> Core] /\ AnswersInv' /\ cores'[w] = d
      /\ \A v \in Windows : v # w => cores'[v] = cores[v]
  BY <1>2, <1>4, <1>8, TurnAnswers DEF Turns, DeskInv
<1>10. TypeInv'
  BY <1>2, <1>6, <1>9 DEF DeskInv, TypeInv
<1>11. \A v \in Windows : v # w => /\ Writing(v)' <=> Writing(v)
                                   /\ At(v, "open")' <=> At(v, "open")
  BY <1>9 DEF Writing, At, Alive
<1>12. At(w, "write")' /\ ~At(w, "rename")' /\ ~At(w, "read")' /\ ~At(w, "open")'
  BY <1>2, <1>4, <1>9 DEF At, Alive
<1>13. FilesInv'
  <2>1. \A v \in Windows : (At(v, "open") \/ Writing(v))' => cores'[v].work.value > 0
    BY <1>2, <1>4, <1>9, <1>11 DEF DeskInv, FilesInv
  <2>2. ASSUME ~files'.overlapped PROVE files'.state # NoFile => IsWhole(files.state)'
    <3>1. SUFFICES ASSUME files.state # NoFile PROVE files'.content[files'.state] \notin {Emptied, Torn}
      BY <1>6 DEF IsWhole
    <3>2. files.content[files.state] \notin {Emptied, Torn}
      BY <2>2, <1>6, <3>1 DEF DeskInv, FilesInv, IsWhole
    <3>3. files.state \in 1..Len(files.content)
      BY <1>1, <1>3, <3>1 DEF NoFile
    <3>4. QED
      BY <1>5, <1>6, <1>7, <3>1, <3>2, <3>3
  <2>3. ASSUME ~files'.overlapped, NEW v \in Windows PROVE Saving(v)'
    <3>1. \A u \in Windows : u # w => ~Writing(u)'
      <4>1. ~\E u \in Windows \ {w} : Writing(u)
        BY <2>3, <1>6
      <4>2. QED
        BY <4>1, <1>11
    <3>2. CASE v = w
      BY <3>1, <3>2, <1>3, <1>4, <1>5, <1>6, <1>9, <1>12 DEF Saving, NoFile
    <3>3. CASE v # w
      BY <3>1, <3>3 DEF Saving, Writing
    <3>4. QED
      BY <3>2, <3>3
  <2>4. files'.state <= Len(files'.content)
    BY <1>1, <1>3, <1>5, <1>6
  <2>5. QED
    BY <2>1, <2>2, <2>3, <2>4, <1>5, <1>6, <1>7 DEF FilesInv
<1>14. LogInv'
  BY <1>2, <1>9, <1>11, <1>12, LogKept DEF DeskInv, At, Alive
<1>15. QED
  BY <1>9, <1>10, <1>13, <1>14 DEF DeskInv

(* The temporary is written: it has the value, or parts of two.            *)
LEMMA WriteInv ==
    ASSUME DeskInv, NEW w \in Windows, WriteTmp(w)
    PROVE  DeskInv'
<1> DEFINE e == cores[w]
           file == e.work.file
           value == e.work.value
           d == [e EXCEPT !.work = [@ EXCEPT !.step = "rename"]]
           now == IF files.content[file] \in Emptied..value THEN value ELSE Torn
<1>1. /\ e \in Core /\ e.work \in Work /\ sent \in Nat /\ Numbered(e, sent) /\ cores \in [Windows -> Core]
      /\ files \in [state : Nat, tmp : Nat, content : Seq(Int), overlapped : BOOLEAN]
      /\ file \in Nat /\ value \in Nat
  BY DEF DeskInv, TypeInv, AnswersInv, Core, Work
<1>2. /\ At(w, "write") /\ UNCHANGED <<asks, panels, log, sent>>
      /\ cores' = [cores EXCEPT ![w] = d]
      /\ files' = [files EXCEPT !.content = [@ EXCEPT ![file] = now]]
  BY <1>1 DEF WriteTmp, Goes
<1>3. /\ d \in Core /\ d.work.step = "rename" /\ d.work.file = file /\ d.work.id = e.work.id /\ d.alive = e.alive
      /\ d.work.value = value
      /\ d.inbox = e.inbox /\ d.jobs = e.jobs /\ d.answers = e.answers
  <2> DEFINE work == [e.work EXCEPT !.step = "rename"]
  <2>1. /\ work \in Work /\ work.step = "rename" /\ work.file = file /\ work.id = e.work.id
        /\ work.value = value
    BY <1>1 DEF Work, WorkSteps
  <2>2. d = [e EXCEPT !.work = work]
    OBVIOUS
  <2> HIDE DEF work, d
  <2>3. QED
    BY <1>1, <2>1, <2>2 DEF Core
<1>4. now \in Int
  BY <1>1 DEF Torn
<1> HIDE DEF now
<1>5. /\ files'.content \in Seq(Int) /\ Len(files'.content) = Len(files.content) /\ Len(files.content) \in Nat
      /\ file \in 1..Len(files.content) => files'.content[file] = now
      /\ \A i \in 1..Len(files.content) : i # file => files'.content[i] = files.content[i]
  <2>1. Overwrites(files'.content, files.content, file, now) /\ files.content \in Seq(Int)
    BY <1>1, <1>2 DEF Overwrites
  <2> HIDE DEF file
  <2>2. file \in Nat
    BY <1>1
  <2>3. Overwritten(files'.content, files.content, file, now)
    BY <1>4, <2>1, <2>2, Overwriting, Zenon
  <2>4. QED
    BY <2>3, Zenon DEF Overwritten
<1>6. /\ files'.state = files.state /\ files'.tmp = files.tmp /\ files'.overlapped = files.overlapped
      /\ files' \in [state : Nat, tmp : Nat, content : Seq(Int), overlapped : BOOLEAN]
  <2>1. files' = [files EXCEPT !.content = files'.content]
    BY <1>1, <1>2
  <2>2. QED
    BY <1>1, <1>5, <2>1
<1> HIDE DEF d
<1>7. Numbered(d, sent)
  BY <1>1, <1>3, LessToDo
<1>8. /\ cores' \in [Windows -> Core] /\ AnswersInv' /\ cores'[w] = d
      /\ \A v \in Windows : v # w => cores'[v] = cores[v]
  BY <1>2, <1>3, <1>7, TurnAnswers DEF Turns, DeskInv
<1>9. TypeInv'
  BY <1>2, <1>6, <1>8 DEF DeskInv, TypeInv
<1>10. \A v \in Windows : /\ v # w => (Writing(v)' <=> Writing(v)) /\ (At(v, "open")' <=> At(v, "open"))
                          /\ v = w => At(v, "rename")' /\ ~At(v, "write")' /\ ~At(v, "read")' /\ ~At(v, "open")'
  BY <1>2, <1>3, <1>8 DEF Writing, At, Alive
<1>11. FilesInv'
  <2>1. \A v \in Windows : (At(v, "open") \/ Writing(v))' => cores'[v].work.value > 0
    BY <1>2, <1>3, <1>8, <1>10 DEF DeskInv, FilesInv, Writing
  <2>2. ASSUME ~files.overlapped
        PROVE  /\ file = files.tmp /\ file \in 1..Len(files.content) /\ now \notin {Emptied, Torn}
               /\ \A u \in Windows : u # w => ~Writing(u)
    <3>1. Saving(w) /\ Writing(w) /\ value > 0
      BY <2>2, <1>2 DEF DeskInv, FilesInv, Writing
    <3>2. file = files.tmp /\ files.tmp # NoFile /\ files.content[file] = Emptied
      BY <3>1, <1>2 DEF Saving
    <3>3. file \in 1..Len(files.content)
      BY <3>2, <1>1, <1>5 DEF DeskInv, FilesInv, NoFile
    <3>4. now = value
      BY <3>1, <3>2, <1>1 DEF now, Emptied
    <3>5. QED
      BY <3>1, <3>2, <3>3, <3>4, <1>1 DEF Saving, Emptied, Torn
  <2>3. ASSUME ~files'.overlapped PROVE files'.state # NoFile => IsWhole(files.state)'
    <3>1. files.state # NoFile => files.state \in 1..Len(files.content) /\ files.state # file
      BY <2>2, <2>3, <1>1, <1>5, <1>6 DEF DeskInv, FilesInv, NoFile
    <3>2. QED
      BY <3>1, <2>3, <1>5, <1>6 DEF DeskInv, FilesInv, IsWhole
  <2>4. ASSUME ~files'.overlapped, NEW v \in Windows PROVE Saving(v)'
    <3>1. \A u \in Windows : u # w => ~Writing(u)'
      BY <2>2, <2>4, <1>6, <1>10
    <3>2. CASE v = w
      <4>1. files'.content[files'.tmp] \notin {Emptied, Torn} /\ files'.tmp # NoFile /\ cores'[w].work.file = files'.tmp
        BY <2>2, <2>4, <1>3, <1>5, <1>6, <1>8 DEF NoFile
      <4>2. QED
        BY <3>1, <3>2, <4>1, <1>10 DEF Saving, IsWhole
    <3>3. CASE v # w
      BY <3>1, <3>3 DEF Saving, Writing
    <3>4. QED
      BY <3>2, <3>3
  <2>5. QED
    BY <2>1, <2>3, <2>4, <1>5, <1>6 DEF DeskInv, FilesInv
<1>12. LogInv'
  BY <1>2, <1>8, <1>10, LogKept DEF DeskInv, At, Alive
<1>13. QED
  BY <1>8, <1>9, <1>11, <1>12 DEF DeskInv

(* Respond.  What was at hand is answered.                                 *)
LEMMA RespondTurns ==
    ASSUME DeskInv, NEW w \in Windows, Respond(w), sent' = sent
    PROVE  \E d \in Core : Turns(w, d) /\ d.work = Idle /\ d.alive = cores[w].alive
<1> DEFINE e == cores[w]
           c == [e EXCEPT !.work = Idle]
<1>1. /\ e \in Core /\ e.work.id \in Nat /\ sent \in Nat /\ Numbered(e, sent) /\ cores \in [Windows -> Core]
  BY DEF DeskInv, TypeInv, AnswersInv, Core, Work
<1>2. cores' = [cores EXCEPT ![w] = Answered(c, e.work.id)]
  BY DEF Respond
<1>3. Idle \in Work /\ Idle.id = NoId
  BY DEF Idle, Work, WorkSteps, NoId, NoFile, Position
<1>4. /\ c \in Core /\ c.work = Idle /\ c.inbox = e.inbox /\ c.jobs = e.jobs
      /\ c.answers = e.answers /\ c.alive = e.alive
  BY <1>1, <1>3 DEF Core
<1> HIDE DEF c
<1>5. Numbered(c, sent)
  BY <1>1, <1>3, <1>4, LessToDo
<1>6. e.work.id <= sent /\ Nowhere(c, e.work.id)
  <2>1. \A n \in Nat : /\ Waits(c, n) <=> Waits(e, n)
                       /\ OnThread(c, n) <=> OnThread(e, n)
                       /\ IsAnswered(c, n) <=> IsAnswered(e, n)
    BY <1>4 DEF Waits, OnThread, IsAnswered
  <2>2. QED
    BY <2>1, <1>1, <1>3, <1>4 DEF Numbered, Nowhere
<1>7. /\ Answered(c, e.work.id) \in Core /\ Numbered(Answered(c, e.work.id), sent)
      /\ Answered(c, e.work.id).work = Idle /\ Answered(c, e.work.id).alive = e.alive
  BY <1>1, <1>4, <1>5, <1>6, Answering
<1>8. QED
  BY <1>2, <1>7 DEF Turns

(* The temporary takes the name of the state.                              *)
LEMMA RenameInv ==
    ASSUME DeskInv, NEW w \in Windows, RenameTmp(w)
    PROVE  DeskInv'
<1>1. /\ At(w, "rename") /\ UNCHANGED <<asks, panels, log, sent>> /\ Respond(w)
      /\ files' = IF files.tmp = NoFile THEN files ELSE [files EXCEPT !.state = files.tmp, !.tmp = NoFile]
  BY DEF RenameTmp
<1>2. PICK d \in Core : Turns(w, d) /\ d.work = Idle /\ d.alive = cores[w].alive
  BY <1>1, RespondTurns
<1>3. /\ cores' \in [Windows -> Core] /\ AnswersInv' /\ cores'[w] = d
      /\ \A v \in Windows : v # w => cores'[v] = cores[v]
  BY <1>1, <1>2, TurnAnswers DEF DeskInv
<1>4. /\ files \in [state : Nat, tmp : Nat, content : Seq(Int), overlapped : BOOLEAN]
      /\ files' \in [state : Nat, tmp : Nat, content : Seq(Int), overlapped : BOOLEAN]
      /\ files'.content = files.content /\ files'.overlapped = files.overlapped /\ files'.tmp = NoFile
      /\ files.tmp # NoFile => files'.state = files.tmp
      /\ files.tmp = NoFile => files'.state = files.state
  BY <1>1 DEF DeskInv, TypeInv, NoFile
<1>5. TypeInv'
  BY <1>1, <1>3, <1>4 DEF DeskInv, TypeInv
<1>6. \A v \in Windows : /\ v # w => (Writing(v)' <=> Writing(v)) /\ (At(v, "open")' <=> At(v, "open"))
                         /\ v = w => ~Writing(v)' /\ ~At(v, "read")' /\ ~At(v, "open")'
  BY <1>2, <1>3 DEF Writing, At, Alive, Idle
<1>7. FilesInv'
  <2>1. \A v \in Windows : (At(v, "open") \/ Writing(v))' => cores'[v].work.value > 0
    BY <1>3, <1>6 DEF DeskInv, FilesInv
  <2>2. ASSUME ~files'.overlapped PROVE files'.state # NoFile => IsWhole(files.state)'
    <3>1. Saving(w) /\ Writing(w)
      BY <2>2, <1>1, <1>4 DEF DeskInv, FilesInv, Writing
    <3>2. files.tmp # NoFile /\ IsWhole(files.tmp)
      BY <3>1, <1>1 DEF Saving
    <3>3. QED
      BY <3>2, <1>4 DEF IsWhole
  <2>3. ASSUME ~files'.overlapped, NEW v \in Windows PROVE Saving(v)'
    <3>1. Saving(w) /\ Writing(w)
      BY <2>3, <1>1, <1>4 DEF DeskInv, FilesInv, Writing
    <3>2. ~Writing(v)'
      BY <3>1, <1>6 DEF Saving
    <3>3. QED
      BY <3>2 DEF Saving, Writing
  <2>4. /\ files'.state <= Len(files'.content) /\ files'.tmp <= Len(files'.content)
        /\ files'.state # NoFile => files'.state # files'.tmp
    BY <1>4 DEF DeskInv, FilesInv, NoFile
  <2>5. QED
    BY <2>1, <2>2, <2>3, <2>4 DEF FilesInv
<1>8. LogInv'
  BY <1>1, <1>3, <1>6, LogKept DEF DeskInv, At, Alive
<1>9. QED
  BY <1>3, <1>5, <1>7, <1>8 DEF DeskInv

-----------------------------------------------------------------------------
(* The log.  A line more, or a new run: who has read or measured is behind.*)
LEMMA ServerInv ==
    ASSUME DeskInv, ServerWrites \/ ServerRestarts
    PROVE  DeskInv'
<1>1. UNCHANGED <<asks, cores, panels, files, sent>>
  BY DEF ServerWrites, ServerRestarts
<1>2. /\ log \in [run : Nat, lines : Nat, steps : Nat] /\ log' \in [run : Nat, lines : Nat, steps : Nat]
      /\ \/ log'.run = log.run /\ log'.lines = log.lines + 1
         \/ log'.run = log.run + 1
  <2>1. log \in [run : Nat, lines : Nat, steps : Nat]
    BY DEF DeskInv, TypeInv
  <2>2. CASE ServerWrites
    <3>1. log' = [log EXCEPT !.lines = @ + 1, !.steps = @ + 1]
      BY <2>2 DEF ServerWrites
    <3>2. log.lines + 1 \in Nat /\ log.steps + 1 \in Nat
      BY <2>1
    <3>3. QED
      BY <2>1, <3>1, <3>2
  <2>3. CASE ServerRestarts
    BY <2>1, <2>3 DEF ServerRestarts
  <2>4. QED
    BY <2>1, <2>2, <2>3
<1>3. TypeInv' /\ AnswersInv' /\ FilesInv'
  BY <1>1, <1>2 DEF DeskInv, TypeInv, AnswersInv, FilesInv, Saving, Writing, IsWhole, At, Alive
<1>4. LogInv'
  <2>1. ASSUME NEW w \in Windows PROVE PanelInv(panels[w])'
    <3>1. PanelInv(panels[w]) /\ panels[w].at \in Int /\ panels[w].run \in Nat
      BY DEF DeskInv, LogInv, TypeInv, Panel, Position, NoPosition
    <3>2. panels' = panels
      BY <1>1
    <3>3. QED
      BY <1>2, <3>1, <3>2 DEF PanelInv
  <2>2. ASSUME NEW w \in Windows, At(w, "read")' PROVE ReadInv(panels[w], cores[w].work)'
    <3>1. /\ ReadInv(panels[w], cores[w].work)
          /\ cores[w].work.run \in Nat /\ cores[w].work.size \in Nat
      BY <1>1, <2>2 DEF DeskInv, LogInv, TypeInv, Core, Work, At, Alive
    <3>2. QED
      BY <1>1, <1>2, <3>1 DEF ReadInv
  <2>3. QED
    BY <1>2, <2>1, <2>2 DEF LogInv, DeskInv
<1>5. QED
  BY <1>3, <1>4 DEF DeskInv

(* The log is measured, from where the window is.                          *)
LEMMA MeasureInv ==
    ASSUME DeskInv, NEW w \in Windows, Measure(w)
    PROVE  DeskInv'
<1> DEFINE e == cores[w]
           p == panels[w]
           from == IF p.at = NoPosition THEN NoPosition ELSE IF log.lines < p.at THEN 0 ELSE p.at
           d == [e EXCEPT !.work = [@ EXCEPT !.step = "read", !.size = log.lines, !.run = log.run, !.from = from]]
<1>1. /\ e \in Core /\ e.work \in Work /\ sent \in Nat /\ Numbered(e, sent) /\ cores \in [Windows -> Core]
      /\ p.at \in Position /\ log.lines \in Nat /\ log.run \in Nat
  BY DEF DeskInv, TypeInv, AnswersInv, Core, Panel
<1>2. /\ At(w, "measure") /\ UNCHANGED <<asks, panels, files, log, sent>>
      /\ cores' = [cores EXCEPT ![w] = d]
  BY <1>1 DEF Measure
<1>3. from \in Position
  BY <1>1 DEF Position
<1>4. /\ d \in Core /\ d.work.step = "read" /\ d.work.size = log.lines /\ d.work.run = log.run
      /\ d.work.from = from /\ d.work.id = e.work.id
      /\ d.inbox = e.inbox /\ d.jobs = e.jobs /\ d.answers = e.answers
  <2> HIDE DEF from
  <2> DEFINE work == [e.work EXCEPT !.step = "read", !.size = log.lines, !.run = log.run, !.from = from]
  <2>1. /\ work \in Work /\ work.step = "read" /\ work.size = log.lines /\ work.run = log.run
        /\ work.from = from /\ work.id = e.work.id
    BY <1>1, <1>3 DEF Work, WorkSteps
  <2>2. d = [e EXCEPT !.work = work]
    OBVIOUS
  <2> HIDE DEF work, d
  <2>3. QED
    BY <1>1, <2>1, <2>2 DEF Core
<1> HIDE DEF d
<1>5. Numbered(d, sent)
  BY <1>1, <1>4, LessToDo
<1>6. /\ cores' \in [Windows -> Core] /\ AnswersInv' /\ cores'[w] = d
      /\ \A v \in Windows : v # w => cores'[v] = cores[v]
  BY <1>2, <1>4, <1>5, TurnAnswers DEF Turns, DeskInv
<1>7. TypeInv'
  BY <1>2, <1>6 DEF DeskInv, TypeInv
<1>8. \A v \in Windows : /\ v # w => cores'[v] = cores[v]
                         /\ v = w => ~Writing(v)' /\ ~At(v, "open")' /\ ~Writing(v)
  BY <1>2, <1>4, <1>6 DEF Writing, At, Alive
<1>9. FilesInv'
  <2>1. \A v \in Windows : v # w => /\ Writing(v)' <=> Writing(v)
                                    /\ At(v, "open")' <=> At(v, "open")
                                    /\ At(v, "write")' <=> At(v, "write")
                                    /\ At(v, "rename")' <=> At(v, "rename")
    BY <1>8 DEF Writing, At, Alive
  <2>2. \A v \in Windows : (At(v, "open") \/ Writing(v))' => cores'[v].work.value > 0
    BY <1>8, <2>1 DEF DeskInv, FilesInv
  <2>3. ~files.overlapped => \A v \in Windows : Saving(v)'
    BY <1>2, <1>8, <2>1 DEF DeskInv, FilesInv, Saving, IsWhole, Writing
  <2>4. QED
    BY <1>2, <2>2, <2>3 DEF DeskInv, FilesInv, IsWhole
<1>10. ReadInv(p, d.work)
  BY <1>1, <1>4 DEF ReadInv, DeskInv, LogInv, PanelInv
<1>11. LogInv'
  <2>1. \A v \in Windows : PanelInv(panels[v])'
    BY <1>2 DEF DeskInv, LogInv, PanelInv
  <2>2. ASSUME NEW v \in Windows, At(v, "read")' PROVE ReadInv(panels[v], cores[v].work)'
    <3>1. CASE v = w
      BY <3>1, <1>2, <1>6, <1>10 DEF ReadInv
    <3>2. CASE v # w
      BY <2>2, <3>2, <1>2, <1>8 DEF ReadInv, DeskInv, LogInv, At, Alive
    <3>3. QED
      BY <3>1, <3>2
  <2>3. QED
    BY <1>2, <2>1, <2>2 DEF DeskInv, LogInv
<1>12. QED
  BY <1>6, <1>7, <1>9, <1>11 DEF DeskInv

(* The lines of a run from one to another.                                 *)
AreLines(u, run, from, m) == /\ u \in Seq(LogLine) /\ Len(u) = m
                             /\ \A k \in 1..m : u[k] = <<run, from + k>>
LEMMA LinesAre ==
    ASSUME NEW run \in Nat, NEW from \in Nat, NEW to \in Nat
    PROVE  /\ Lines(run, from, to) \in Seq(LogLine)
           /\ from <= to => AreLines(Lines(run, from, to), run, from, to - from)
<1> DEFINE n == IF to < from THEN 0 ELSE to - from
<1>1. n \in Nat /\ (from <= to => n = to - from)
  OBVIOUS
<1> HIDE DEF n
<1>2. Lines(run, from, to) = [k \in 1..n |-> <<run, from + k>>]
  BY DEF Lines, n
<1>3. \A k \in 1..n : <<run, from + k>> \in LogLine
  BY <1>1 DEF LogLine
<1>4. Lines(run, from, to) \in [1..n -> LogLine]
  BY <1>2, <1>3
<1>5. Lines(run, from, to) \in Seq(LogLine) /\ Len(Lines(run, from, to)) = n
  BY <1>1, <1>4
<1>6. \A k \in 1..n : Lines(run, from, to)[k] = <<run, from + k>>
  BY <1>2
<1>7. AreLines(Lines(run, from, to), run, from, n)
  BY <1>5, <1>6 DEF AreLines
<1>8. QED
  BY <1>1, <1>5, <1>7

(* Lines behind lines.                                                     *)
LEMMA Behind ==
    ASSUME NEW s \in Seq(LogLine), NEW u \in Seq(LogLine)
    PROVE  /\ s \o u \in Seq(LogLine) /\ Len(s \o u) = Len(s) + Len(u)
           /\ \A i \in 1..Len(s) : (s \o u)[i] = s[i]
           /\ \A k \in 1..Len(u) : (s \o u)[Len(s) + k] = u[k]
<1>1. Len(s) \in Nat /\ Len(u) \in Nat
  OBVIOUS
<1>2. s \o u \in Seq(LogLine) /\ Len(s \o u) = Len(s) + Len(u)
  OBVIOUS
<1>3. ASSUME NEW i \in 1..Len(s) PROVE (s \o u)[i] = s[i]
  BY <1>1
<1>4. ASSUME NEW k \in 1..Len(u) PROVE (s \o u)[Len(s) + k] = u[k]
  <2>1. Len(s) + k \in 1..(Len(s) + Len(u)) /\ ~(Len(s) + k <= Len(s)) /\ Len(s) + k - Len(s) = k
    BY <1>1
  <2>2. QED
    BY <1>1, <2>1
<1>5. QED
  BY <1>2, <1>3, <1>4

(* The lines shown and those read are in order, when the run is the same   *)
(* and they begin where those ended, or when the run is newer.             *)
GoesOn(s, t, old, more, m, base, from, was, run) ==
    /\ \A i \in 1..(old + more) : t[i] = s[i]
    /\ \A k \in 1..m : t[old + more + k] = <<run, from + k>>
    /\ \A i \in 1..old : s[i][1] \in Nat /\ s[i][1] < was
    /\ \A k \in 1..more : s[old + k] = <<was, base + k>>
    /\ \A i, j \in 1..(old + more) : i < j => Before(s[i], s[j])
    /\ was < run \/ (was = run /\ from = base + more)
LEMMA OrderGoesOn ==
    ASSUME NEW s, NEW t, NEW old \in Nat, NEW more \in Nat, NEW m \in Nat,
           NEW base \in Nat, NEW from \in Nat, NEW was \in Nat, NEW run \in Nat,
           GoesOn(s, t, old, more, m, base, from, was, run)
    PROVE  /\ \A i, j \in 1..(old + more + m) : i < j => Before(t[i], t[j])
           /\ was < run => \A i \in 1..(old + more) : t[i][1] < run
<1> USE DEF GoesOn
<1>1. ASSUME NEW i \in 1..(old + more), NEW k \in 1..m
      PROVE  Before(t[i], t[old + more + k]) /\ (was < run => t[i][1] < run)
  <2>1. t[old + more + k][1] = run /\ t[old + more + k][2] = from + k
    OBVIOUS
  <2>2. CASE i \in 1..old
    <3>1. t[i][1] \in Nat /\ t[i][1] < was
      BY <2>2
    <3>2. t[i][1] < run
      BY <3>1
    <3>3. QED
      BY <2>1, <3>2 DEF Before
  <2>3. CASE i \notin 1..old
    <3>1. PICK h \in 1..more : i = old + h
      <4>1. i - old \in 1..more /\ i = old + (i - old)
        BY <2>3
      <4>2. QED
        BY <4>1
    <3>2. t[i] = <<was, base + h>>
      BY <3>1
    <3>3. t[i][1] = was /\ t[i][2] = base + h
      BY <3>2
    <3>4. was < run \/ (was = run /\ base + h < from + k)
      OBVIOUS
    <3>5. QED
      BY <2>1, <3>3, <3>4 DEF Before
  <2>4. QED
    BY <2>2, <2>3
<1>2. ASSUME NEW i \in 1..(old + more), was < run PROVE t[i][1] < run
  <2>1. CASE i \in 1..old
    <3>1. t[i][1] \in Nat /\ t[i][1] < was
      BY <2>1
    <3>2. QED
      BY <3>1, <1>2
  <2>2. CASE i \notin 1..old
    <3>1. PICK h \in 1..more : i = old + h
      <4>1. i - old \in 1..more /\ i = old + (i - old)
        BY <2>2
      <4>2. QED
        BY <4>1
    <3>2. t[i] = <<was, base + h>>
      BY <3>1
    <3>3. QED
      BY <3>2, <1>2
  <2>3. QED
    BY <2>1, <2>2
<1>3. ASSUME NEW i \in 1..(old + more + m), NEW j \in 1..(old + more + m), i < j
      PROVE  Before(t[i], t[j])
  <2>1. CASE j \in 1..(old + more)
    <3>1. i \in 1..(old + more)
      BY <1>3, <2>1
    <3>2. Before(s[i], s[j]) /\ t[i] = s[i] /\ t[j] = s[j]
      BY <1>3, <2>1, <3>1
    <3>3. QED
      BY <3>2
  <2>2. CASE j \notin 1..(old + more)
    <3>1. PICK k \in 1..m : j = old + more + k
      <4>1. j - (old + more) \in 1..m /\ j = old + more + (j - (old + more))
        BY <2>2
      <4>2. QED
        BY <4>1
    <3>2. CASE i \in 1..(old + more)
      BY <3>1, <3>2, <1>1
    <3>3. CASE i \notin 1..(old + more)
      <4>1. PICK h \in 1..m : i = old + more + h
        <5>1. i - (old + more) \in 1..m /\ i = old + more + (i - (old + more))
          BY <3>3
        <5>2. QED
          BY <5>1
      <4>2. t[i] = <<run, from + h>> /\ t[j] = <<run, from + k>>
        BY <3>1, <4>1
      <4>3. h < k
        BY <1>3, <3>1, <4>1
      <4>4. t[i][1] = run /\ t[i][2] = from + h /\ t[j][1] = run /\ t[j][2] = from + k
        BY <4>2
      <4>5. from + h < from + k
        BY <4>3
      <4>6. QED
        BY <4>4, <4>5 DEF Before
    <3>4. QED
      BY <3>2, <3>3
  <2>3. QED
    BY <2>1, <2>2
<1>4. QED
  BY <1>2, <1>3

(* A window that read on from where it was follows the log.                *)
LEMMA ReadingOn ==
    ASSUME NEW p \in Panel, NEW q \in Panel, NEW run \in Nat, NEW size \in Nat, NEW from \in Nat,
           Follows(p), p.at # NoPosition, p.since[1] <= p.run, p.run <= run,
           p.since[1] = p.run => p.since[2] <= p.at,
           p.run = run => from = p.at /\ p.at <= size,
           p.run # run => from = 0,
           q.at = size, q.run = run, q.since = p.since,
           q.shown = p.shown \o Lines(run, from, size)
    PROVE  Follows(q)
<1>1. /\ p.shown \in Seq(LogLine) /\ p.at \in Nat /\ p.run \in Nat
      /\ p.since[1] \in Nat /\ p.since[2] \in Nat /\ from <= size
  BY DEF Panel, Position
<1>2. PICK old \in 0..Len(p.shown) : EndsWith(p, old)
  BY DEF Follows
<1> DEFINE base == Base(p)
           more == p.at - base
           new == Lines(run, from, size)
           m == size - from
<1>3. base \in Nat /\ base <= p.at
  BY <1>1 DEF Base
<1>4. old \in Nat /\ more \in Nat /\ m \in Nat /\ Len(p.shown) = old + more
  BY <1>1, <1>2, <1>3 DEF EndsWith
<1>5. /\ new \in Seq(LogLine) /\ Len(new) = m
      /\ \A k \in 1..m : new[k] = <<run, from + k>>
  <2>1. AreLines(Lines(run, from, size), run, from, size - from)
    BY <1>1, LinesAre, Zenon
  <2>2. QED
    BY <2>1, Zenon DEF AreLines
<1>6. /\ Len(q.shown) = old + more + m /\ q.shown \in Seq(LogLine)
      /\ \A i \in 1..(old + more) : q.shown[i] = p.shown[i]
      /\ \A k \in 1..m : q.shown[old + more + k] = <<run, from + k>>
  <2> HIDE DEF new, m, more
  <2>1. q.shown = p.shown \o new
    BY DEF new
  <2>2. /\ p.shown \o new \in Seq(LogLine) /\ Len(p.shown \o new) = Len(p.shown) + Len(new)
        /\ \A i \in 1..Len(p.shown) : (p.shown \o new)[i] = p.shown[i]
        /\ \A k \in 1..Len(new) : (p.shown \o new)[Len(p.shown) + k] = new[k]
    BY <1>1, <1>5, Behind, Zenon
  <2>3. /\ q.shown \in Seq(LogLine) /\ Len(q.shown) = old + more + m
        /\ \A i \in 1..(old + more) : q.shown[i] = p.shown[i]
        /\ \A k \in 1..m : q.shown[old + more + k] = new[k]
    BY <1>4, <1>5, <2>1, <2>2, Zenon
  <2>4. QED
    BY <1>5, <2>3, Zenon
<1>7. \A k \in 1..more : p.shown[old + k] = <<p.run, base + k>>
  BY <1>2 DEF EndsWith
<1>8. \A i \in 1..old : p.shown[i][1] \in Nat /\ p.shown[i][1] < p.run
  <2>1. \A i \in 1..old : p.shown[i] \in LogLine
    BY <1>1, <1>2
  <2>2. QED
    BY <1>2, <2>1 DEF EndsWith, LogLine
<1>9. \A i, j \in 1..(old + more) : i < j => Before(p.shown[i], p.shown[j])
  <2>1. DOMAIN p.shown = 1..(old + more)
    BY <1>1, <1>4
  <2>2. QED
    BY <2>1 DEF Follows
<1>10. p.run < run \/ (p.run = run /\ from = base + more)
  BY <1>1, <1>3
<1>11. DOMAIN q.shown = 1..(old + more + m) /\ q.at # NoPosition
  BY <1>6 DEF NoPosition
<1> HIDE DEF base, more, new, m
<1>12. /\ \A i, j \in 1..(old + more + m) : i < j => Before(q.shown[i], q.shown[j])
       /\ p.run < run => \A i \in 1..(old + more) : q.shown[i][1] < run
  <2>1. GoesOn(p.shown, q.shown, old, more, m, base, from, p.run, run)
    BY <1>6, <1>7, <1>8, <1>9, <1>10, Zenon DEF GoesOn
  <2>2. QED
    BY <1>1, <1>3, <1>4, <2>1, OrderGoesOn, Zenon
<1>13. \E o \in 0..Len(q.shown) : EndsWith(q, o)
  <2>1. CASE p.run = run
    <3>1. Base(q) = base /\ q.at - base = more + m /\ q.run = run
      <4>1. Base(q) = base
        BY <2>1 DEF Base, base
      <4>2. q.at - base = more + m
        BY <2>1, <1>1, <1>3 DEF more, m
      <4>3. QED
        BY <4>1, <4>2
    <3>2. \A i \in 1..old : q.shown[i][1] < run
      <4>1. \A i \in 1..old : i \in 1..(old + more)
        BY <1>4
      <4>2. QED
        BY <2>1, <4>1, <1>6, <1>8, Zenon
    <3>3. ASSUME NEW k \in 1..(more + m) PROVE q.shown[old + k] = <<run, base + k>>
      <4>1. CASE k \in 1..more
        <5>1. old + k \in 1..(old + more)
          BY <4>1, <1>4
        <5>2. QED
          BY <2>1, <4>1, <5>1, <1>6, <1>7
      <4>2. CASE k \notin 1..more
        <5>1. k - more \in 1..m /\ old + k = old + more + (k - more) /\ from + (k - more) = base + k
          BY <2>1, <4>2, <1>3, <1>4, <1>10
        <5>2. QED
          BY <5>1, <1>6
      <4>3. QED
        BY <4>1, <4>2
    <3>4. old \in 0..Len(q.shown) /\ Len(q.shown) = old + (more + m)
      BY <1>4, <1>6
    <3>5. EndsWith(q, old)
      BY <3>1, <3>2, <3>3, <3>4 DEF EndsWith
    <3>6. QED
      BY <3>4, <3>5
  <2>2. CASE p.run # run
    <3>1. Base(q) = 0 /\ from = 0 /\ q.at - 0 = m /\ q.run = run
      BY <2>2, <1>1 DEF Base, m
    <3>2. \A i \in 1..(old + more) : q.shown[i][1] < run
      BY <2>2, <1>10, <1>12
    <3>3. \A k \in 1..m : q.shown[old + more + k] = <<run, 0 + k>>
      BY <3>1, <1>6
    <3>4. old + more \in 0..Len(q.shown) /\ Len(q.shown) = old + more + m
      BY <1>4, <1>6
    <3>5. EndsWith(q, old + more)
      BY <3>1, <3>2, <3>3, <3>4 DEF EndsWith
    <3>6. QED
      BY <3>4, <3>5
  <2>3. QED
    BY <2>1, <2>2
<1>14. QED
  BY <1>11, <1>12, <1>13 DEF Follows

(* A read leaves the window at the measure; unless a run began meanwhile,  *)
(* with all the lines up to there.                                         *)
LEMMA ReadInvStep ==
    ASSUME DeskInv, NEW w \in Windows, ReadLog(w)
    PROVE  DeskInv'
<1> DEFINE e == cores[w]
           work == e.work
           p == panels[w]
           end == EndOf(work.size)
           q == panels'[w]
<1>1. /\ At(w, "read") /\ UNCHANGED <<asks, files, log, sent>> /\ Respond(w)
      /\ panels' = [panels EXCEPT ![w] =
              IF work.from = NoPosition
              THEN [p EXCEPT !.at = work.size, !.run = work.run, !.since = <<work.run, work.size>>]
              ELSE [p EXCEPT !.at = work.size, !.run = work.run,
                       !.shown = p.shown \o Lines(log.run, work.from, EndOf(work.size)),
                       !.slipped = \/ p.slipped \/ work.run # log.run
                                   \/ p.at > 0 /\ work.run # p.run /\ work.size >= p.at]]
  BY DEF ReadLog
<1>2. PICK d \in Core : Turns(w, d) /\ d.work = Idle /\ d.alive = cores[w].alive
  BY <1>1, RespondTurns
<1>3. /\ cores' \in [Windows -> Core] /\ AnswersInv' /\ cores'[w] = d
      /\ \A v \in Windows : v # w => cores'[v] = cores[v]
  BY <1>1, <1>2, TurnAnswers DEF DeskInv
<1>4. /\ panels \in [Windows -> Panel] /\ p \in Panel
      /\ log.run \in Nat /\ log.lines \in Nat /\ log.run > 0
      /\ work.size \in Nat /\ work.run \in Nat /\ work.from \in Position
  BY DEF DeskInv, TypeInv, LogInv, Core, Work
<1>5. /\ p.at \in Position /\ p.run \in Nat /\ p.shown \in Seq(LogLine) /\ p.since \in Nat \X Nat
      /\ p.slipped \in BOOLEAN /\ PanelInv(p) /\ ReadInv(p, work)
  BY <1>1, <1>4 DEF Panel, DeskInv, LogInv
<1> DEFINE new == Lines(log.run, work.from, end)
           slip == \/ p.slipped \/ work.run # log.run
                   \/ p.at > 0 /\ work.run # p.run /\ work.size >= p.at
<1>6. /\ work.from = NoPosition =>
            q = [p EXCEPT !.at = work.size, !.run = work.run, !.since = <<work.run, work.size>>]
      /\ work.from # NoPosition =>
            q = [p EXCEPT !.at = work.size, !.run = work.run, !.shown = p.shown \o new, !.slipped = slip]
      /\ \A v \in Windows : v # w => panels'[v] = panels[v]
      /\ q \in Panel => panels' \in [Windows -> Panel]
  <2> DEFINE x == IF work.from = NoPosition
                  THEN [p EXCEPT !.at = work.size, !.run = work.run, !.since = <<work.run, work.size>>]
                  ELSE [p EXCEPT !.at = work.size, !.run = work.run, !.shown = p.shown \o new, !.slipped = slip]
  <2>1. panels' = [panels EXCEPT ![w] = x]
    BY <1>1
  <2> HIDE DEF x
  <2>2. /\ q = x /\ \A v \in Windows : v # w => panels'[v] = panels[v]
        /\ x \in Panel => panels' \in [Windows -> Panel]
    BY <1>4, <2>1
  <2>3. QED
    BY <2>2 DEF x
<1>7. work.from # NoPosition => work.from \in Nat /\ end \in Nat
  BY <1>4 DEF Position, EndOf
<1>8. work.from # NoPosition => p.shown \o new \in Seq(LogLine)
  <2>1. work.from # NoPosition => new \in Seq(LogLine)
    BY <1>4, <1>7, LinesAre
  <2> HIDE DEF new
  <2>2. QED
    BY <1>5, <2>1
<1> HIDE DEF new, slip
<1>9. slip \in BOOLEAN
  BY <1>5 DEF slip
<1>10. /\ q \in Panel /\ q.at = work.size /\ q.run = work.run
       /\ work.from = NoPosition => /\ q.shown = p.shown /\ q.slipped = p.slipped
                                    /\ q.since = <<work.run, work.size>>
       /\ work.from # NoPosition => /\ q.shown = p.shown \o new /\ q.slipped = slip
                                    /\ q.since = p.since
  <2>1. work.size \in Position /\ <<work.run, work.size>> \in Nat \X Nat
    BY <1>4 DEF Position
  <2>2. CASE work.from = NoPosition
    <3>1. q = [p EXCEPT !.at = work.size, !.run = work.run, !.since = <<work.run, work.size>>]
      BY <1>6, <2>2
    <3> HIDE DEF q
    <3>2. QED
      BY <1>4, <2>1, <2>2, <3>1 DEF Panel
  <2>3. CASE work.from # NoPosition
    <3>1. q = [p EXCEPT !.at = work.size, !.run = work.run, !.shown = p.shown \o new, !.slipped = slip]
      BY <1>6, <2>3
    <3> HIDE DEF q
    <3>2. QED
      BY <1>4, <1>8, <1>9, <2>1, <2>3, <3>1 DEF Panel
  <2>4. QED
    BY <2>2, <2>3
<1>11. TypeInv'
  BY <1>1, <1>3, <1>6, <1>10 DEF DeskInv, TypeInv
<1>12. \A v \in Windows : /\ v # w => /\ Writing(v)' <=> Writing(v)
                                      /\ At(v, "open")' <=> At(v, "open")
                                      /\ At(v, "write")' <=> At(v, "write")
                                      /\ At(v, "rename")' <=> At(v, "rename")
                                      /\ At(v, "read")' <=> At(v, "read")
                          /\ v = w => /\ ~Writing(v)' /\ ~At(v, "open")' /\ ~At(v, "read")' /\ ~Writing(v)
                                      /\ ~At(v, "write")' /\ ~At(v, "rename")'
  BY <1>1, <1>2, <1>3 DEF Writing, At, Alive, Idle
<1>13. FilesInv'
  <2>1. \A v \in Windows : (At(v, "open") \/ Writing(v))' => cores'[v].work.value > 0
    BY <1>3, <1>12 DEF DeskInv, FilesInv
  <2>2. ~files.overlapped => \A v \in Windows : Saving(v)'
    BY <1>1, <1>3, <1>12 DEF DeskInv, FilesInv, Saving, IsWhole
  <2>3. QED
    BY <1>1, <2>1, <2>2 DEF DeskInv, FilesInv, IsWhole
<1>14. ~q.slipped => Follows(q)
  <2>1. CASE work.from = NoPosition
    <3>1. p.at = NoPosition
      BY <2>1, <1>5 DEF ReadInv, NoPosition, Position
    <3>2. ~q.slipped => q.shown = <<>>
      BY <2>1, <3>1, <1>5, <1>10 DEF PanelInv, Follows
    <3>3. q.at # NoPosition /\ q.at = work.size /\ Base(q) = work.size
      BY <2>1, <1>4, <1>10 DEF NoPosition, Base
    <3> HIDE DEF q
    <3>4. ASSUME ~q.slipped PROVE EndsWith(q, 0) /\ 0 \in 0..Len(q.shown)
      BY <3>2, <3>3, <3>4, <1>4 DEF EndsWith
    <3>5. QED
      BY <3>2, <3>3, <3>4 DEF Follows
  <2>2. CASE work.from # NoPosition
    <3> SUFFICES ASSUME ~q.slipped PROVE Follows(q)
      OBVIOUS
    <3>1. ~p.slipped /\ work.run = log.run /\ ~(p.at > 0 /\ work.run # p.run /\ work.size >= p.at)
      BY <2>2, <1>10 DEF slip
    <3>2. p.at # NoPosition /\ p.at \in Nat /\ work.from = (IF work.size < p.at THEN 0 ELSE p.at)
      BY <2>2, <1>5 DEF ReadInv, Position
    <3>3. work.size <= log.lines /\ p.run <= work.run /\ (p.run = work.run => p.at <= work.size)
      BY <3>1, <1>5 DEF ReadInv
    <3>4. end = work.size
      BY <3>3, <1>4 DEF EndOf
    <3>5. /\ p.run = work.run => work.from = p.at
          /\ p.run # work.run => work.from = 0
      BY <3>1, <3>2, <3>3, <1>4
    <3>6. new = Lines(work.run, work.from, work.size)
      BY <3>1, <3>4 DEF new
    <3>7. Follows(p) /\ p.since[1] <= p.run /\ (p.since[1] = p.run => p.since[2] <= p.at)
      BY <3>1, <3>2, <1>5 DEF PanelInv
    <3>8. q.shown = p.shown \o Lines(work.run, work.from, work.size)
      BY <2>2, <3>6, <1>10
    <3>9. work.from \in Nat
      BY <2>2, <1>7
    <3> HIDE DEF q, p, work
    <3>10. QED
      BY <2>2, <3>2, <3>3, <3>5, <3>7, <3>8, <3>9, <1>4, <1>10, ReadingOn
  <2>3. QED
    BY <2>1, <2>2
<1>15. PanelInv(q)
  <2>1. q.run <= log.run /\ (q.run = log.run => q.at <= log.lines)
    BY <1>5, <1>10 DEF ReadInv
  <2>2. q.at # NoPosition
    BY <1>4, <1>10 DEF NoPosition
  <2>3. CASE work.from = NoPosition
    BY <2>1, <2>2, <2>3, <1>4, <1>10, <1>14 DEF PanelInv
  <2>4. CASE work.from # NoPosition
    <3>1. /\ p.at # NoPosition /\ p.since[1] <= p.run /\ p.since[1] \in Nat /\ p.since[2] \in Nat
          /\ p.since[1] = p.run => p.since[2] <= p.at
          /\ p.run <= work.run /\ (p.run = work.run => p.at <= work.size)
          /\ p.at \in Nat
      BY <2>4, <1>5 DEF PanelInv, ReadInv, Position
    <3>2. q.since[1] <= q.run /\ (q.since[1] = q.run => q.since[2] <= q.at)
      <4>1. q.since = p.since /\ q.at = work.size /\ q.run = work.run
        BY <2>4, <1>10
      <4>2. p.since[1] <= work.run
        BY <3>1, <1>4, <1>5
      <4>3. p.since[1] = work.run => p.run = work.run /\ p.since[2] <= work.size
        BY <3>1, <1>4, <1>5
      <4>4. QED
        BY <4>1, <4>2, <4>3
    <3>3. QED
      BY <2>1, <2>2, <3>2, <1>14 DEF PanelInv
  <2>5. QED
    BY <2>3, <2>4
<1>16. LogInv'
  <2>1. log' = log
    BY <1>1
  <2>2. ASSUME NEW v \in Windows PROVE PanelInv(panels[v])'
    BY <1>6, <1>15, <2>1 DEF DeskInv, LogInv, PanelInv
  <2>3. ASSUME NEW v \in Windows, At(v, "read")' PROVE ReadInv(panels[v], cores[v].work)'
    BY <2>1, <2>3, <1>3, <1>6, <1>12 DEF DeskInv, LogInv, ReadInv
  <2>4. QED
    BY <2>1, <2>2, <2>3 DEF DeskInv, LogInv
<1>17. QED
  BY <1>3, <1>11, <1>13, <1>16 DEF DeskInv

-----------------------------------------------------------------------------
(* At first no window has asked, saved or seen anything.                   *)
LEMMA DeskInitInv == ASSUME DeskInit PROVE DeskInv
<1>1. TypeInv
  <2>1. Idle \in Work
    BY DEF Idle, Work, WorkSteps, NoId, NoFile, Position
  <2>2. [inbox |-> <<>>, asked |-> {}, work |-> Idle, jobs |-> {}, answers |-> <<>>, open |-> TRUE, alive |-> TRUE] \in Core
    BY <2>1 DEF Core
  <2>3. [at |-> NoPosition, run |-> 0, shown |-> <<>>, since |-> <<0, 0>>, slipped |-> FALSE] \in Panel
    BY DEF Panel, Position
  <2>4. asks \in [Windows -> SUBSET Methods]
    BY AsksAssumption DEF DeskInit
  <2>5. QED
    BY <2>2, <2>3, <2>4 DEF DeskInit, TypeInv, NoFile
<1>2. AnswersInv
  <2>1. ASSUME NEW w \in Windows PROVE Numbered(cores[w], sent)
    <3>1. /\ cores[w].inbox = <<>> /\ cores[w].jobs = {} /\ cores[w].answers = <<>> /\ cores[w].work.id = 0 /\ sent = 0
      BY DEF DeskInit, Idle, NoId
    <3>2. QED
      BY <3>1 DEF Numbered, Waits, OnThread, IsAnswered, NoId
  <2>2. QED
    BY <2>1 DEF AnswersInv
<1>3. \A w \in Windows : cores[w].work.step = "idle" /\ panels[w].at = NoPosition /\ panels[w].run = 0
                         /\ panels[w].since = <<0, 0>> /\ panels[w].shown = <<>>
  BY DEF DeskInit, Idle
<1>4. FilesInv
  BY <1>3 DEF FilesInv, Saving, Writing, At, DeskInit, NoFile
<1>5. LogInv
  <2>1. log.run = 1
    BY DEF DeskInit
  <2>2. ASSUME NEW w \in Windows PROVE PanelInv(panels[w])
    BY <1>3, <2>1 DEF PanelInv, Follows
  <2>3. QED
    BY <1>3, <2>1, <2>2 DEF LogInv, At
<1>6. QED
  BY <1>1, <1>2, <1>4, <1>5 DEF DeskInv

(* Every step keeps the invariant.                                         *)
LEMMA DeskNextInv == ASSUME DeskInv, [DeskNext]_deskVars PROVE DeskInv'
<1>1. CASE UNCHANGED deskVars
  <2>1. UNCHANGED <<asks, cores, panels, files, log, sent>>
    BY <1>1 DEF deskVars
  <2>2. TypeInv' /\ AnswersInv'
    BY <2>1 DEF DeskInv, TypeInv, AnswersInv
  <2>3. FilesInv'
    BY <2>1 DEF DeskInv, FilesInv, Saving, Writing, IsWhole, At, Alive
  <2>4. LogInv'
    BY <2>1 DEF DeskInv, LogInv, PanelInv, ReadInv, At, Alive
  <2>5. QED
    BY <2>2, <2>3, <2>4 DEF DeskInv
<1>2. CASE ServerWrites \/ ServerRestarts
  BY <1>2, ServerInv
<1>3. ASSUME NEW w \in Windows, Send(w) \/ Close(w) \/ Crash(w) \/ Loop(w) \/ CompileDone(w)
      PROVE  DeskInv'
  BY <1>3, OutsideInv, ServeInv, ThreadsInv, OpenInv, WriteInv, RenameInv, MeasureInv, ReadInvStep DEF Loop
<1>4. QED
  BY <1>1, <1>2, <1>3 DEF DeskNext

(* What the cores of the windows keep to: of their requests, of the files  *)
(* and of the log, at every step.                                          *)
THEOREM DeskInvCorrect == DeskSpec => []DeskInv
<1>1. DeskInit => DeskInv
  BY DeskInitInv
<1>2. DeskInv /\ [DeskNext]_deskVars => DeskInv'
  BY DeskNextInv
<1>3. QED
  BY <1>1, <1>2, PTL DEF DeskSpec

(* The state of the project is whole, the log is followed and no request   *)
(* is answered twice, for any number of windows.                           *)
THEOREM DeskCorrect == DeskSpec => []CoreKeepsItsWord
<1>1. DeskInv => StateFileIsWhole
  BY DEF DeskInv, FilesInv, IsWhole, StateFileIsWhole
<1>2. DeskInv => LogIsFollowed
  BY DEF DeskInv, LogInv, PanelInv, Follows, EndsWith, Base, LogIsFollowed
<1>3. DeskInv => NoAnswerTwice
  <2> SUFFICES ASSUME DeskInv, NEW w \in Windows
               PROVE  IsInjective(cores[w].answers) /\ ToSet(cores[w].answers) \subseteq 1..sent
    BY DEF NoAnswerTwice
  <2>1. Numbered(cores[w], sent) /\ cores[w].answers \in Seq(Nat)
    BY DEF DeskInv, AnswersInv, TypeInv, Core
  <2>2. \A i \in DOMAIN cores[w].answers : cores[w].answers[i] \in Nat /\ IsAnswered(cores[w], cores[w].answers[i])
    BY <2>1 DEF IsAnswered
  <2>3. IsInjective(cores[w].answers)
    BY <2>1 DEF Numbered, IsInjective
  <2>4. ToSet(cores[w].answers) \subseteq 1..sent
    BY <2>1, <2>2 DEF Numbered, ToSet
  <2>5. QED
    BY <2>3, <2>4
<1>4. DeskInv => CoreKeepsItsWord
  BY <1>1, <1>2, <1>3 DEF CoreKeepsItsWord
<1>5. QED
  BY <1>4, DeskInvCorrect, PTL
=============================================================================
