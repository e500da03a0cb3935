------------------------ MODULE FileExplorer_proofs ------------------------
(***************************************************************************)
(* Proofs about the shared storage of FileExplorer, for any guests and any *)
(* number of operations and uploads: types, that no file is destroyed by a *)
(* move, a rename or a new file, and that the panels agree when nothing is *)
(* under way.                                                              *)
(***************************************************************************)
EXTENDS FileExplorer, SequenceTheorems, TLAPS

-----------------------------------------------------------------------------
(* Paths *)

Tops == {<<n>> : n \in Names}
Subs == {<<n, FileName>> : n \in Names}

LEMMA Levels == Paths = Tops \cup Subs /\ FileName \in Names /\ FolderName \in Names
  BY DEF Paths, Tops, Subs, Names

LEMMA OneBelow ==
  ASSUME NEW n \in Names
  PROVE  Append(<<n>>, FileName) = <<n, FileName>>
<1>1. /\ <<n>> \in Seq(Names) /\ <<n, FileName>> \in Seq(Names) /\ Len(<<n>>) = 1
      /\ <<n>>[1] = n /\ Len(<<n, FileName>>) = 2
      /\ <<n, FileName>>[1] = n /\ <<n, FileName>>[2] = FileName
  BY Levels
<1>2. PICK s : s = <<n>>
  OBVIOUS
<1>3. /\ Append(s, FileName) \in Seq(Names) /\ Len(Append(s, FileName)) = 2
      /\ Append(s, FileName)[1] = n /\ Append(s, FileName)[2] = FileName
  BY <1>1, <1>2, Levels, AppendProperties
<1>4. PICK t \in Seq(Names) : t = Append(s, FileName)
  BY <1>3
<1>5. PICK u \in Seq(Names) : u = <<n, FileName>>
  BY <1>1
<1>6. Len(t) = 2 /\ Len(u) = 2 /\ t[1] = u[1] /\ t[2] = u[2]
  BY <1>1, <1>3, <1>4, <1>5
<1>7. \A i \in 1..Len(t) : t[i] = u[i]
  BY <1>6
<1>8. t = u
  BY <1>6, <1>7, SeqEqual
<1>9. QED
  BY <1>2, <1>4, <1>5, <1>8

LEMMA TopPath ==
  ASSUME NEW p \in Tops
  PROVE  /\ p \in Seq(Names) /\ p \in Paths /\ p # <<>> /\ p \notin Subs
         /\ Len(p) = 1 /\ Parent(p) = <<>>
         /\ Append(p, FileName) \in Subs /\ Parent(Append(p, FileName)) = p
<1>1. PICK n \in Names : p = <<n>>
  BY DEF Tops
<1>2. p \in Seq(Names) /\ Len(p) = 1 /\ p[1] = n /\ p # <<>>
  BY <1>1
<1>3. Parent(p) = <<>>
  <2>1. SubSeq(p, 1, 0) = <<>>
    BY SubSeqEmpty
  <2>2. QED
    BY <1>2, <2>1 DEF Parent, Front
<1>4. Append(p, FileName) = <<n, FileName>>
  BY <1>1, OneBelow
<1>5. \A m \in Names : <<m, FileName>> # p
  BY <1>1
<1>6. Parent(Append(p, FileName)) = p
  <2> DEFINE q == <<n, FileName>>
  <2>1. Len(q) = 2 /\ q[1] = n
    OBVIOUS
  <2>2. SubSeq(q, 1, 1) \in Seq(Names) /\ Len(SubSeq(q, 1, 1)) = 1 /\ SubSeq(q, 1, 1)[1] = n
    <3>1. \A i \in 1..1 : q[i] \in Names
      BY <2>1
    <3>2. QED
      BY <2>1, <3>1, SubSeqProperties
  <2>3. SubSeq(q, 1, 1) = p
    <3>1. PICK s \in Seq(Names) : s = SubSeq(q, 1, 1)
      BY <2>2
    <3>2. Len(s) = Len(p) /\ \A i \in 1..Len(s) : s[i] = p[i]
      BY <1>2, <2>2, <3>1
    <3>3. QED
      BY <1>2, <3>1, <3>2, SeqEqual
  <2>4. QED
    BY <1>4, <2>1, <2>3 DEF Parent, Front
<1>7. QED
  BY <1>1, <1>2, <1>3, <1>4, <1>5, <1>6, Levels DEF Subs

LEMMA SubPath ==
  ASSUME NEW p \in Subs
  PROVE  /\ p \in Seq(Names) /\ p \in Paths /\ p # <<>> /\ p \notin Tops
         /\ Len(p) = 2 /\ Parent(p) \in Tops /\ p = Append(Parent(p), FileName)
<1>1. PICK n \in Names : p = <<n, FileName>>
  BY DEF Subs
<1>2. p \in Seq(Names) /\ Len(p) = 2 /\ p # <<>>
  BY <1>1, Levels
<1>3. <<n>> \in Tops /\ Append(<<n>>, FileName) = p
  BY <1>1, OneBelow DEF Tops
<1>4. Parent(p) = <<n>>
  BY <1>3, TopPath
<1>5. QED
  BY <1>2, <1>3, <1>4, TopPath, Levels

\* A path begins with another when it is that or in it.
LEMMA PrefixOf ==
  ASSUME NEW p \in Paths, NEW r \in Paths
  PROVE  IsPrefix(p, r) <=> r = p \/ (p \in Tops /\ r \in Subs /\ Parent(r) = p)
<1>1. /\ p \in Seq(Names) /\ r \in Seq(Names) /\ Len(p) \in 1..2 /\ Len(r) \in 1..2
      /\ p \in Tops <=> Len(p) = 1
      /\ r \in Subs <=> Len(r) = 2
  BY TopPath, SubPath, Levels
<1>2. CASE Len(p) = Len(r)
  <2>1. SubSeq(p, 1, Len(p)) = p /\ SubSeq(r, 1, Len(p)) = r
    BY <1>1, <1>2
  <2>2. IsPrefix(p, r) <=> p = r
    BY <1>1, <1>2, <2>1 DEF IsPrefix
  <2>3. QED
    BY <1>1, <1>2, <2>2
<1>3. CASE Len(p) = 1 /\ Len(r) = 2
  <2>1. SubSeq(p, 1, 1) = p
    BY <1>1, <1>3
  <2>2. SubSeq(r, 1, 1) = Parent(r)
    BY <1>3 DEF Parent, Front
  <2>3. IsPrefix(p, r) <=> p = Parent(r)
    BY <1>3, <2>1, <2>2 DEF IsPrefix
  <2>4. p \in Tops /\ r \in Subs /\ r # p
    BY <1>1, <1>3
  <2>5. QED
    BY <2>3, <2>4
<1>4. CASE Len(p) = 2 /\ Len(r) = 1
  BY <1>1, <1>4 DEF IsPrefix
<1>5. QED
  BY <1>1, <1>2, <1>3, <1>4
-----------------------------------------------------------------------------
(* What handlers have yet to do *)

LEMMA Tails ==
  ASSUME NEW x, NEW y, NEW z
  PROVE  /\ <<x>> # <<>> /\ Head(<<x>>) = x /\ Tail(<<x>>) = <<>>
         /\ <<x, y>> # <<>> /\ Head(<<x, y>>) = x /\ Tail(<<x, y>>) = <<y>>
         /\ <<x, y, z>> # <<>> /\ Head(<<x, y, z>>) = x /\ Tail(<<x, y, z>>) = <<y, z>>
  OBVIOUS

LEMMA FirstOfConcat ==
  ASSUME NEW S, NEW p \in Seq(S), NEW q \in Seq(S), p # <<>>
  PROVE  p \o q # <<>> /\ Head(p \o q) = Head(p) /\ Tail(p \o q) = Tail(p) \o q
<1>1. /\ Len(p) \in Nat \ {0} /\ Len(q) \in Nat /\ p \o q \in Seq(S)
      /\ Len(p \o q) = Len(p) + Len(q) /\ Head(p) = p[1] /\ (p \o q)[1] = p[1]
  BY LenProperties, ConcatProperties, HeadTailProperties, EmptySeq
<1>2. p \o q # <<>> /\ Head(p \o q) = Head(p)
  BY <1>1, HeadTailProperties, EmptySeq
<1>3. Tail(p) \in Seq(S) /\ Len(Tail(p)) = Len(p) - 1
      /\ \A i \in 1..(Len(p) - 1) : Tail(p)[i] = p[i + 1]
  BY HeadTailProperties
<1>4. PICK t \in Seq(S) : t = Tail(p)
  BY <1>3
<1>5. Tail(p \o q) \in Seq(S) /\ t \o q \in Seq(S)
      /\ Len(Tail(p \o q)) = Len(p) + Len(q) - 1 /\ Len(t \o q) = Len(p) + Len(q) - 1
  BY <1>1, <1>2, <1>3, <1>4, HeadTailProperties, ConcatProperties
<1>6. \A i \in 1..(Len(p) + Len(q) - 1) : Tail(p \o q)[i] = (t \o q)[i]
  BY <1>1, <1>2, <1>3, <1>4
<1>7. Tail(p \o q) = t \o q
  BY <1>5, <1>6, SeqEqual
<1>8. QED
  BY <1>2, <1>4, <1>7

LEMMA ConcatOne ==
  ASSUME NEW v, NEW x, NEW y, NEW z
  PROVE  /\ <<v>> \o <<x, y, z>> # <<>> /\ Head(<<v>> \o <<x, y, z>>) = v
         /\ Tail(<<v>> \o <<x, y, z>>) = <<x, y, z>>
<1> DEFINE S == {v, x, y, z}
<1>1. <<v>> \in Seq(S) /\ <<x, y, z>> \in Seq(S)
  OBVIOUS
<1>2. <<v>> # <<>> /\ Head(<<v>>) = v /\ Tail(<<v>>) = <<>>
  BY Tails
<1>3. PICK p \in Seq(S), q \in Seq(S) : p = <<v>> /\ q = <<x, y, z>>
  BY <1>1
<1> HIDE DEF S
<1>4. p \o q # <<>> /\ Head(p \o q) = v /\ Tail(p \o q) = <<>> \o q
  <2>1. p # <<>> /\ Head(p) = v /\ Tail(p) = <<>>
    BY <1>2, <1>3
  <2>2. p \o q # <<>> /\ Head(p \o q) = Head(p) /\ Tail(p \o q) = Tail(p) \o q
    BY <2>1, FirstOfConcat
  <2>3. QED
    BY <2>1, <2>2
<1>5. Tail(p \o q) = q
  BY <1>4, ConcatEmptySeq
<1>6. QED
  BY <1>3, <1>4, <1>5

LEMMA ConcatTwo ==
  ASSUME NEW v, NEW w, NEW x, NEW y, NEW z
  PROVE  /\ <<v, w>> \o <<x, y, z>> # <<>> /\ Head(<<v, w>> \o <<x, y, z>>) = v
         /\ Tail(<<v, w>> \o <<x, y, z>>) = <<w>> \o <<x, y, z>>
<1> DEFINE S == {v, w, x, y, z}
<1>1. <<v, w>> \in Seq(S) /\ <<x, y, z>> \in Seq(S)
  OBVIOUS
<1>2. <<v, w>> # <<>> /\ Head(<<v, w>>) = v /\ Tail(<<v, w>>) = <<w>>
  BY Tails
<1>3. PICK p \in Seq(S), q \in Seq(S) : p = <<v, w>> /\ q = <<x, y, z>>
  BY <1>1
<1> HIDE DEF S
<1>4. p \o q # <<>> /\ Head(p \o q) = v /\ Tail(p \o q) = <<w>> \o q
  BY <1>2, <1>3, FirstOfConcat
<1>5. QED
  BY <1>3, <1>4

All == Guests \cup {Host}
Audiences == {All} \cup {{g} : g \in Guests}

Accessing(a) == <<a>> \o Update
Reading(W) == <<Step("read", {}), Step("send", W)>>
Sending(W) == <<Step("send", W)>>

LEMMA JobShapes ==
  /\ \A a : Accessing(a) # <<>> /\ Head(Accessing(a)) = a /\ Tail(Accessing(a)) = Update
  /\ \A p : /\ MakeWithFolder(p) # <<>> /\ Head(MakeWithFolder(p)) = Access("mkdirs", p, p)
            /\ Tail(MakeWithFolder(p)) = Accessing(Access("write", p, p))
  /\ Update # <<>> /\ Head(Update) = Step("scan", {}) /\ Tail(Update) = Reading(All)
  /\ \A W : /\ Reading(W) # <<>> /\ Head(Reading(W)) = Step("read", {})
            /\ Tail(Reading(W)) = Sending(W)
            /\ Sending(W) # <<>> /\ Head(Sending(W)) = Step("send", W)
            /\ Tail(Sending(W)) = <<>>
<1> DEFINE x == Step("scan", {})
           y == Step("read", {})
           z == Step("send", All)
<1>1. Update = <<x, y, z>>
  BY DEF Update, All
<1> HIDE DEF x, y, z
<1>2. ASSUME NEW a
      PROVE  Accessing(a) # <<>> /\ Head(Accessing(a)) = a /\ Tail(Accessing(a)) = Update
  <2>1. Accessing(a) = <<a>> \o <<x, y, z>>
    BY <1>1 DEF Accessing
  <2>2. QED
    BY <1>1, <2>1, ConcatOne
<1>3. ASSUME NEW p
      PROVE  /\ MakeWithFolder(p) # <<>> /\ Head(MakeWithFolder(p)) = Access("mkdirs", p, p)
             /\ Tail(MakeWithFolder(p)) = Accessing(Access("write", p, p))
  <2>1. PICK v : v = Access("mkdirs", p, p)
    OBVIOUS
  <2>2. PICK w : w = Access("write", p, p)
    OBVIOUS
  <2>3. MakeWithFolder(p) = <<v, w>> \o <<x, y, z>> /\ Accessing(w) = <<w>> \o <<x, y, z>>
    BY <1>1, <2>1, <2>2 DEF MakeWithFolder, Accessing
  <2>4. QED
    BY <2>1, <2>2, <2>3, ConcatOne, ConcatTwo
<1>4. Update # <<>> /\ Head(Update) = x /\ Tail(Update) = Reading(All)
  BY <1>1, Tails DEF Reading, y, z
<1>5. ASSUME NEW W
      PROVE  /\ Reading(W) # <<>> /\ Head(Reading(W)) = Step("read", {})
             /\ Tail(Reading(W)) = Sending(W)
             /\ Sending(W) # <<>> /\ Head(Sending(W)) = Step("send", W)
             /\ Tail(Sending(W)) = <<>>
  BY Tails DEF Reading, Sending
<1>6. QED
  BY <1>2, <1>3, <1>4, <1>5 DEF x

LEMMA StepParts ==
  /\ \A do, p, q : /\ Access(do, p, q).do = do /\ Access(do, p, q).from = p
                   /\ Access(do, p, q).to = q
  /\ \A do, W : Step(do, W).do = do /\ Step(do, W).whom = W
  BY DEF Access, Step

Changers == {"mkdir", "create", "write", "remove"}

\* A folder is not renamed to a path in itself.
Apart(p, q) == p = q \/ ~ IsPrefix(p, q)

\* What a thread's handler has yet to do: a suffix of the whole that it starts with.
UiShape(s) ==
  \/ s = <<>> \/ s = Update \/ s = Reading(All) \/ s = Sending(All)
  \/ \E do \in Changers : \E p \in Paths : s = Accessing(Access(do, p, p))
  \/ \E p \in Paths : \E q \in Paths : s = Accessing(Access("rename", p, q)) /\ Apart(p, q)
  \/ \E p \in FilePaths : s = MakeWithFolder(p)

IoShape(s) ==
  \/ s = <<>> \/ s = Update
  \/ \E W \in Audiences : s = Reading(W) \/ s = Sending(W)
  \/ \E p \in FilePaths : s = MakeWithFolder(p) \/ s = Accessing(Access("write", p, p))

Jobs == DOMAIN job = Threads /\ UiShape(job["ui"]) /\ IoShape(job["io"])

LEMMA ShapeGoesOn ==
  ASSUME NEW s
  PROVE  /\ UiShape(<<>>) /\ (UiShape(s) /\ s # <<>> => UiShape(Tail(s)))
         /\ IoShape(<<>>) /\ (IoShape(s) /\ s # <<>> => IoShape(Tail(s)))
<1>1. All \in Audiences
  BY DEF Audiences
<1>2. UiShape(s) /\ s # <<>> => UiShape(Tail(s))
  <2>1. ASSUME NEW p \in FilePaths, s = MakeWithFolder(p) PROVE UiShape(Tail(s))
    <3>1. Tail(s) = Accessing(Access("write", p, p)) /\ p \in Paths /\ "write" \in Changers
      BY <2>1, JobShapes DEF FilePaths, Changers
    <3>2. QED
      BY <3>1 DEF UiShape
  <2>2. QED
    BY <2>1, JobShapes DEF UiShape
<1>3. IoShape(s) /\ s # <<>> => IoShape(Tail(s))
  BY <1>1, JobShapes DEF IoShape
<1>4. QED
  BY <1>2, <1>3 DEF UiShape, IoShape

LEMMA JobSet ==
  ASSUME Jobs, NEW t \in Threads, NEW s, job' = [job EXCEPT ![t] = s],
         t = "ui" => UiShape(s), t = "io" => IoShape(s)
  PROVE  /\ Jobs' /\ job'[t] = s
         /\ \A u \in Threads : u # t => job'[u] = job[u]
<1>1. /\ DOMAIN job' = Threads /\ job'[t] = s
      /\ \A u \in Threads : u # t => job'[u] = job[u]
  BY DEF Jobs
<1>2. UiShape(job'["ui"]) /\ IoShape(job'["io"])
  <2>1. CASE t = "ui"
    BY <1>1, <2>1 DEF Jobs, Threads
  <2>2. CASE t = "io"
    BY <1>1, <2>2 DEF Jobs, Threads
  <2>3. QED
    BY <2>1, <2>2 DEF Threads
<1>3. QED
  BY <1>1, <1>2 DEF Jobs

\* The first step tells how the rest of a handler looks.
LEMMA NextSteps ==
  ASSUME Jobs, NEW t \in Threads
  PROVE  /\ NextStep(t) = "nothing" <=> job[t] = <<>>
         /\ NextStep(t) = "scan" => job[t] = Update
         /\ NextStep(t) = "read" => \E W \in Audiences : job[t] = Reading(W)
         /\ NextStep(t) = "send" => \E W \in Audiences : job[t] = Sending(W)
         /\ NextStep(t) = "mkdirs" => \E p \in FilePaths : job[t] = MakeWithFolder(p)
         /\ \A do \in Changers : NextStep(t) = do =>
              \E p \in Paths : job[t] = Accessing(Access(do, p, p))
         /\ NextStep(t) = "rename" => /\ t = "ui"
              /\ \E p \in Paths : \E q \in Paths :
                   job[t] = Accessing(Access("rename", p, q)) /\ Apart(p, q)
         /\ t = "io" /\ NextStep(t) \in Changers => NextStep(t) = "write"
<1>1. All \in Audiences /\ FilePaths \subseteq Paths
  BY DEF Audiences, FilePaths
<1>2. UiShape(job[t]) \/ (t = "io" /\ IoShape(job[t]))
  BY DEF Jobs, Threads
<1>3. NextStep(t) = IF job[t] = <<>> THEN "nothing" ELSE Head(job[t]).do
  BY DEF NextStep, Idle
<1>4. PICK s : s = job[t]
  OBVIOUS
<1>5. t = "ui" => UiShape(s)
  BY <1>4 DEF Jobs
<1>6. CASE s = <<>>
  BY <1>3, <1>4, <1>6 DEF Changers
<1>7. CASE s = Update
  BY <1>3, <1>4, <1>7, JobShapes, StepParts DEF Changers
<1>8. ASSUME NEW W \in Audiences, s = Reading(W)
      PROVE  NextStep(t) = "read" /\ job[t] = Reading(W)
  BY <1>3, <1>4, <1>8, JobShapes, StepParts
<1>9. ASSUME NEW W \in Audiences, s = Sending(W)
      PROVE  NextStep(t) = "send" /\ job[t] = Sending(W)
  BY <1>3, <1>4, <1>9, JobShapes, StepParts
<1>10. ASSUME NEW p \in FilePaths, s = MakeWithFolder(p)
       PROVE  NextStep(t) = "mkdirs" /\ job[t] = MakeWithFolder(p)
  BY <1>3, <1>4, <1>10, JobShapes, StepParts
<1>11. ASSUME NEW do, NEW p, NEW q, s = Accessing(Access(do, p, q))
       PROVE  NextStep(t) = do /\ job[t] = Accessing(Access(do, p, q))
  BY <1>3, <1>4, <1>11, JobShapes, StepParts
<1>12. CASE t = "ui" /\ UiShape(s)
  <2>1. \/ s = <<>> \/ s = Update \/ s = Reading(All) \/ s = Sending(All)
        \/ \E do \in Changers : \E p \in Paths : s = Accessing(Access(do, p, p))
        \/ \E p \in Paths : \E q \in Paths :
              s = Accessing(Access("rename", p, q)) /\ Apart(p, q)
        \/ \E p \in FilePaths : s = MakeWithFolder(p)
    BY <1>12 DEF UiShape
  <2>2. CASE s = Reading(All) \/ s = Sending(All)
    BY <1>1, <1>8, <1>9, <2>2, JobShapes DEF Changers
  <2>3. CASE \E do \in Changers : \E p \in Paths : s = Accessing(Access(do, p, p))
    <3>1. PICK do \in Changers, p \in Paths : s = Accessing(Access(do, p, p))
      BY <2>3
    <3>2. NextStep(t) = do /\ job[t] = Accessing(Access(do, p, p)) /\ job[t] # <<>>
      BY <1>4, <1>11, <3>1, JobShapes
    <3>3. QED
      BY <1>12, <3>2 DEF Changers
  <2>4. CASE \E p \in Paths : \E q \in Paths :
               s = Accessing(Access("rename", p, q)) /\ Apart(p, q)
    <3>1. PICK p \in Paths, q \in Paths : s = Accessing(Access("rename", p, q)) /\ Apart(p, q)
      BY <2>4
    <3>2. NextStep(t) = "rename" /\ job[t] = Accessing(Access("rename", p, q)) /\ job[t] # <<>>
      BY <1>4, <1>11, <3>1, JobShapes
    <3>3. QED
      BY <1>12, <3>1, <3>2 DEF Changers
  <2>5. CASE \E p \in FilePaths : s = MakeWithFolder(p)
    <3>1. PICK p \in FilePaths : s = MakeWithFolder(p)
      BY <2>5
    <3>2. NextStep(t) = "mkdirs" /\ job[t] = MakeWithFolder(p) /\ job[t] # <<>>
      BY <1>4, <1>10, <3>1, JobShapes
    <3>3. QED
      BY <1>12, <3>2 DEF Changers
  <2>6. QED
    BY <1>6, <1>7, <2>1, <2>2, <2>3, <2>4, <2>5
<1>13. CASE t = "io" /\ IoShape(s)
  <2>1. \/ s = <<>> \/ s = Update
        \/ \E W \in Audiences : s = Reading(W) \/ s = Sending(W)
        \/ \E p \in FilePaths : s = MakeWithFolder(p) \/ s = Accessing(Access("write", p, p))
    BY <1>13 DEF IoShape
  <2>2. CASE \E W \in Audiences : s = Reading(W) \/ s = Sending(W)
    BY <1>8, <1>9, <2>2, JobShapes DEF Changers
  <2>3. CASE \E p \in FilePaths : s = MakeWithFolder(p)
    BY <1>10, <1>13, <2>3, JobShapes DEF Changers
  <2>4. CASE \E p \in FilePaths : s = Accessing(Access("write", p, p))
    <3>1. PICK p \in FilePaths : s = Accessing(Access("write", p, p))
      BY <2>4
    <3>2. NextStep(t) = "write" /\ job[t] = Accessing(Access("write", p, p)) /\ job[t] # <<>>
      BY <1>4, <1>11, <3>1, JobShapes
    <3>3. QED
      BY <1>1, <1>13, <3>2 DEF Changers
  <2>5. QED
    BY <1>6, <1>7, <2>1, <2>2, <2>3, <2>4
<1>14. QED
  BY <1>4, <1>12, <1>13 DEF Jobs, Threads
-----------------------------------------------------------------------------
(* What operations do to the storage *)

Values == {Folder} \cup Contents
Disks == UNION {[S -> Values] : S \in SUBSET Paths}

LEMMA DiskIs ==
  ASSUME NEW f \in Disks
  PROVE  /\ DOMAIN f \subseteq Paths /\ f \in [DOMAIN f -> Values]
         /\ <<>> \notin DOMAIN f
<1>1. PICK S \in SUBSET Paths : f \in [S -> Values]
  BY DEF Disks
<1>2. <<>> \notin Paths
  BY Levels, TopPath, SubPath
<1>3. QED
  BY <1>1, <1>2

LEMMA IsDisk ==
  ASSUME NEW S \in SUBSET Paths, NEW f \in [S -> Values]
  PROVE  f \in Disks
  BY DEF Disks

LEMMA BelowIs ==
  ASSUME disk \in Disks, NEW p \in Paths
  PROVE  \A r : r \in Below(p) <=> /\ r \in DOMAIN disk
                                   /\ r = p \/ (p \in Tops /\ r = Append(p, FileName))
<1>1. \A r \in DOMAIN disk : r \in Paths
  BY DiskIs
<1>2. \A r \in Paths : IsPrefix(p, r) <=> r = p \/ (p \in Tops /\ r \in Subs /\ Parent(r) = p)
  BY PrefixOf
<1>3. \A r \in Paths : (p \in Tops /\ r \in Subs /\ Parent(r) = p)
                         <=> (p \in Tops /\ r = Append(p, FileName))
  BY TopPath, SubPath
<1>4. QED
  BY <1>1, <1>2, <1>3 DEF Below

\* Where an entry goes that is renamed, and what goes there with it.
LEMMA SuffixesMove ==
  ASSUME NEW p \in Paths, NEW q \in Paths
  PROVE  /\ q \o SubSeq(p, Len(p) + 1, Len(p)) = q
         /\ p \in Tops => q \o SubSeq(Append(p, FileName), Len(p) + 1, Len(Append(p, FileName)))
                            = Append(q, FileName)
<1>1. /\ p \in Seq(Names) /\ q \in Seq(Names) /\ Len(p) \in Nat /\ Len(q) \in Nat
      /\ FileName \in Names
  BY TopPath, SubPath, Levels
<1>2. SubSeq(p, Len(p) + 1, Len(p)) = <<>>
  BY <1>1, SubSeqEmpty
<1>3. q \o <<>> = q
  BY <1>1, ConcatEmptySeq
<1>4. PICK r \in Seq(Names) : r = Append(p, FileName)
  BY <1>1, AppendProperties
<1>5. Len(r) = Len(p) + 1 /\ r[Len(p) + 1] = FileName
  BY <1>1, <1>4, AppendProperties
<1>6. /\ SubSeq(r, Len(p) + 1, Len(p) + 1) \in Seq(Names)
      /\ Len(SubSeq(r, Len(p) + 1, Len(p) + 1)) = 1
      /\ SubSeq(r, Len(p) + 1, Len(p) + 1)[1] = FileName
  <2>1. \A i \in (Len(p) + 1)..(Len(p) + 1) : r[i] \in Names
    BY <1>1, <1>5
  <2>2. PICK n \in Nat : n = Len(p) + 1
    BY <1>1
  <2>3. /\ SubSeq(r, n, n) \in Seq(Names) /\ Len(SubSeq(r, n, n)) = 1
        /\ \A i \in 1..1 : SubSeq(r, n, n)[i] = r[(n + i) - 1]
    BY <2>1, <2>2, SubSeqProperties
  <2>4. SubSeq(r, n, n)[1] = r[n]
    BY <2>3
  <2>5. QED
    BY <1>5, <2>2, <2>3, <2>4
<1>7. SubSeq(r, Len(p) + 1, Len(p) + 1) = <<FileName>>
  <2>1. PICK s \in Seq(Names) : s = SubSeq(r, Len(p) + 1, Len(p) + 1)
    BY <1>6
  <2>2. <<FileName>> \in Seq(Names) /\ Len(<<FileName>>) = 1 /\ <<FileName>>[1] = FileName
    BY <1>1
  <2>3. PICK t \in Seq(Names) : t = <<FileName>>
    BY <2>2
  <2>4. Len(s) = 1 /\ Len(t) = 1 /\ \A i \in 1..Len(s) : s[i] = t[i]
    BY <1>6, <2>1, <2>2, <2>3
  <2>5. s = t
    BY <2>4, SeqEqual
  <2>6. QED
    BY <2>1, <2>3, <2>5
<1>8. q \o <<FileName>> = Append(q, FileName)
  BY <1>1, AppendIsConcat
<1>9. q \o SubSeq(r, Len(p) + 1, Len(r)) = Append(q, FileName)
  BY <1>5, <1>7, <1>8, Zenon
<1>10. q \o SubSeq(p, Len(p) + 1, Len(p)) = q
  BY <1>2, <1>3
<1>11. q \o SubSeq(Append(p, FileName), Len(p) + 1, Len(Append(p, FileName)))
         = Append(q, FileName)
  BY <1>4, <1>9
<1>12. QED
  BY <1>10, <1>11

LEMMA RenamedIs ==
  ASSUME disk \in Disks, NEW p \in Paths, NEW q \in Paths, Exists(p),
         DOMAIN Renamed(p, q) \subseteq Paths
  PROVE  /\ q \in DOMAIN Renamed(p, q) /\ Renamed(p, q)[q] = disk[p]
         /\ \A r \in Below(p) : r # p =>
              /\ q \in Tops /\ Append(q, FileName) \in DOMAIN Renamed(p, q)
              /\ Renamed(p, q)[Append(q, FileName)] = disk[r]
         /\ \A r \in DOMAIN disk : r \notin Below(p) /\ r # q => r \in DOMAIN Renamed(p, q)
         /\ \A r \in DOMAIN Renamed(p, q) :
              \/ r = q
              \/ /\ q \in Tops /\ r = Append(q, FileName)
                 /\ p \in Tops /\ Append(p, FileName) \in DOMAIN disk
              \/ r \in DOMAIN disk /\ r \notin Below(p) /\ r # q /\ Renamed(p, q)[r] = disk[r]
         /\ Renamed(p, q) \in [DOMAIN Renamed(p, q) -> Values]
<1> DEFINE Suffix(r) == SubSeq(r, Len(p) + 1, Len(r))
           Moved == {q \o Suffix(r) : r \in Below(p)}
           D == (DOMAIN disk \ (Below(p) \cup {q})) \cup Moved
           g == [r \in D |-> IF r \in Moved THEN disk[p \o SubSeq(r, Len(q) + 1, Len(r))]
                             ELSE disk[r]]
           c == Append(p, FileName)
           d == Append(q, FileName)
<1>1. Renamed(p, q) = g
  BY DEF Renamed
<1>2. DOMAIN g = D
  OBVIOUS
<1>3. /\ \A r : r \in Below(p) <=> r \in DOMAIN disk /\ (r = p \/ (p \in Tops /\ r = c))
      /\ p \in DOMAIN disk /\ disk \in [DOMAIN disk -> Values] /\ DOMAIN disk \subseteq Paths
  BY BelowIs, DiskIs DEF Exists
<1>4. /\ q \o Suffix(p) = q
      /\ p \in Tops => q \o Suffix(c) = d
  BY SuffixesMove
<1>5. /\ p \o SubSeq(q, Len(q) + 1, Len(q)) = p
      /\ q \in Tops => p \o SubSeq(d, Len(q) + 1, Len(d)) = c
  BY SuffixesMove
<1>6. \A r : r \in Moved <=> r = q \/ (p \in Tops /\ c \in DOMAIN disk /\ r = d)
  <2>1. ASSUME NEW r, r \in Moved
        PROVE  r = q \/ (p \in Tops /\ c \in DOMAIN disk /\ r = d)
    BY <1>3, <1>4, <2>1
  <2>2. q \in Moved
    BY <1>3, <1>4
  <2>3. ASSUME p \in Tops, c \in DOMAIN disk
        PROVE  d \in Moved
    BY <1>3, <1>4, <2>3
  <2> HIDE DEF Moved
  <2>4. QED
    BY <2>1, <2>2, <2>3
<1>7. p \in Tops /\ c \in DOMAIN disk => q \in Tops
  <2>1. SUFFICES ASSUME p \in Tops, c \in DOMAIN disk PROVE q \in Tops
    OBVIOUS
  <2>2. d \in Paths
    BY <1>1, <1>2, <1>6, <2>1
  <2>3. CASE q \in Subs
    <3>1. q \in Seq(Names) /\ Len(q) = 2 /\ FileName \in Names
      BY <2>3, SubPath, Levels
    <3>2. Len(d) = 3
      <4>1. Len(Append(q, FileName)) = Len(q) + 1
        BY <3>1, AppendProperties
      <4>2. QED
        BY <3>1, <4>1
    <3>3. Len(d) = 1 \/ Len(d) = 2
      BY <2>2, TopPath, SubPath, Levels
    <3>4. QED
      BY <3>2, <3>3
  <2>4. QED
    BY <2>3, Levels
<1>8. g[q] = disk[p] /\ q \in D
  BY <1>5, <1>6
<1>9. ASSUME p \in Tops, c \in DOMAIN disk
      PROVE  q \in Tops /\ d \in D /\ g[d] = disk[c]
  BY <1>5, <1>6, <1>7, <1>9
<1>10. \A r \in D : r \notin Moved => /\ r \in DOMAIN disk /\ r \notin Below(p) /\ r # q
                                      /\ g[r] = disk[r]
  OBVIOUS
<1>11. \A r \in D : r = q \/ (p \in Tops /\ c \in DOMAIN disk /\ r = d) \/ r \notin Moved
  BY <1>6
<1>12. \A r \in DOMAIN disk : r \notin Below(p) /\ r # q => r \in D
  OBVIOUS
<1> HIDE DEF Moved, D
<1>13. \A r \in D : g[r] \in Values
  <2>1. disk[p] \in Values /\ (c \in DOMAIN disk => disk[c] \in Values)
    BY <1>3
  <2> HIDE DEF g, c, d
  <2>2. \A r \in D : \/ g[r] = disk[p] \/ (c \in DOMAIN disk /\ g[r] = disk[c])
                     \/ (r \in DOMAIN disk /\ g[r] = disk[r])
    BY <1>8, <1>9, <1>10, <1>11
  <2>3. QED
    BY <1>3, <2>1, <2>2
<1>14. g \in [D -> Values]
  BY <1>13
<1> HIDE DEF g, c
<1>15. \A r \in Below(p) : r # p => q \in Tops /\ d \in D /\ g[d] = disk[r]
  BY <1>3, <1>9
<1>16. \A r \in D : \/ r = q
                    \/ q \in Tops /\ r = d /\ p \in Tops /\ c \in DOMAIN disk
                    \/ r \in DOMAIN disk /\ r \notin Below(p) /\ r # q /\ g[r] = disk[r]
  BY <1>9, <1>10, <1>11
<1>17. QED
  BY <1>1, <1>2, <1>8, <1>12, <1>14, <1>15, <1>16 DEF c
-----------------------------------------------------------------------------
(* The storage stays a tree *)

DiskOK == disk \in Disks /\ TreeShaped(disk)

LEMMA ShapedIs ==
  ASSUME NEW f \in Disks
  PROVE  TreeShaped(f) <=>
           \A p \in DOMAIN f : p \in Subs => Parent(p) \in DOMAIN f /\ f[Parent(p)] = Folder
<1>1. \A p \in DOMAIN f : p \in Paths
  BY DiskIs
<1>2. \A p \in Paths : Len(p) > 1 <=> p \in Subs
  BY TopPath, SubPath, Levels
<1>3. QED
  BY <1>1, <1>2 DEF TreeShaped

LEMMA FolderIs == Folder \in Values /\ Folder \notin Contents
  BY DEF Folder, Values, Contents

\* An entry is made, or a file replaced, in a folder that is there.
LEMMA WithOK ==
  ASSUME DiskOK, NEW p \in Paths, NEW v \in Values, IsFolder(Parent(p)),
         ~ IsFolder(p)
  PROVE  With(disk, p, v) \in Disks /\ TreeShaped(With(disk, p, v))
<1> DEFINE f == With(disk, p, v)
<1>1. DOMAIN disk \subseteq Paths /\ disk \in [DOMAIN disk -> Values] /\ disk \in Disks
  BY DiskIs DEF DiskOK
<1>2. /\ DOMAIN f = DOMAIN disk \cup {p} /\ f[p] = v
      /\ \A r \in DOMAIN disk : r # p => f[r] = disk[r]
      /\ f \in [DOMAIN disk \cup {p} -> Values]
  BY <1>1 DEF With
<1> HIDE DEF f
<1>3. f \in Disks
  BY <1>1, <1>2, IsDisk
<1>4. ASSUME NEW r \in DOMAIN f, r \in Subs
      PROVE  Parent(r) \in DOMAIN f /\ f[Parent(r)] = Folder
  <2>1. Parent(r) \in Tops /\ Parent(r) # <<>>
    BY <1>4, SubPath, TopPath
  <2>2. Parent(r) \in DOMAIN disk /\ disk[Parent(r)] = Folder
    <3>1. CASE r = p
      BY <2>1, <3>1 DEF IsFolder, Exists
    <3>2. CASE r # p
      BY <1>1, <1>2, <1>4, <3>2, ShapedIs DEF DiskOK
    <3>3. QED
      BY <3>1, <3>2
  <2>3. Parent(r) # p
    BY <2>2 DEF IsFolder, Exists
  <2>4. QED
    BY <1>2, <2>2, <2>3
<1>5. TreeShaped(f)
  BY <1>3, <1>4, ShapedIs
<1>6. QED
  BY <1>3, <1>5 DEF f

LEMMA WithoutOK ==
  ASSUME DiskOK, NEW S
  PROVE  /\ Without(disk, S) \in Disks
         /\ \A p \in Paths : S = Below(p) => TreeShaped(Without(disk, S))
<1> DEFINE f == Without(disk, S)
<1>1. DOMAIN disk \subseteq Paths /\ disk \in [DOMAIN disk -> Values] /\ disk \in Disks
  BY DiskIs DEF DiskOK
<1>2. /\ DOMAIN f = DOMAIN disk \ S /\ f \in [DOMAIN disk \ S -> Values]
      /\ \A r \in DOMAIN disk \ S : f[r] = disk[r]
  BY <1>1 DEF Without
<1> HIDE DEF f
<1>3. f \in Disks
  BY <1>1, <1>2, IsDisk
<1>4. ASSUME NEW p \in Paths, S = Below(p), NEW r \in DOMAIN f, r \in Subs
      PROVE  Parent(r) \in DOMAIN f /\ f[Parent(r)] = Folder
  <2>1. Parent(r) \in Tops /\ r = Append(Parent(r), FileName) /\ r \in DOMAIN disk
    BY <1>2, <1>4, SubPath
  <2>2. Parent(r) \in DOMAIN disk /\ disk[Parent(r)] = Folder
    BY <1>1, <1>4, <2>1, ShapedIs DEF DiskOK
  <2>3. Parent(r) \notin S
    <3>1. SUFFICES ASSUME Parent(r) \in Below(p) PROVE FALSE
      BY <1>4
    <3>2. Parent(r) = p
      BY <1>1, <2>1, <3>1, BelowIs, TopPath
    <3>3. r \in Below(p)
      BY <1>1, <2>1, <3>2, BelowIs
    <3>4. QED
      BY <1>2, <1>4, <3>3
  <2>4. QED
    BY <1>2, <2>2, <2>3
<1>5. ASSUME NEW p \in Paths, S = Below(p) PROVE TreeShaped(f)
  BY <1>3, <1>4, <1>5, ShapedIs
<1>6. QED
  BY <1>3, <1>5 DEF f

\* What is in the way of a rename has nothing in it.
LEMMA NothingInTarget ==
  ASSUME DiskOK, NEW p \in Paths, NEW q \in Paths, CanRename(p, q),
         NEW r \in DOMAIN disk, r \in Subs, Parent(r) = q
  PROVE  r \in Below(p) /\ p = q
<1>1. /\ disk \in Disks /\ r = Append(q, FileName) /\ q \in Tops /\ q # r
      /\ q \in DOMAIN disk
  BY SubPath, TopPath, ShapedIs DEF DiskOK
<1>2. r \in Below(q)
  BY <1>1, BelowIs
<1>3. QED
  BY <1>1, <1>2 DEF CanRename, Exists

LEMMA RenamedOK ==
  ASSUME DiskOK, NEW p \in Paths, NEW q \in Paths, CanRename(p, q), Apart(p, q),
         DOMAIN Renamed(p, q) \subseteq Paths
  PROVE  /\ Renamed(p, q) \in Disks /\ TreeShaped(Renamed(p, q))
         /\ \A r \in DOMAIN Renamed(p, q) :
              \E s \in DOMAIN disk : Renamed(p, q)[r] = disk[s]
<1> DEFINE g == Renamed(p, q)
           c == Append(p, FileName)
           d == Append(q, FileName)
<1>1. disk \in Disks /\ p \in DOMAIN disk /\ IsFolder(Parent(q)) /\ DOMAIN g \subseteq Paths
  BY DEF DiskOK, CanRename, Exists
<1>2. /\ q \in DOMAIN g /\ g[q] = disk[p]
      /\ \A r \in Below(p) : r # p => q \in Tops /\ d \in DOMAIN g /\ g[d] = disk[r]
      /\ \A r \in DOMAIN disk : r \notin Below(p) /\ r # q => r \in DOMAIN g
      /\ \A r \in DOMAIN g :
           \/ r = q
           \/ q \in Tops /\ r = d /\ p \in Tops /\ c \in DOMAIN disk
           \/ r \in DOMAIN disk /\ r \notin Below(p) /\ r # q /\ g[r] = disk[r]
      /\ g \in [DOMAIN g -> Values]
  BY <1>1, RenamedIs DEF Exists
<1> HIDE DEF g
<1>3. \A r : r \in Below(p) <=> r \in DOMAIN disk /\ (r = p \/ (p \in Tops /\ r = c))
  BY <1>1, BelowIs
<1>4. g \in Disks
  BY <1>1, <1>2, IsDisk
<1>5. \A r \in DOMAIN disk :
        r \in Subs => Parent(r) \in DOMAIN disk /\ disk[Parent(r)] = Folder
  BY <1>1, ShapedIs DEF DiskOK
<1>6. \A r \in Tops : r # d /\ r # c /\ r # <<>> /\ r \notin Subs
  <2>1. \A x \in Paths : Append(x, FileName) \notin Tops
    <3>1. ASSUME NEW x \in Paths, Append(x, FileName) \in Tops PROVE FALSE
      <4>1. x \in Seq(Names) /\ Len(x) \in Nat \ {0} /\ FileName \in Names
        BY TopPath, SubPath, Levels
      <4>2. Len(Append(x, FileName)) = Len(x) + 1
        BY <4>1, AppendProperties
      <4>3. Len(Append(x, FileName)) = 1
        BY <3>1, TopPath
      <4>4. QED
        BY <4>1, <4>2, <4>3
    <3>2. QED
      BY <3>1
  <2>2. QED
    BY <2>1, TopPath
<1> HIDE DEF d
<1>7. ASSUME NEW r \in DOMAIN g, r \in Subs
      PROVE  Parent(r) \in DOMAIN g /\ g[Parent(r)] = Folder
  <2>1. Parent(r) \in Tops /\ r = Append(Parent(r), FileName)
    BY <1>7, SubPath
  \* A folder stays what it was.
  <2>2. ASSUME NEW x \in DOMAIN disk, x \in Tops, x \notin Below(p), x # q,
               disk[x] = Folder
        PROVE  x \in DOMAIN g /\ g[x] = Folder
    BY <1>2, <1>6, <2>2
  <2>3. CASE r = q
    <3>1. Parent(q) \in DOMAIN disk /\ disk[Parent(q)] = Folder
      BY <1>1, <1>6, <2>1, <2>3 DEF IsFolder, Exists
    <3>2. Parent(q) # q
      BY <1>6, <1>7, <2>1, <2>3
    <3>3. Parent(q) \notin Below(p)
      <4>1. SUFFICES ASSUME Parent(q) = p PROVE FALSE
        BY <1>3, <1>6, <2>1, <2>3
      <4>2. IsPrefix(p, q) /\ p # q
        BY <1>7, <2>1, <2>3, <3>2, <4>1, PrefixOf
      <4>3. QED
        BY <4>2 DEF Apart
    <3>4. QED
      BY <2>1, <2>2, <2>3, <3>1, <3>2, <3>3
  <2>4. CASE q \in Tops /\ r = d /\ p \in Tops /\ c \in DOMAIN disk
    <3>1. c \in Subs /\ Parent(c) = p
      BY <2>4, TopPath
    <3>2. disk[p] = Folder
      BY <1>5, <2>4, <3>1
    <3>3. Parent(r) = q
      BY <2>4, TopPath DEF d
    <3>4. QED
      BY <1>2, <3>2, <3>3
  <2>5. CASE r \in DOMAIN disk /\ r \notin Below(p) /\ r # q /\ g[r] = disk[r]
    <3>1. Parent(r) \in DOMAIN disk /\ disk[Parent(r)] = Folder
      BY <1>5, <1>7, <2>5
    <3>2. Parent(r) # q
      BY <1>7, <2>5, NothingInTarget
    <3>3. Parent(r) \notin Below(p)
      BY <1>3, <1>6, <2>1, <2>5
    <3>4. QED
      BY <2>1, <2>2, <3>1, <3>2, <3>3
  <2>6. QED
    BY <1>2, <2>3, <2>4, <2>5
<1>8. TreeShaped(g)
  BY <1>4, <1>7, ShapedIs
<1>9. ASSUME NEW r \in DOMAIN g
      PROVE  \E s \in DOMAIN disk : g[r] = disk[s]
  <2>1. CASE r = q
    BY <1>1, <1>2, <2>1
  <2>2. CASE q \in Tops /\ r = d /\ p \in Tops /\ c \in DOMAIN disk
    BY <1>2, <1>3, <1>6, <2>2
  <2>3. QED
    BY <1>2, <2>1, <2>2
<1>10. QED
  BY <1>4, <1>8, <1>9 DEF g

\* A rename keeps every file but one that was put in its way.
LEMMA RenamedKeeps ==
  ASSUME DiskOK, NEW p \in Paths, NEW q \in Paths, CanRename(p, q),
         DOMAIN Renamed(p, q) \subseteq Paths, NEW r \in DOMAIN disk,
         r = q => p = q
  PROVE  \E s \in DOMAIN Renamed(p, q) : Renamed(p, q)[s] = disk[r]
<1> DEFINE g == Renamed(p, q)
           d == Append(q, FileName)
<1>1. disk \in Disks /\ p \in DOMAIN disk
  BY DEF DiskOK, CanRename, Exists
<1>2. /\ q \in DOMAIN g /\ g[q] = disk[p]
      /\ \A x \in Below(p) : x # p => q \in Tops /\ d \in DOMAIN g /\ g[d] = disk[x]
      /\ \A x \in DOMAIN disk : x \notin Below(p) /\ x # q => x \in DOMAIN g
      /\ \A x \in DOMAIN g :
           \/ x = q
           \/ q \in Tops /\ x = d
           \/ x \in DOMAIN disk /\ x \notin Below(p) /\ x # q /\ g[x] = disk[x]
  BY <1>1, RenamedIs DEF Exists
<1> HIDE DEF g
<1>3. CASE r \in Below(p)
  BY <1>2, <1>3 DEF g
<1>4. CASE r \notin Below(p)
  <2>1. p \in Below(p)
    BY <1>1, BelowIs
  <2>2. r # q
    BY <1>4, <2>1
  <2>3. ~(q \in Tops /\ r = d)
    <3>1. SUFFICES ASSUME q \in Tops, r = d PROVE FALSE
      OBVIOUS
    <3>2. r \in Subs /\ Parent(r) = q
      BY <3>1, TopPath
    <3>3. QED
      BY <1>4, <3>2, NothingInTarget
  <2>4. r \in DOMAIN g /\ g[r] = disk[r]
    BY <1>2, <1>4, <2>2, <2>3
  <2>5. QED
    BY <2>4 DEF g
<1>5. QED
  BY <1>3, <1>4 DEF g
-----------------------------------------------------------------------------
(* Types *)

\* Does a handler that has s to do make a file yet?
Makes(s) == IF s # <<>> /\ Head(s).do \in {"write", "create", "mkdirs"} THEN 1 ELSE 0

Pending == Makes(job["ui"]) + Makes(job["io"])

\* Every file that is made has been counted as a job.
Counts == /\ jobs \in 0..MaxJobs /\ made \in Nat /\ seen \in 0..made
          /\ made + Pending <= jobs + 1
          /\ \A p \in DOMAIN disk : disk[p] <= made

Modes == {"browse", "deleting", "moving", "renaming"}

Scalars == /\ ready \subseteq Guests /\ DOMAIN shown = Guests /\ DOMAIN wire = All
           /\ mode \in Modes /\ item \in Paths \cup {<<>>}
           /\ DOMAIN sending = Threads /\ DOMAIN began = Threads /\ crossed \in BOOLEAN

TypeInv == DiskOK /\ Jobs /\ Counts /\ Scalars

LEMMA MakesIs ==
  /\ \A s : Makes(s) \in {0, 1}
  /\ Makes(<<>>) = 0 /\ Makes(Update) = 0
  /\ \A W : Makes(Reading(W)) = 0 /\ Makes(Sending(W)) = 0
  /\ \A p, q : /\ Makes(MakeWithFolder(p)) = 1 /\ Makes(Accessing(Access("write", p, q))) = 1
               /\ Makes(Accessing(Access("create", p, q))) = 1
               /\ Makes(Accessing(Access("mkdir", p, q))) = 0
               /\ Makes(Accessing(Access("remove", p, q))) = 0
               /\ Makes(Accessing(Access("rename", p, q))) = 0
<1>1. \A s : Makes(s) \in {0, 1}
  BY DEF Makes
<1>2. Makes(<<>>) = 0
  BY DEF Makes
<1>3. Makes(Update) = 0
  BY JobShapes, StepParts DEF Makes
<1>4. \A W : Makes(Reading(W)) = 0 /\ Makes(Sending(W)) = 0
  BY JobShapes, StepParts DEF Makes
<1>5. ASSUME NEW do, NEW p, NEW q
      PROVE  Makes(Accessing(Access(do, p, q)))
               = IF do \in {"write", "create", "mkdirs"} THEN 1 ELSE 0
  BY JobShapes, StepParts DEF Makes
<1>6. \A p : Makes(MakeWithFolder(p)) = 1
  BY JobShapes, StepParts DEF Makes
<1>7. QED
  BY <1>1, <1>2, <1>3, <1>4, <1>5, <1>6

LEMMA PendingIs == Pending \in 0..2
  BY MakesIs DEF Pending

LEMMA PendingSet ==
  ASSUME Jobs, NEW t \in Threads, NEW s, job' = [job EXCEPT ![t] = s]
  PROVE  /\ Pending' + Makes(job[t]) = Pending + Makes(s)
         /\ Pending' \in 0..2 /\ Pending \in 0..2
<1>1. /\ job'[t] = s
      /\ \A u \in Threads : u # t => job'[u] = job[u]
  BY DEF Jobs
<1>2. /\ Makes(s) \in {0, 1} /\ Makes(job["ui"]) \in {0, 1} /\ Makes(job["io"]) \in {0, 1}
  BY MakesIs
<1>3. PICK x, y : x = job'["ui"] /\ y = job'["io"]
  OBVIOUS
<1>4. Pending' = Makes(x) + Makes(y)
  BY <1>3 DEF Pending, Makes
<1>5. CASE t = "ui"
  BY <1>1, <1>2, <1>3, <1>4, <1>5 DEF Pending, Threads
<1>6. CASE t = "io"
  BY <1>1, <1>2, <1>3, <1>4, <1>6 DEF Pending, Threads
<1>7. QED
  BY <1>5, <1>6 DEF Threads

LEMMA TypeInvImplies == BoundsAssumption /\ TypeInv => TypeOK
<1> SUFFICES ASSUME BoundsAssumption, TypeInv PROVE TypeOK
  OBVIOUS
<1>1. /\ DOMAIN disk \subseteq Paths /\ TreeShaped(disk)
      /\ \A p \in DOMAIN disk : disk[p] \in Values
  BY DiskIs DEF TypeInv, DiskOK
<1>2. /\ jobs \in 0..MaxJobs /\ made \in Nat /\ seen \in 0..made /\ made + Pending <= jobs + 1
      /\ Pending \in 0..2
  BY PendingIs DEF TypeInv, Counts
<1>3. made \in 0..(MaxJobs + 1)
  BY <1>2 DEF BoundsAssumption
<1>4. QED
  BY <1>1, <1>2, <1>3 DEF TypeInv, TypeOK, Values, Scalars, Modes, Jobs, All

LEMMA TypeInvInit == BoundsAssumption /\ Init => TypeInv
<1> SUFFICES ASSUME BoundsAssumption, Init PROVE TypeInv
  OBVIOUS
<1> DEFINE S == {<<FileName>>, <<FolderName>>}
<1>1. /\ DOMAIN disk = S /\ \A p \in S : disk[p] \in {Folder, 1}
      /\ disk \in [S -> {Folder, 1}]
  BY DEF Init
<1>2. S \subseteq Tops /\ S \subseteq Paths
  BY Levels DEF Tops
<1>3. Folder = 0 /\ {Folder, 1} \subseteq Values
  BY DEF Folder, Values, Contents, BoundsAssumption
<1> HIDE DEF S
<1>4. disk \in Disks
  <2>1. disk \in [S -> Values]
    BY <1>1, <1>3
  <2>2. QED
    BY <1>2, <2>1, IsDisk
<1>5. TreeShaped(disk)
  BY <1>1, <1>2, <1>4, ShapedIs, TopPath
<1>6. Jobs
  <2>1. DOMAIN job = Threads /\ job["ui"] = <<>> /\ job["io"] = <<>>
    BY DEF Init, Threads
  <2>2. QED
    BY <2>1, ShapeGoesOn DEF Jobs
<1>7. Counts
  <2>1. Pending = 0
    BY MakesIs DEF Pending, Init, Threads
  <2>2. \A p \in DOMAIN disk : disk[p] <= 1
    BY <1>1, <1>3
  <2>3. jobs = 0 /\ made = 1 /\ seen = 1
    BY DEF Init
  <2>4. jobs \in 0..MaxJobs /\ made \in Nat /\ seen \in 0..made /\ made + Pending <= jobs + 1
    BY <2>1, <2>3 DEF BoundsAssumption
  <2>5. QED
    BY <2>2, <2>3, <2>4 DEF Counts
<1>8. Scalars
  BY DEF Scalars, Init, All, Modes
<1>9. QED
  BY <1>4, <1>5, <1>6, <1>7, <1>8 DEF TypeInv, DiskOK

\* The UI thread starts a handler.
LEMMA TypeUiDoes ==
  ASSUME BoundsAssumption, TypeInv, Clickable, NEW s, UiDoes(s), UiShape(s),
         mode' \in Modes, item' \in Paths \cup {<<>>}
  PROVE  TypeInv'
<1>1. job' = [job EXCEPT !["ui"] = s] /\ "ui" \in Threads /\ job["ui"] = <<>>
  BY DEF UiDoes, Threads, Clickable, Idle
<1>2. Jobs'
  BY <1>1, JobSet DEF TypeInv
<1>3. UNCHANGED <<disk, tree, shown, ready, wire, sending, began, made, found, crossed>>
      /\ jobs' = jobs + 1 /\ seen' = made /\ jobs < MaxJobs
  BY DEF UiDoes, views, Clickable
<1>4. Counts'
  <2>1. Pending' + Makes(job["ui"]) = Pending + Makes(s) /\ Makes(job["ui"]) = 0
        /\ Makes(s) \in {0, 1} /\ Pending \in 0..2 /\ Pending' \in 0..2
    BY <1>1, PendingSet, MakesIs DEF TypeInv
  <2>3. PICK a \in 0..2, b \in 0..2 : a = Pending /\ b = Pending' /\ b <= a + 1
    BY <2>1
  <2>4. jobs \in 0..MaxJobs /\ made \in Nat /\ made + a <= jobs + 1
    BY <2>3 DEF TypeInv, Counts
  <2>5. jobs' \in 0..MaxJobs /\ made' \in Nat /\ seen' \in 0..made' /\ made' + b <= jobs' + 1
    <3>1. made' = made /\ jobs' = jobs + 1 /\ seen' = made /\ jobs < MaxJobs
      BY <1>3
    <3>2. MaxJobs \in Nat
      BY DEF BoundsAssumption
    <3>3. jobs' \in 0..MaxJobs
      BY <2>4, <3>1, <3>2
    <3>4. made' + b <= jobs' + 1
      <4>1. b <= a + 1
        BY <2>3
      <4>2. made \in Nat /\ jobs \in Nat /\ made + a <= jobs + 1
        BY <2>4, <3>2
      <4>3. \A m, j \in Nat : m + a <= j + 1 => m + b <= (j + 1) + 1
        BY <4>1
      <4>4. QED
        BY <3>1, <4>2, <4>3
    <3>5. QED
      BY <2>4, <3>1, <3>3, <3>4
  <2>6. \A p \in DOMAIN disk' : disk'[p] <= made'
    BY <1>3 DEF TypeInv, Counts
  <2>7. QED
    BY <2>3, <2>5, <2>6 DEF Counts
<1>5. Scalars'
  BY <1>3 DEF TypeInv, Scalars
<1>6. DiskOK'
  BY <1>3 DEF TypeInv, DiskOK, TreeShaped
<1>7. QED
  BY <1>2, <1>4, <1>5, <1>6 DEF TypeInv

\* A path in the storage itself, and where it is.
LEMMA Inside ==
  ASSUME NEW d \in {<<>>} \cup Tops, NEW x \in Names
  PROVE  /\ Append(d, x) \in Subs => Parent(Append(d, x)) = d
         /\ d = <<>> => Append(d, x) \in Tops
<1>1. d \in Seq(Names)
  BY TopPath, EmptySeq
<1>2. ASSUME Append(d, x) \in Subs PROVE Parent(Append(d, x)) = d
  <2>1. PICK e \in Tops : Append(d, x) = Append(e, FileName) /\ Parent(Append(d, x)) = e
    BY <1>2, SubPath
  <2>2. e \in Seq(Names) /\ FileName \in Names
    BY TopPath, Levels
  <2>3. e = d
    BY <1>1, <2>1, <2>2, AppendInjective
  <2>4. QED
    BY <2>1, <2>3
<1>3. Append(<<>>, x) \in Tops
  <2>1. Append(<<>>, x) = <<x>>
    OBVIOUS
  <2>2. QED
    BY <2>1 DEF Tops
<1>4. QED
  BY <1>2, <1>3

LEMMA LastName == ASSUME NEW p \in Paths PROVE Last(p) \in Names
<1>1. p \in Seq(Names) /\ Len(p) \in 1..2
  BY TopPath, SubPath, Levels
<1>2. Len(p) \in 1..Len(p)
  BY <1>1
<1>3. QED
  BY <1>1, <1>2, ElementOfSeq DEF Last

LEMMA TopsAre == {<<>>} \cup {<<n>> : n \in Names} = {<<>>} \cup Tops
  BY DEF Tops

\* What a confirmed move or rename has to do.
LEMMA MoveShape ==
  ASSUME NEW p \in Paths, NEW d \in {<<>>} \cup Tops, Append(d, Last(p)) \in Paths,
         ~ IsPrefix(p, d)
  PROVE  Apart(p, Append(d, Last(p)))
<1>1. Last(p) \in Names
  BY LastName
<1>2. SUFFICES ASSUME IsPrefix(p, Append(d, Last(p))), p # Append(d, Last(p)) PROVE FALSE
  BY DEF Apart
<1>3. p \in Tops /\ Append(d, Last(p)) \in Subs /\ Parent(Append(d, Last(p))) = p
  BY <1>2, PrefixOf
<1>4. d = p
  BY <1>1, <1>3, Inside
<1>5. QED
  BY <1>4, PrefixOf

LEMMA RenameShape ==
  ASSUME NEW p \in Paths, NEW n \in Names, Append(Parent(p), n) \in Paths
  PROVE  Apart(p, Append(Parent(p), n))
<1>1. SUFFICES ASSUME IsPrefix(p, Append(Parent(p), n)), p # Append(Parent(p), n) PROVE FALSE
  BY DEF Apart
<1>2. p \in Tops /\ Append(Parent(p), n) \in Subs
  BY <1>1, PrefixOf
<1>3. Parent(p) = <<>>
  BY <1>2, TopPath
<1>4. Append(Parent(p), n) \in Tops
  BY <1>3, Inside
<1>5. QED
  BY <1>2, <1>4, TopPath

LEMMA ClickShapes ==
  /\ UiShape(Update)
  /\ \A do \in Changers : \A p \in Paths : UiShape(<<Access(do, p, p)>> \o Update)
  /\ \A p \in Paths : \A q \in Paths :
       Apart(p, q) => UiShape(<<Access("rename", p, q)>> \o Update)
  /\ \A p \in FilePaths : UiShape(MakeWithFolder(p))
<1>1. \A a : <<a>> \o Update = Accessing(a)
  BY DEF Accessing
<1>2. QED
  BY <1>1 DEF UiShape

\* What a click starts, and what it leaves of the panel.
Started(s) ==
  /\ Clickable /\ UiDoes(s) /\ UiShape(s)
  /\ mode' \in Modes /\ item' \in Paths \cup {<<>>}

LEMMA Clicks ==
  ASSUME TypeInv, Click
  PROVE  \/ \E s : /\ Started(s)
                   /\ \A p, q : /\ s = Accessing(Access("create", p, q)) => ~ Exists(q)
                                /\ s = Accessing(Access("rename", p, q)) =>
                                     ~ Exists(q) \/ q = p
         \/ /\ UNCHANGED <<disk, views, job, sending, began, jobs, made, seen, found, crossed>>
            /\ mode' \in Modes /\ item' \in Paths \cup {<<>>}
<1> DEFINE Good(s) == /\ Started(s)
                      /\ \A p, q : /\ s = Accessing(Access("create", p, q)) => ~ Exists(q)
                                   /\ s = Accessing(Access("rename", p, q)) =>
                                        ~ Exists(q) \/ q = p
<1>1. mode \in Modes /\ item \in Paths \cup {<<>>} /\ "browse" \in Modes
  BY DEF TypeInv, Scalars, Modes
\* Which access a handler starts with is in its first step.
<1>2. /\ \A do, p, q, do2, p2, q2 :
           Accessing(Access(do, p, q)) = Accessing(Access(do2, p2, q2))
             => do = do2 /\ p = p2 /\ q = q2
      /\ \A do, p, q : do # "scan" => Update # Accessing(Access(do, p, q))
      /\ \A r, do, p, q : do # "mkdirs" => MakeWithFolder(r) # Accessing(Access(do, p, q))
  <2>1. \A do, p, q : /\ Head(Accessing(Access(do, p, q))).do = do
                      /\ Head(Accessing(Access(do, p, q))).from = p
                      /\ Head(Accessing(Access(do, p, q))).to = q
    BY JobShapes, StepParts
  <2>2. Head(Update).do = "scan"
    BY JobShapes, StepParts
  <2>3. ASSUME NEW do, NEW p, NEW q, NEW do2, NEW p2, NEW q2,
               Accessing(Access(do, p, q)) = Accessing(Access(do2, p2, q2))
        PROVE  do = do2 /\ p = p2 /\ q = q2
    BY <2>1, <2>3
  <2>4. ASSUME NEW do, NEW p, NEW q, do # "scan"
        PROVE  Update # Accessing(Access(do, p, q))
    BY <2>1, <2>2, <2>4
  <2>5. ASSUME NEW r, NEW do, NEW p, NEW q, do # "mkdirs"
        PROVE  MakeWithFolder(r) # Accessing(Access(do, p, q))
    <3>1. Head(MakeWithFolder(r)).do = "mkdirs"
      BY JobShapes, StepParts
    <3>2. QED
      BY <2>1, <2>5, <3>1
  <2>6. QED
    BY <2>3, <2>4, <2>5
<1>3. Started(Update) => Good(Update)
  BY <1>2
<1>4. \A do \in Changers : \A p : do # "create" =>
        (Started(Accessing(Access(do, p, p))) => Good(Accessing(Access(do, p, p))))
  <2>1. "rename" \notin Changers
    BY DEF Changers
  <2>2. QED
    BY <1>2, <2>1
<1>5. \A p : Started(Accessing(Access("create", p, p))) /\ ~ Exists(p)
               => Good(Accessing(Access("create", p, p)))
  BY <1>2
<1>6. \A p, q : Started(Accessing(Access("rename", p, q))) /\ (~ Exists(q) \/ q = p)
                  => Good(Accessing(Access("rename", p, q)))
  BY <1>2
<1>7. \A a : <<a>> \o Update = Accessing(a)
  BY DEF Accessing
<1>18. \A p : Started(MakeWithFolder(p)) => Good(MakeWithFolder(p))
  BY <1>2
<1> HIDE DEF Good
<1>8. \A p : Exists(p) => p \in Paths
  BY DiskIs DEF Exists, TypeInv, DiskOK
<1>9. CASE Refresh
  BY <1>1, <1>3, <1>9, ClickShapes DEF Refresh, Started, panel, Good
<1>10. CASE Cancel \/ \E m \in {"deleting", "moving", "renaming"}, p \in Paths : Initiate(m, p)
  BY <1>1, <1>10 DEF Cancel, Initiate, Modes
<1>11. CASE HandleDeleteSelected
  <2>1. CASE Exists(item)
    <3>1. Started(Accessing(Access("remove", item, item)))
      BY <1>1, <1>7, <1>8, <1>11, <2>1, ClickShapes DEF HandleDeleteSelected, Started, Changers
    <3>2. QED
      BY <1>4, <3>1 DEF Changers, Good
  <2>2. CASE ~ Exists(item)
    <3>1. Started(Update)
      BY <1>1, <1>11, <2>2, ClickShapes DEF HandleDeleteSelected, Started
    <3>2. QED
      BY <1>3, <3>1 DEF Good
  <2>3. QED
    BY <2>1, <2>2
<1>12. ASSUME NEW p \in Paths, HandleCreateFolder(p) PROVE \E s : Good(s)
  <2>1. Started(Accessing(Access("mkdir", p, p)))
    BY <1>1, <1>7, <1>12, ClickShapes DEF HandleCreateFolder, Started, Changers, panel
  <2>2. QED
    BY <1>4, <2>1 DEF Changers
<1>13. ASSUME NEW p \in Paths, HandleCreateFile(p) PROVE \E s : Good(s)
  <2>1. Started(Accessing(Access("create", p, p))) /\ ~ Exists(p)
    BY <1>1, <1>7, <1>13, ClickShapes DEF HandleCreateFile, Started, Changers, panel
  <2>2. QED
    BY <1>5, <2>1
<1>14. ASSUME NEW p \in FilePaths, HandleExternalFileDrop(p) PROVE \E s : Good(s)
  <2>1. p \in Paths /\ Clickable /\ mode' \in Modes /\ item' \in Paths \cup {<<>>}
    BY <1>1, <1>14 DEF FilePaths, HandleExternalFileDrop, panel
  <2>2. CASE UiDoes(<<Access("write", p, p)>> \o Update)
    <3>1. Started(Accessing(Access("write", p, p)))
      BY <1>7, <2>1, <2>2, ClickShapes DEF Started, Changers
    <3>2. QED
      BY <1>4, <3>1 DEF Changers
  <2>3. CASE UiDoes(MakeWithFolder(p))
    <3>1. Started(MakeWithFolder(p))
      BY <2>1, <2>3, ClickShapes DEF Started
    <3>2. QED
      BY <1>18, <3>1
  <2>4. QED
    BY <1>14, <2>2, <2>3 DEF HandleExternalFileDrop
<1>15. ASSUME NEW d \in {<<>>} \cup Tops, HandleConfirmMove(d) PROVE \E s : Good(s)
  <2>1. mode' \in Modes /\ item' \in Paths \cup {<<>>} /\ Clickable
    BY <1>1, <1>15 DEF HandleConfirmMove
  <2>2. CASE ~ Exists(item) /\ UiDoes(Update)
    BY <1>3, <2>1, <2>2, ClickShapes DEF Started
  <2>3. CASE Exists(item) /\ Append(d, Last(item)) \in Paths /\ MoveTo(d)
    <3> DEFINE q == Append(d, Last(item))
    <3>1. item \in Paths /\ ~ IsPrefix(item, d) /\ ~ Exists(q) /\ q \in Paths
          /\ UiDoes(Accessing(Access("rename", item, q)))
      BY <1>7, <1>8, <2>3 DEF MoveTo
    <3>2. Apart(item, q)
      BY <3>1, MoveShape
    <3> HIDE DEF q
    <3>3. Started(Accessing(Access("rename", item, q)))
      BY <1>7, <2>1, <3>1, <3>2, ClickShapes DEF Started
    <3>4. QED
      BY <1>6, <3>1, <3>3
  <2>4. QED
    BY <1>15, <2>2, <2>3 DEF HandleConfirmMove
<1>16. ASSUME NEW n \in Names, HandleConfirmRename(n) PROVE \E s : Good(s)
  <2> DEFINE q == Append(Parent(item), n)
  <2>1. mode' \in Modes /\ item' \in Paths \cup {<<>>} /\ Clickable /\ q \in Paths
    BY <1>1, <1>16 DEF HandleConfirmRename
  <2>2. CASE ~ Exists(item) /\ UiDoes(Update)
    BY <1>3, <2>1, <2>2, ClickShapes DEF Started
  <2>3. CASE Exists(item) /\ (~ Exists(q) \/ q = item)
               /\ UiDoes(<<Access("rename", item, q)>> \o Update)
    <3>1. item \in Paths /\ UiDoes(Accessing(Access("rename", item, q)))
      BY <1>7, <1>8, <2>3
    <3>2. Apart(item, q)
      BY <2>1, <3>1, RenameShape
    <3> HIDE DEF q
    <3>3. Started(Accessing(Access("rename", item, q)))
      BY <1>7, <2>1, <3>1, <3>2, ClickShapes DEF Started
    <3>4. QED
      BY <1>6, <2>3, <3>3
  <2>4. QED
    BY <1>16, <2>2, <2>3 DEF HandleConfirmRename
<1>17. QED
  BY <1>9, <1>10, <1>11, <1>12, <1>13, <1>14, <1>15, <1>16, TopsAre DEF Click, Good

\* A step of a handler that may change the storage, and goes on or gives up.
Advance(t) ==
  /\ \E s : /\ job' = [job EXCEPT ![t] = s] /\ (s = <<>> \/ s = Tail(job[t]))
            /\ \/ made' = made /\ (Makes(s) = 0 \/ Makes(job[t]) = 1)
               \/ made' = made + 1 /\ Makes(job[t]) = 1 /\ Makes(s) = 0
  /\ job[t] # <<>>
  /\ DiskOK'
  /\ \A r \in DOMAIN disk' : \/ disk'[r] = Folder \/ disk'[r] = made'
                             \/ \E x \in DOMAIN disk : disk'[r] = disk[x]
  /\ jobs' = jobs /\ seen' = seen

LEMMA TypeAdvance ==
  ASSUME BoundsAssumption, TypeInv, NEW t \in Threads, Advance(t), Scalars'
  PROVE  TypeInv'
<1>1. PICK s : /\ job' = [job EXCEPT ![t] = s] /\ (s = <<>> \/ s = Tail(job[t]))
               /\ \/ made' = made /\ (Makes(s) = 0 \/ Makes(job[t]) = 1)
                  \/ made' = made + 1 /\ Makes(job[t]) = 1 /\ Makes(s) = 0
  BY DEF Advance
<1>2. Jobs'
  <2>1. job[t] # <<>> /\ Jobs
    BY DEF Advance, TypeInv
  <2>2. (t = "ui" => UiShape(s)) /\ (t = "io" => IoShape(s))
    BY <1>1, <2>1, ShapeGoesOn DEF Jobs
  <2>3. QED
    BY <1>1, <2>1, <2>2, JobSet
<1>3. /\ Pending' + Makes(job[t]) = Pending + Makes(s)
      /\ Pending' \in 0..2 /\ Pending \in 0..2
      /\ Makes(s) \in {0, 1} /\ Makes(job[t]) \in {0, 1}
  BY <1>1, PendingSet, MakesIs DEF TypeInv
<1>4. PICK a \in 0..2, b \in 0..2, x \in 0..1, y \in 0..1 :
         /\ a = Pending /\ b = Pending' /\ x = Makes(job[t]) /\ y = Makes(s) /\ b + x = a + y
  BY <1>3
<1>5. b + x = a + y /\ \/ made' = made /\ (y = 0 \/ x = 1)
                       \/ made' = made + 1 /\ x = 1 /\ y = 0
  BY <1>1, <1>4
<1>6. jobs \in Nat /\ made \in Nat /\ seen \in 0..made /\ made + a <= jobs + 1
  BY <1>4 DEF TypeInv, Counts, BoundsAssumption
<1>7. \A m, j \in Nat : m + a <= j + 1 =>
        /\ (y = 0 \/ x = 1) => m + b <= j + 1
        /\ x = 1 /\ y = 0 => (m + 1) + b <= j + 1
  BY <1>5
<1>8. made' \in Nat /\ made' + b <= jobs + 1 /\ seen \in 0..made' /\ made <= made'
  <2>1. CASE made' = made /\ (y = 0 \/ x = 1)
    <3>1. made + b <= jobs + 1
      BY <1>6, <1>7, <2>1
    <3>2. QED
      BY <1>6, <2>1, <3>1
  <2>2. CASE made' = made + 1 /\ x = 1 /\ y = 0
    <3>1. (made + 1) + b <= jobs + 1
      BY <1>6, <1>7, <2>2
    <3>2. QED
      BY <1>6, <2>2, <3>1
  <2>3. QED
    BY <1>5, <2>1, <2>2
<1>9. \A r \in DOMAIN disk' : disk'[r] <= made'
  <2>1. \A x2 \in DOMAIN disk : disk[x2] <= made /\ disk[x2] \in Nat
    BY DiskIs DEF TypeInv, Counts, DiskOK, Values, Folder, Contents, BoundsAssumption
  <2>2. ASSUME NEW r \in DOMAIN disk' PROVE disk'[r] <= made'
    <3>1. \/ disk'[r] = 0 \/ disk'[r] = made'
          \/ \E x2 \in DOMAIN disk : disk'[r] = disk[x2]
      BY DEF Advance, Folder
    <3>2. QED
      BY <1>6, <1>8, <2>1, <3>1
  <2>3. QED
    BY <2>2
<1>10. Counts'
  <2>1. jobs' = jobs /\ seen' = seen /\ jobs \in 0..MaxJobs
    BY DEF Advance, TypeInv, Counts
  <2>2. made' + Pending' <= jobs' + 1
    BY <1>4, <1>8, <2>1
  <2>3. QED
    BY <1>8, <1>9, <2>1, <2>2 DEF Counts
<1>11. QED
  BY <1>2, <1>10 DEF TypeInv, Advance

\* The number of a new file is not out of bounds.
LEMMA MadeFits ==
  ASSUME BoundsAssumption, TypeInv, NEW t \in Threads, Makes(job[t]) = 1
  PROVE  made + 1 \in Values
<1>1. Makes(job["ui"]) \in {0, 1} /\ Makes(job["io"]) \in {0, 1}
  BY MakesIs
<1>2. PICK a \in 1..2 : a = Pending
  BY <1>1 DEF Pending, Threads
<1>3. made \in Nat /\ jobs \in 0..MaxJobs /\ made + a <= jobs + 1 /\ MaxJobs \in Nat
  BY <1>2 DEF TypeInv, Counts, BoundsAssumption
<1>4. made + 1 \in 1..(MaxJobs + 1)
  BY <1>3
<1>5. QED
  BY <1>4 DEF Values, Contents

LEMMA AdvanceFolder ==
  ASSUME TypeInv, NEW t \in Threads, MakeFolder(t)
  PROVE  Advance(t)
<1>1. PICK p \in Paths : job[t] = Accessing(Access("mkdir", p, p))
  BY NextSteps DEF MakeFolder, Does, TypeInv, Changers
<1>2. Head(job[t]).to = p /\ job[t] # <<>> /\ Tail(job[t]) = Update
  BY <1>1, JobShapes, StepParts
<1>3. jobs' = jobs /\ seen' = seen /\ made' = made
  BY DEF MakeFolder
<1>4. Makes(Update) = 0 /\ Makes(<<>>) = 0
  BY MakesIs
<1>5. CASE IsFolder(Parent(p)) /\ ~ Exists(p)
  <2>1. disk' = With(disk, p, Folder) /\ job' = [job EXCEPT ![t] = Tail(job[t])]
    BY <1>2, <1>5 DEF MakeFolder, GoesOn
  <2>2. p # <<>> /\ ~ IsFolder(p)
    BY <1>5, TopPath, SubPath, Levels DEF IsFolder
  <2>3. With(disk, p, Folder) \in Disks /\ TreeShaped(With(disk, p, Folder))
    BY <1>5, <2>2, WithOK, FolderIs DEF TypeInv
  <2>4. \A r \in DOMAIN With(disk, p, Folder) :
          \/ With(disk, p, Folder)[r] = Folder
          \/ \E x \in DOMAIN disk : With(disk, p, Folder)[r] = disk[x]
    BY DEF With
  <2>5. QED
    BY <1>2, <1>3, <1>4, <2>1, <2>3, <2>4 DEF Advance, DiskOK, TreeShaped
<1>6. CASE ~(IsFolder(Parent(p)) /\ ~ Exists(p))
  <2>1. disk' = disk /\ job' = [job EXCEPT ![t] = <<>>]
    BY <1>2, <1>6 DEF MakeFolder, GivesUp
  <2>2. QED
    BY <1>2, <1>3, <1>4, <2>1 DEF Advance, DiskOK, TreeShaped, TypeInv
<1>7. QED
  BY <1>5, <1>6

LEMMA AdvanceFolders ==
  ASSUME TypeInv, NEW t \in Threads, MakeFolders(t)
  PROVE  Advance(t)
<1>1. PICK p \in FilePaths : job[t] = MakeWithFolder(p)
  BY NextSteps DEF MakeFolders, Does, TypeInv
<1>2. Head(job[t]).to = p /\ job[t] # <<>> /\ Makes(job[t]) = 1 /\ p \in Paths
  BY <1>1, JobShapes, StepParts, MakesIs DEF FilePaths
<1>3. /\ jobs' = jobs /\ seen' = seen /\ made' = made
      /\ job' = [job EXCEPT ![t] = Tail(job[t])]
  BY DEF MakeFolders, GoesOn
<1> DEFINE d == Parent(p)
<1>4. /\ d = <<>> \/ Exists(d) => disk' = disk
      /\ ~(d = <<>> \/ Exists(d)) => disk' = With(disk, d, Folder)
  BY <1>2 DEF MakeFolders
<1>5. CASE d = <<>> \/ Exists(d)
  <2>1. disk' = disk
    BY <1>4, <1>5
  <2>2. QED
    BY <1>2, <1>3, <2>1 DEF Advance, DiskOK, TreeShaped, TypeInv
<1>6. CASE ~(d = <<>> \/ Exists(d))
  <2>1. d \in Tops
    BY <1>2, <1>6, TopPath, SubPath, Levels
  <2>2. d \in Paths /\ IsFolder(Parent(d)) /\ ~ IsFolder(d)
    BY <1>6, <2>1, TopPath DEF IsFolder
  <2> HIDE DEF d
  <2>3. With(disk, d, Folder) \in Disks /\ TreeShaped(With(disk, d, Folder))
    BY <2>2, WithOK, FolderIs DEF TypeInv
  <2>4. \A r \in DOMAIN With(disk, d, Folder) :
          \/ With(disk, d, Folder)[r] = Folder
          \/ \E x \in DOMAIN disk : With(disk, d, Folder)[r] = disk[x]
    BY DEF With
  <2>5. disk' = With(disk, d, Folder)
    BY <1>4, <1>6
  <2>6. QED
    BY <1>2, <1>3, <2>3, <2>4, <2>5 DEF Advance, DiskOK, TreeShaped
<1>7. QED
  BY <1>5, <1>6

LEMMA AdvanceFile ==
  ASSUME BoundsAssumption, TypeInv, NEW t \in Threads, WriteFile(t)
  PROVE  Advance(t)
<1>1. PICK p \in Paths : \/ job[t] = Accessing(Access("write", p, p))
                         \/ job[t] = Accessing(Access("create", p, p))
  BY NextSteps DEF WriteFile, Does, TypeInv, Changers
<1>2. Head(job[t]).to = p /\ job[t] # <<>> /\ Tail(job[t]) = Update /\ Makes(job[t]) = 1
  BY <1>1, JobShapes, StepParts, MakesIs
<1>3. jobs' = jobs /\ seen' = seen
  BY DEF WriteFile
<1>4. Makes(Update) = 0 /\ Makes(<<>>) = 0
  BY MakesIs
<1>5. CASE IsFolder(Parent(p)) /\ ~ IsFolder(p)
  <2>1. /\ disk' = With(disk, p, made + 1) /\ made' = made + 1
        /\ job' = [job EXCEPT ![t] = Tail(job[t])]
    BY <1>2, <1>5 DEF WriteFile, GoesOn
  <2>2. With(disk, p, made + 1) \in Disks /\ TreeShaped(With(disk, p, made + 1))
    BY <1>2, <1>5, WithOK, MadeFits DEF TypeInv
  <2>3. \A r \in DOMAIN disk' :
          disk'[r] = made' \/ \E x \in DOMAIN disk : disk'[r] = disk[x]
    BY <2>1 DEF With
  <2>4. DiskOK'
    BY <2>1, <2>2 DEF DiskOK, TreeShaped
  <2>5. QED
    BY <1>2, <1>3, <1>4, <2>1, <2>3, <2>4 DEF Advance
<1>6. CASE ~(IsFolder(Parent(p)) /\ ~ IsFolder(p))
  <2>1. disk' = disk /\ made' = made /\ job' = [job EXCEPT ![t] = <<>>]
    BY <1>2, <1>6 DEF WriteFile, GivesUp
  <2>2. QED
    BY <1>2, <1>3, <1>4, <2>1 DEF Advance, DiskOK, TreeShaped, TypeInv
<1>7. QED
  BY <1>5, <1>6

LEMMA AdvanceRemove ==
  ASSUME TypeInv, NEW t \in Threads, RemoveItem(t)
  PROVE  Advance(t)
<1>1. PICK p \in Paths : job[t] = Accessing(Access("remove", p, p))
  BY NextSteps DEF RemoveItem, Does, TypeInv, Changers
<1>2. Head(job[t]).from = p /\ job[t] # <<>> /\ Tail(job[t]) = Update
  BY <1>1, JobShapes, StepParts
<1>3. jobs' = jobs /\ seen' = seen /\ made' = made
  BY DEF RemoveItem
<1>4. Makes(Update) = 0 /\ Makes(<<>>) = 0
  BY MakesIs
<1>5. PICK S : /\ disk' = Without(disk, S) /\ TreeShaped(Without(disk, S))
               /\ \/ job' = [job EXCEPT ![t] = Tail(job[t])]
                  \/ job' = [job EXCEPT ![t] = <<>>]
  <2>1. \/ disk' = Without(disk, Below(p)) /\ job' = [job EXCEPT ![t] = Tail(job[t])]
        \/ \E S \in SUBSET Below(p) : /\ TreeShaped(Without(disk, S))
                                      /\ disk' = Without(disk, S)
                                      /\ job' = [job EXCEPT ![t] = <<>>]
    BY <1>2 DEF RemoveItem, GoesOn, GivesUp
  <2>2. TreeShaped(Without(disk, Below(p)))
    BY WithoutOK DEF TypeInv
  <2>3. QED
    BY <2>1, <2>2
<1>6. Without(disk, S) \in Disks
  BY WithoutOK DEF TypeInv
<1>7. \A r \in DOMAIN disk' : \E x \in DOMAIN disk : disk'[r] = disk[x]
  BY <1>5 DEF Without
<1>8. DiskOK'
  BY <1>5, <1>6 DEF DiskOK, TreeShaped
<1>9. QED
  BY <1>2, <1>3, <1>4, <1>5, <1>7, <1>8 DEF Advance

LEMMA AdvanceRename ==
  ASSUME TypeInv, NEW t \in Threads, RenameItem(t)
  PROVE  Advance(t)
<1>1. PICK p \in Paths, q \in Paths :
         job[t] = Accessing(Access("rename", p, q)) /\ Apart(p, q)
  BY NextSteps DEF RenameItem, Does, TypeInv
<1>2. Head(job[t]).from = p /\ Head(job[t]).to = q /\ job[t] # <<>> /\ Tail(job[t]) = Update
  BY <1>1, JobShapes, StepParts
<1>3. jobs' = jobs /\ seen' = seen /\ made' = made
  BY DEF RenameItem
<1>4. Makes(Update) = 0 /\ Makes(<<>>) = 0
  BY MakesIs
<1>5. CASE CanRename(p, q)
  <2>1. /\ disk' = Renamed(p, q) /\ job' = [job EXCEPT ![t] = Tail(job[t])]
        /\ DOMAIN Renamed(p, q) \subseteq Paths
    BY <1>2, <1>5 DEF RenameItem, GoesOn
  <2>2. /\ Renamed(p, q) \in Disks /\ TreeShaped(Renamed(p, q))
        /\ \A r \in DOMAIN Renamed(p, q) :
             \E s \in DOMAIN disk : Renamed(p, q)[r] = disk[s]
    BY <1>1, <1>5, <2>1, RenamedOK DEF TypeInv
  <2>3. DiskOK' /\ \A r \in DOMAIN disk' : \E x \in DOMAIN disk : disk'[r] = disk[x]
    BY <2>1, <2>2 DEF DiskOK, TreeShaped
  <2>4. QED
    BY <1>2, <1>3, <1>4, <2>1, <2>3 DEF Advance
<1>6. CASE ~ CanRename(p, q)
  <2>1. disk' = disk /\ job' = [job EXCEPT ![t] = <<>>]
    BY <1>2, <1>6 DEF RenameItem, GivesUp
  <2>2. QED
    BY <1>2, <1>3, <1>4, <2>1 DEF Advance, DiskOK, TreeShaped, TypeInv
<1>7. QED
  BY <1>5, <1>6

LEMMA AdvanceTree ==
  ASSUME TypeInv, NEW t \in Threads, Scan(t) \/ Read(t) \/ SendTree(t)
  PROVE  Advance(t)
<1>1. /\ disk' = disk /\ jobs' = jobs /\ seen' = seen /\ made' = made
      /\ job' = [job EXCEPT ![t] = Tail(job[t])]
      /\ NextStep(t) \in {"scan", "read", "send"}
  BY DEF Scan, Read, SendTree, GoesOn, Does, views
<1>2. job[t] # <<>> /\ Makes(Tail(job[t])) = 0
  <2>1. \/ job[t] = Update
        \/ \E W \in Audiences : job[t] = Reading(W) \/ job[t] = Sending(W)
    BY <1>1, NextSteps DEF TypeInv
  <2>2. CASE job[t] = Update
    BY <2>2, JobShapes, MakesIs
  <2>3. ASSUME NEW W \in Audiences, job[t] = Reading(W) \/ job[t] = Sending(W)
        PROVE  job[t] # <<>> /\ Makes(Tail(job[t])) = 0
    <3>1. Reading(W) # <<>> /\ Tail(Reading(W)) = Sending(W)
      BY JobShapes, Zenon
    <3>2. Sending(W) # <<>> /\ Tail(Sending(W)) = <<>>
      BY JobShapes, Zenon
    <3>3. Makes(Sending(W)) = 0 /\ Makes(<<>>) = 0
      BY MakesIs, Zenon
    <3>4. QED
      BY <2>3, <3>1, <3>2, <3>3, Zenon
  <2>4. QED
    BY <2>1, <2>2, <2>3
<1>3. DiskOK' /\ \A r \in DOMAIN disk' : \E x \in DOMAIN disk : disk'[r] = disk[x]
  BY <1>1 DEF DiskOK, TreeShaped, TypeInv
<1>4. QED
  BY <1>1, <1>2, <1>3 DEF Advance

LEMMA ScalarsThread ==
  ASSUME TypeInv, NEW t \in Threads, Thread(t)
  PROVE  Scalars'
<1>1. CASE MakeFolder(t) \/ MakeFolders(t) \/ WriteFile(t) \/ RenameItem(t)
  BY <1>1 DEF TypeInv, Scalars, MakeFolder, MakeFolders, WriteFile, RenameItem, Overtakes,
              views, panel
<1>2. CASE RemoveItem(t)
  <2>1. UNCHANGED <<ready, shown, wire, mode, item, sending>> /\ DOMAIN began' = Threads
    BY <1>2 DEF RemoveItem, Overtakes, views, panel
  <2>2. crossed' \in BOOLEAN
    BY <1>2, Zenon DEF RemoveItem, TypeInv, Scalars
  <2>3. QED
    BY <2>1, <2>2 DEF TypeInv, Scalars
<1>3. CASE Scan(t)
  <2>1. UNCHANGED <<ready, shown, wire, mode, sending>> /\ DOMAIN began' = Threads
    BY <1>3 DEF Scan
  <2>2. item' = <<>> \/ item' = item
    BY <1>3 DEF Scan
  <2>3. crossed' \in BOOLEAN
    BY <1>3, Zenon DEF Scan
  <2>4. QED
    BY <2>1, <2>2, <2>3 DEF TypeInv, Scalars
<1>4. CASE Read(t)
  <2>1. /\ UNCHANGED <<ready, shown, wire, mode, item, began, crossed>>
        /\ DOMAIN sending' = DOMAIN sending
    BY <1>4 DEF Read, views, panel
  <2>2. QED
    BY <2>1 DEF TypeInv, Scalars
<1>5. CASE SendTree(t)
  <2>1. /\ UNCHANGED <<ready, shown, mode, item, began>> /\ DOMAIN sending' = DOMAIN sending
        /\ DOMAIN wire' = DOMAIN wire
    BY <1>5 DEF SendTree, panel
  <2>2. crossed' \in BOOLEAN
    BY <1>5, Zenon DEF SendTree
  <2>3. QED
    BY <2>1, <2>2 DEF TypeInv, Scalars
<1>6. QED
  BY <1>1, <1>2, <1>3, <1>4, <1>5 DEF Thread

LEMMA AdvanceThread ==
  ASSUME BoundsAssumption, TypeInv, NEW t \in Threads, Thread(t)
  PROVE  Advance(t)
BY AdvanceFolder, AdvanceFolders, AdvanceFile, AdvanceRemove, AdvanceRename, AdvanceTree
DEF Thread

LEMMA TypeUpload ==
  ASSUME BoundsAssumption, TypeInv, NEW p \in FilePaths, ProcessFileUpload(p)
  PROVE  TypeInv'
<1>1. /\ job' = [job EXCEPT !["io"] = MakeWithFolder(p)] /\ "io" \in Threads /\ job["io"] = <<>>
      /\ jobs < MaxJobs /\ jobs' = jobs + 1
      /\ UNCHANGED <<disk, tree, shown, ready, wire, mode, item, sending, began, made, seen,
                     crossed>>
  BY DEF ProcessFileUpload, IoDoes, Idle, Threads, panel
<1>2. Jobs'
  BY <1>1, JobSet DEF TypeInv, IoShape
<1>3. Pending' = Pending + 1 /\ Pending \in 0..2
  <2>1. Makes(<<>>) = 0 /\ Makes(MakeWithFolder(p)) = 1
    BY MakesIs
  <2>2. /\ Pending' + Makes(job["io"]) = Pending + Makes(MakeWithFolder(p))
        /\ Pending' \in 0..2 /\ Pending \in 0..2
    BY <1>1, PendingSet DEF TypeInv
  <2>3. QED
    BY <1>1, <2>1, <2>2
<1>4. Counts'
  <2>1. PICK a \in 0..2 : a = Pending
    BY <1>3
  <2>2. jobs \in 0..MaxJobs /\ made \in Nat /\ seen \in 0..made /\ made + a <= jobs + 1
        /\ MaxJobs \in Nat
    BY <2>1 DEF TypeInv, Counts, BoundsAssumption
  <2>3. jobs' \in 0..MaxJobs
    BY <1>1, <2>2
  <2>4. \A m, j \in Nat : m + a <= j + 1 => m + (a + 1) <= (j + 1) + 1
    OBVIOUS
  <2>5. made' + Pending' <= jobs' + 1
    BY <1>1, <1>3, <2>1, <2>2, <2>4
  <2>6. made' \in Nat /\ seen' \in 0..made' /\ \A r \in DOMAIN disk' : disk'[r] <= made'
    BY <1>1, <2>2 DEF TypeInv, Counts
  <2>7. QED
    BY <2>3, <2>5, <2>6 DEF Counts
<1>5. Scalars' /\ DiskOK'
  BY <1>1 DEF TypeInv, Scalars, DiskOK, TreeShaped
<1>6. QED
  BY <1>2, <1>4, <1>5 DEF TypeInv

LEMMA TypeHandshake ==
  ASSUME BoundsAssumption, TypeInv, NEW g \in Guests, ProcessHandshake(g)
  PROVE  TypeInv'
<1>1. /\ job' = [job EXCEPT !["io"] = Reading({g})] /\ "io" \in Threads /\ job["io"] = <<>>
      /\ ready' = ready \cup {g}
      /\ UNCHANGED <<disk, tree, shown, wire, mode, item, sending, began, jobs, made, seen,
                     crossed>>
  BY DEF ProcessHandshake, IoDoes, Reading, Idle, Threads, panel
<1>2. Jobs'
  <2>1. {g} \in Audiences
    BY DEF Audiences
  <2>2. QED
    BY <1>1, <2>1, JobSet DEF TypeInv, IoShape
<1>3. Pending' = Pending
  <2>1. Makes(<<>>) = 0 /\ Makes(Reading({g})) = 0
    BY MakesIs
  <2>2. /\ Pending' + Makes(job["io"]) = Pending + Makes(Reading({g}))
        /\ Pending' \in 0..2 /\ Pending \in 0..2
    BY <1>1, PendingSet DEF TypeInv
  <2>3. QED
    BY <1>1, <2>1, <2>2
<1>4. Counts' /\ Scalars' /\ DiskOK'
  BY <1>1, <1>3 DEF TypeInv, Counts, Scalars, DiskOK, TreeShaped
<1>5. QED
  BY <1>2, <1>4 DEF TypeInv

\* A step of the panel or of a client that leaves storage and handlers alone.
LEMMA TypeAside ==
  ASSUME TypeInv, UNCHANGED <<disk, job, jobs, made, seen>>, Scalars'
  PROVE  TypeInv'
BY DEF TypeInv, Jobs, Counts, DiskOK, TreeShaped, Pending

LEMMA TypeStep == BoundsAssumption /\ TypeInv /\ [Next]_vars => TypeInv'
<1> SUFFICES ASSUME BoundsAssumption, TypeInv, [Next]_vars PROVE TypeInv'
  OBVIOUS
<1>1. CASE Click
  <2>1. CASE \E s : Started(s)
    BY <2>1, TypeUiDoes DEF Started
  <2>2. CASE /\ UNCHANGED <<disk, views, job, sending, began, jobs, made, seen, found, crossed>>
             /\ mode' \in Modes /\ item' \in Paths \cup {<<>>}
    <3>1. Scalars'
      BY <2>2 DEF TypeInv, Scalars, views
    <3>2. QED
      BY <2>2, <3>1, TypeAside
  <2>3. QED
    BY <1>1, <2>1, <2>2, Clicks
<1>2. CASE SetRootNode
  <2>1. /\ UNCHANGED <<disk, job, jobs, made, seen, shown, ready, sending, began>>
        /\ DOMAIN wire' = DOMAIN wire /\ item' = <<>> /\ (mode' = mode \/ mode' = "browse")
    BY <1>2 DEF SetRootNode
  <2>2. crossed' \in BOOLEAN
    BY <1>2, Zenon DEF SetRootNode
  <2>3. Scalars'
    BY <2>1, <2>2 DEF TypeInv, Scalars, Modes
  <2>4. QED
    BY <2>1, <2>3, TypeAside
<1>3. ASSUME NEW g \in Guests, GuestSetsRootNode(g) PROVE TypeInv'
  <2>1. /\ UNCHANGED <<disk, job, jobs, made, seen, ready, mode, item, sending, began, crossed>>
        /\ DOMAIN wire' = DOMAIN wire /\ DOMAIN shown' = DOMAIN shown
    BY <1>3 DEF GuestSetsRootNode, panel
  <2>2. Scalars'
    BY <2>1 DEF TypeInv, Scalars
  <2>3. QED
    BY <2>1, <2>2, TypeAside
<1>4. ASSUME NEW t \in Threads, Thread(t) PROVE TypeInv'
  BY <1>4, AdvanceThread, ScalarsThread, TypeAdvance
<1>5. CASE UNCHANGED vars
  <2>1. UNCHANGED <<disk, views, panel, job, sending, began, jobs, made, seen, found, crossed>>
    BY <1>5 DEF vars
  <2>2. Scalars'
    BY <2>1 DEF TypeInv, Scalars, views, panel
  <2>3. QED
    BY <2>1, <2>2, TypeAside
<1>6. QED
  BY <1>1, <1>2, <1>3, <1>4, <1>5, TypeUpload, TypeHandshake DEF Next

LEMMA Invariant == Spec => []TypeInv
<1>1. Init => TypeInv
  BY TypeInvInit, BoundsAssumption
<1>2. TypeInv /\ [Next]_vars => TypeInv'
  BY TypeStep, BoundsAssumption
<1>3. QED
  BY <1>1, <1>2, PTL DEF Spec

\* Every variable has its type: the storage is a tree, what a thread has yet to do is the
\* rest of one of the panel's or the server's handlers, and no more files are made than
\* operations and uploads have been counted (FileExplorerPanel.cpp, Server.cpp:390).
THEOREM TypeCorrect == Spec => []TypeOK
<1>1. TypeInv => TypeOK
  BY TypeInvImplies, BoundsAssumption
<1>2. QED
  BY <1>1, Invariant, PTL
-----------------------------------------------------------------------------
(* No file is replaced that was there when its place was found free *)

Free(q) == q \in DOMAIN disk => disk[q] = Folder \/ disk[q] > seen

\* Until the panel makes or renames it, what it checked can only have been taken by
\* something newer than the check.
Reserved ==
  /\ \A p, q : job["ui"] = Accessing(Access("create", p, q)) => Free(q)
  /\ \A p, q : job["ui"] = Accessing(Access("rename", p, q)) => q = p \/ Free(q)

LEMMA FreeStays ==
  ASSUME seen' = seen,
         \A r \in DOMAIN disk' : \/ disk'[r] = Folder \/ disk'[r] > seen
                                 \/ r \in DOMAIN disk /\ disk'[r] = disk[r]
  PROVE  \A q : Free(q) => Free(q)'
BY DEF Free

LEMMA ReservedStays ==
  ASSUME Reserved, job'["ui"] = job["ui"], \A q : Free(q) => Free(q)'
  PROVE  Reserved'
<1>1. \A p, q : job'["ui"] = Accessing(Access("create", p, q)) => Free(q)'
  BY DEF Reserved
<1>2. \A p, q : job'["ui"] = Accessing(Access("rename", p, q)) => q = p \/ Free(q)'
  BY DEF Reserved
<1>3. QED
  BY <1>1, <1>2 DEF Reserved, Accessing, Access, Update, Step

\* The io thread puts folders and new files where nothing or a file is.
LEMMA IoDisk ==
  ASSUME BoundsAssumption, TypeInv, Thread("io")
  PROVE  \A r \in DOMAIN disk' : \/ disk'[r] = Folder \/ disk'[r] > seen
                                 \/ r \in DOMAIN disk /\ disk'[r] = disk[r]
<1>1. "io" \in Threads /\ made \in Nat /\ seen \in 0..made
  BY DEF Threads, TypeInv, Counts
<1>2. CASE Scan("io") \/ Read("io") \/ SendTree("io")
  <2>1. disk' = disk
    BY <1>2 DEF Scan, Read, SendTree
  <2>2. QED
    BY <2>1
<1>3. CASE MakeFolders("io")
  <2>1. \/ disk' = disk \/ \E d : disk' = With(disk, d, Folder)
    BY <1>3 DEF MakeFolders
  <2>2. QED
    BY <2>1 DEF With
<1>4. CASE WriteFile("io")
  <2>1. \/ disk' = disk \/ \E p : disk' = With(disk, p, made + 1)
    BY <1>4 DEF WriteFile
  <2>2. made + 1 > seen
    BY <1>1
  <2>3. QED
    BY <2>1, <2>2 DEF With
<1>5. ~ MakeFolder("io") /\ ~ RemoveItem("io") /\ ~ RenameItem("io")
  BY <1>1, NextSteps DEF TypeInv, Changers, MakeFolder, RemoveItem, RenameItem, Does
<1>6. QED
  BY <1>2, <1>3, <1>4, <1>5 DEF Thread

LEMMA ReservedInit == Init => Reserved
<1> SUFFICES ASSUME Init PROVE Reserved
  OBVIOUS
<1>1. job["ui"] = <<>>
  BY DEF Init, Threads
<1>2. QED
  BY <1>1, JobShapes DEF Reserved

\* What remains of a handler of the panel is no check any more.
LEMMA UiGoesOn ==
  ASSUME Jobs, NEW s, s = <<>> \/ s = Tail(job["ui"]), job["ui"] # <<>>, NEW a,
         a.do \notin {"scan", "read", "send", "write"}
  PROVE  s # Accessing(a)
<1>1. \/ job["ui"] = Update \/ \E W : job["ui"] = Reading(W) \/ job["ui"] = Sending(W)
      \/ \E b : job["ui"] = Accessing(b)
      \/ \E p : job["ui"] = MakeWithFolder(p)
  BY DEF Jobs, UiShape
<1>2. \/ s = <<>> \/ s = Update \/ \E W : s = Reading(W) \/ s = Sending(W)
      \/ \E p : s = Accessing(Access("write", p, p))
  BY <1>1, JobShapes
<1>3. Head(Accessing(a)).do = a.do /\ Accessing(a) # <<>>
  BY JobShapes
<1>4. /\ Head(Update).do = "scan"
      /\ \A W : Head(Reading(W)).do = "read" /\ Head(Sending(W)).do = "send"
      /\ \A p : Head(Accessing(Access("write", p, p))).do = "write"
  BY JobShapes, StepParts
<1>5. QED
  BY <1>2, <1>3, <1>4

LEMMA ReservedStep == BoundsAssumption /\ TypeInv /\ Reserved /\ [Next]_vars => Reserved'
<1> SUFFICES ASSUME BoundsAssumption, TypeInv, Reserved, [Next]_vars PROVE Reserved'
  OBVIOUS
<1>1. ASSUME UNCHANGED <<disk, seen>>, job'["ui"] = job["ui"] PROVE Reserved'
  BY <1>1, FreeStays, ReservedStays
<1>2. DOMAIN job = Threads /\ "ui" # "io" /\ "ui" \in Threads /\ "io" \in Threads
  BY DEF TypeInv, Jobs, Threads
<1>3. CASE Click
  <2>1. ASSUME NEW s, Started(s),
               \A p, q : /\ s = Accessing(Access("create", p, q)) => ~ Exists(q)
                         /\ s = Accessing(Access("rename", p, q)) => ~ Exists(q) \/ q = p
        PROVE  Reserved'
    <3>1. job'["ui"] = s /\ disk' = disk
      BY <1>2, <2>1 DEF Started, UiDoes
    <3>2. \A q : ~ Exists(q) => Free(q)'
      BY <3>1 DEF Exists, Free
    <3>3. /\ \A p, q : job'["ui"] = Accessing(Access("create", p, q)) => Free(q)'
          /\ \A p, q : job'["ui"] = Accessing(Access("rename", p, q)) => q = p \/ Free(q)'
      BY <2>1, <3>1, <3>2
    <3>4. QED
      BY <3>3 DEF Reserved, Accessing, Access, Update, Step
  <2>2. CASE UNCHANGED <<disk, views, job, sending, began, jobs, made, seen, found, crossed>>
    BY <1>1, <2>2
  <2>3. QED
    BY <1>3, <2>1, <2>2, Clicks
<1>4. ASSUME NEW p \in FilePaths, ProcessFileUpload(p) PROVE Reserved'
  BY <1>1, <1>2, <1>4 DEF ProcessFileUpload, IoDoes
<1>5. ASSUME NEW g \in Guests, ProcessHandshake(g) PROVE Reserved'
  BY <1>1, <1>2, <1>5 DEF ProcessHandshake, IoDoes
<1>6. ASSUME NEW g \in Guests, GuestSetsRootNode(g) PROVE Reserved'
  BY <1>1, <1>6 DEF GuestSetsRootNode
<1>7. CASE SetRootNode
  BY <1>1, <1>7 DEF SetRootNode
<1>8. CASE Thread("io")
  <2>1. Advance("io")
    BY <1>2, <1>8, AdvanceThread
  <2>2. job'["ui"] = job["ui"] /\ seen' = seen
    BY <1>2, <2>1 DEF Advance
  <2>3. \A q : Free(q) => Free(q)'
    BY <1>8, <2>2, IoDisk, FreeStays
  <2>4. QED
    BY <2>2, <2>3, ReservedStays
<1>9. CASE Thread("ui")
  <2>1. Advance("ui")
    BY <1>2, <1>9, AdvanceThread
  <2>2. /\ job'["ui"] = <<>> \/ job'["ui"] = Tail(job["ui"])
        /\ job["ui"] # <<>>
    BY <1>2, <2>1 DEF Advance
  <2>3. ASSUME NEW do, do \notin {"scan", "read", "send", "write"}, NEW p, NEW q
        PROVE  job'["ui"] # Accessing(Access(do, p, q))
    <3>1. PICK a : a = Access(do, p, q) /\ a.do = do
      BY StepParts
    <3>2. PICK s : s = job'["ui"]
      OBVIOUS
    <3>3. QED
      BY <2>2, <2>3, <3>1, <3>2, UiGoesOn DEF TypeInv
  <2>4. QED
    BY <2>3 DEF Reserved, Accessing, Access, Update, Step
<1>10. CASE UNCHANGED vars
  BY <1>1, <1>10 DEF vars
<1>11. QED
  BY <1>3, <1>4, <1>5, <1>6, <1>7, <1>8, <1>9, <1>10 DEF Next, Threads

\* The panel makes a file.
LEMMA CreateKeeps ==
  ASSUME BoundsAssumption, TypeInv, Reserved, WriteFile("ui"), NextStep("ui") = "create"
  PROVE  Files(disk) \cap (1..seen) \subseteq Files(disk')
<1>1. PICK p \in Paths : job["ui"] = Accessing(Access("create", p, p))
  BY NextSteps DEF TypeInv, Threads, Changers
<1>2. Head(job["ui"]).to = p /\ Free(p)
  BY <1>1, JobShapes, StepParts DEF Reserved
<1>3. disk' = disk \/ disk' = With(disk, p, made + 1)
  BY <1>2 DEF WriteFile
<1>4. made \in Nat /\ seen \in 0..made /\ \A r \in DOMAIN disk : disk[r] \in Nat
  BY DiskIs DEF TypeInv, Counts, DiskOK, Values, Folder, Contents, BoundsAssumption
<1>5. ASSUME NEW x \in Files(disk) \cap (1..seen), disk' = With(disk, p, made + 1)
      PROVE  x \in Files(disk')
  <2>1. PICK r \in DOMAIN disk : x = disk[r] /\ x # Folder /\ x \in 1..seen
    BY <1>5 DEF Files
  <2>2. r # p
    BY <1>2, <1>4, <2>1 DEF Free
  <2>3. r \in DOMAIN disk' /\ disk'[r] = disk[r]
    BY <1>5, <2>2 DEF With
  <2>4. QED
    BY <2>1, <2>3 DEF Files
<1>6. QED
  BY <1>3, <1>5 DEF Files

\* ... or moves or renames what is selected.
LEMMA RenameKeeps ==
  ASSUME BoundsAssumption, TypeInv, Reserved, RenameItem("ui")
  PROVE  Files(disk) \cap (1..seen) \subseteq Files(disk')
<1>1. PICK p \in Paths, q \in Paths :
         job["ui"] = Accessing(Access("rename", p, q)) /\ Apart(p, q)
  BY NextSteps DEF TypeInv, Threads, RenameItem, Does
<1>2. /\ Head(job["ui"]).from = p /\ Head(job["ui"]).to = q
      /\ q = p \/ Free(q)
  BY <1>1, JobShapes, StepParts DEF Reserved
<1>3. \/ disk' = disk
      \/ /\ CanRename(p, q) /\ disk' = Renamed(p, q)
         /\ DOMAIN Renamed(p, q) \subseteq Paths
  BY <1>2 DEF RenameItem
<1>4. made \in Nat /\ seen \in 0..made /\ \A r \in DOMAIN disk : disk[r] \in Nat
  BY DiskIs DEF TypeInv, Counts, DiskOK, Values, Folder, Contents, BoundsAssumption
<1>5. ASSUME NEW x \in Files(disk) \cap (1..seen), CanRename(p, q), disk' = Renamed(p, q),
             DOMAIN Renamed(p, q) \subseteq Paths
      PROVE  x \in Files(disk')
  <2>1. PICK r \in DOMAIN disk : x = disk[r] /\ x # Folder /\ x \in 1..seen
    BY <1>5 DEF Files
  <2>2. r = q => p = q
    BY <1>2, <1>4, <2>1 DEF Free
  <2>3. \E s \in DOMAIN Renamed(p, q) : Renamed(p, q)[s] = disk[r]
    BY <1>5, <2>2, RenamedKeeps DEF TypeInv
  <2>4. QED
    BY <1>5, <2>1, <2>3 DEF Files
<1>6. QED
  BY <1>3, <1>5 DEF Files

LEMMA KeepsStep ==
  ASSUME BoundsAssumption, TypeInv, Reserved, Next, NextStep("ui") \in {"rename", "create"},
         job'["ui"] # job["ui"]
  PROVE  Files(disk) \cap (1..seen) \subseteq Files(disk')
<1>1. DOMAIN job = Threads /\ "ui" # "io" /\ "ui" \in Threads /\ "io" \in Threads
      /\ ~ Idle("ui")
  BY DEF TypeInv, Jobs, Threads, NextStep
<1>2. ~ Click
  <2>1. Click => \/ \E s : Started(s)
                 \/ UNCHANGED <<disk, views, job, sending, began, jobs, made, seen, found, crossed>>
    BY Clicks
  <2>2. QED
    BY <1>1, <2>1 DEF Started, Clickable
<1>3. ~ (\E p \in FilePaths : ProcessFileUpload(p))
  BY <1>1 DEF ProcessFileUpload, IoDoes
<1>4. ~ (\E g \in Guests : ProcessHandshake(g) \/ GuestSetsRootNode(g))
  BY <1>1 DEF ProcessHandshake, IoDoes, GuestSetsRootNode
<1>5. ~ SetRootNode
  BY DEF SetRootNode
<1>6. ~ Thread("io")
  <2>1. SUFFICES ASSUME Thread("io") PROVE FALSE
    OBVIOUS
  <2>2. Advance("io")
    BY <1>1, <2>1, AdvanceThread
  <2>3. QED
    BY <1>1, <2>2 DEF Advance
<1>7. Thread("ui")
  BY <1>2, <1>3, <1>4, <1>5, <1>6 DEF Next, Threads
<1>8. RenameItem("ui") \/ (WriteFile("ui") /\ NextStep("ui") = "create")
  BY <1>7 DEF Thread, MakeFolder, MakeFolders, WriteFile, RemoveItem, RenameItem, Scan, Read,
              SendTree, Does
<1>9. QED
  BY <1>8, CreateKeeps, RenameKeeps

LEMMA ReservedAlways == Spec => [](TypeInv /\ Reserved)
<1>1. Init => Reserved
  BY ReservedInit
<1>2. TypeInv /\ Reserved /\ [Next]_vars => Reserved'
  BY ReservedStep, BoundsAssumption
<1>3. QED
  BY <1>1, <1>2, Invariant, PTL DEF Spec

\* A move, a rename and a new file destroy no file that was there when the panel found the
\* target free, whatever the io thread stores in between; what is under a folder that
\* moves goes with it (FileExplorerPanel.cpp:727, :846, :915).
THEOREM FilesKept == Spec => NothingReplaced
<1> DEFINE A == (NextStep("ui") \in {"rename", "create"} /\ job'["ui"] # job["ui"])
                  => Files(disk) \intersect (1..seen) \subseteq Files(disk')
<1>1. TypeInv /\ Reserved /\ [Next]_vars => [A]_vars
  BY KeepsStep, BoundsAssumption
<1>2. NothingReplaced <=> [][A]_vars
  BY DEF NothingReplaced
<1> HIDE DEF A
<1>3. QED
  BY <1>1, <1>2, ReservedAlways, PTL DEF Spec
-----------------------------------------------------------------------------
(* What the panels show *)

Trees == Disks \cup {Torn}

\* What is sent are trees.
Sent == /\ tree \in Trees
        /\ \A t \in Threads : sending[t] \in Trees /\ began[t] \in Trees
        /\ \A c \in All : wire[c] \in Seq(Trees)

LEMMA NoTreeIs == NoTree \in Trees
<1>1. {} \in SUBSET Paths /\ NoTree \in [{} -> Values]
  BY DEF NoTree
<1>2. QED
  BY <1>1, IsDisk DEF Trees

LEMMA LastOfAppend ==
  ASSUME NEW s \in Seq(Trees), NEW v \in Trees
  PROVE  /\ Append(s, v) \in Seq(Trees) /\ Append(s, v) # <<>>
         /\ Last(Append(s, v)) = v
<1>1. /\ Append(s, v) \in Seq(Trees) /\ Len(Append(s, v)) = Len(s) + 1
      /\ Append(s, v)[Len(s) + 1] = v /\ Append(s, v) # <<>>
  BY AppendProperties
<1>2. QED
  BY <1>1 DEF Last

LEMMA LastOfTail ==
  ASSUME NEW s \in Seq(Trees), s # <<>>
  PROVE  /\ Tail(s) \in Seq(Trees) /\ Head(s) \in Trees
         /\ Tail(s) # <<>> => Last(Tail(s)) = Last(s)
         /\ Tail(s) = <<>> => Head(s) = Last(s)
<1>1. /\ Tail(s) \in Seq(Trees) /\ Len(Tail(s)) = Len(s) - 1
      /\ \A i \in 1..(Len(s) - 1) : Tail(s)[i] = s[i + 1]
      /\ Head(s) = s[1] /\ Head(s) \in Trees
  BY HeadTailProperties
<1>2. Len(s) \in Nat /\ Len(s) # 0
  BY LenProperties, EmptySeq
<1>3. PICK n \in Nat : Len(s) = n + 1
  <2>1. \A m \in Nat : m # 0 => \E n \in Nat : m = n + 1
    <3>1. ASSUME NEW m \in Nat, m # 0 PROVE m - 1 \in Nat /\ m = (m - 1) + 1
      BY <3>1
    <3>2. QED
      BY <3>1
  <2>2. QED
    BY <1>2, <2>1
<1>4. Len(Tail(s)) = n
  BY <1>1, <1>3
<1>5. ASSUME Tail(s) # <<>> PROVE Last(Tail(s)) = Last(s)
  <2>1. n # 0
    BY <1>1, <1>4, <1>5, EmptySeq
  <2>2. Tail(s)[n] = s[n + 1]
    BY <1>1, <1>3, <2>1
  <2>3. QED
    BY <1>3, <1>4, <2>2 DEF Last
<1>6. ASSUME Tail(s) = <<>> PROVE Head(s) = Last(s)
  <2>1. n = 0
    BY <1>1, <1>4, <1>6, EmptySeq
  <2>2. QED
    BY <1>1, <1>3, <2>1 DEF Last
<1>7. QED
  BY <1>1, <1>5, <1>6

\* A handler is about to refresh, or is about to send to c what a refresh has found.
Refreshes(j) == \E t \in Threads : j[t] = Update
Promised(j, c) == \E t \in Threads : \E W \in Audiences :
                    c \in W /\ (j[t] = Reading(W) \/ j[t] = Sending(W))

\* The handler of t has made a file's folder and will make the file.
Stores(t) == \E p \in FilePaths : /\ job[t] = Accessing(Access("write", p, p))
                                  /\ IsFolder(Parent(p)) /\ ~ IsFolder(p)

Covered == found = disk \/ Refreshes(job) \/ \E t \in Threads : Stores(t)

\* What c shows once all that is on its way to it has arrived.
Latest(c) ==
  IF wire[c] # <<>> THEN Last(wire[c]) ELSE IF c = Host THEN tree ELSE shown[c]

Known == \A c \in ready \cup {Host} : Latest(c) = found \/ Promised(job, c)

\* What overtakes a scan is refreshed by the other thread later.
Overtaken(t) == began[t] # disk => job[Other(t)] = Update \/ Stores(Other(t))

\* Only who is about to scan has begun to.
Fresh == \A t \in Threads : NextStep(t) # "scan" => began[t] = disk

Views == Fresh /\ (~ crossed => Covered /\ Known /\ \A t \in Threads : Overtaken(t))

LEMMA Others ==
  ASSUME NEW t \in Threads
  PROVE  /\ Other(t) \in Threads /\ Other(t) # t
         /\ \A u \in Threads : u # t => Other(u) = t
BY DEF Other, Threads

LEMMA PromisesKept ==
  ASSUME Jobs, NEW t \in Threads, NEW s, job' = [job EXCEPT ![t] = s],
         NextStep(t) \notin {"read", "send"}
  PROVE  \A c : Promised(job, c) => Promised(job', c)
<1>1. job'[t] = s /\ \A u \in Threads : u # t => job'[u] = job[u]
  BY DEF Jobs
<1>2. \A W : job[t] # Reading(W) /\ job[t] # Sending(W)
  BY JobShapes, StepParts DEF NextStep, Idle
<1>3. QED
  BY <1>1, <1>2 DEF Promised

LEMMA RefreshesKept ==
  ASSUME Jobs, NEW t \in Threads, NEW s, job' = [job EXCEPT ![t] = s], NextStep(t) # "scan"
  PROVE  Refreshes(job) => Refreshes(job')
<1>1. job'[t] = s /\ \A u \in Threads : u # t => job'[u] = job[u]
  BY DEF Jobs
<1>2. job[t] # Update
  BY JobShapes, StepParts DEF NextStep, Idle
<1>3. QED
  BY <1>1, <1>2 DEF Refreshes

LEMMA StoresNext == ASSUME NEW t \in Threads, Stores(t) PROVE NextStep(t) = "write"
<1>1. PICK p \in FilePaths : job[t] = Accessing(Access("write", p, p))
  BY DEF Stores
<1>2. QED
  BY <1>1, JobShapes, StepParts DEF NextStep, Idle

LEMMA StoresKept ==
  ASSUME NEW u \in Threads, Stores(u), job'[u] = job[u], disk' = disk
  PROVE  Stores(u)'
<1>1. \A p : IsFolder(p)' <=> IsFolder(p)
  BY DEF IsFolder, Exists
<1>2. PICK p \in FilePaths : /\ job[u] = Accessing(Access("write", p, p))
                             /\ IsFolder(Parent(p)) /\ ~ IsFolder(p)
  BY DEF Stores
<1>3. /\ job'[u] = Accessing(Access("write", p, p))
      /\ IsFolder(Parent(p))' /\ ~ IsFolder(p)'
  BY <1>1, <1>2
<1>4. QED
  BY <1>3 DEF Stores

\* Nothing but a job changes, or the storage too in a way that is covered.
LEMMA ViewsCarry ==
  ASSUME Views, ~ crossed' => ~ crossed, UNCHANGED <<tree, shown, wire, found>>,
         \A c : Promised(job, c) => Promised(job', c),
         ~ crossed' /\ Covered => Covered',
         \A c \in ready' : c \in ready \/ Promised(job', c),
         Fresh',
         ~ crossed' /\ (\A u \in Threads : Overtaken(u)) => \A u \in Threads : Overtaken(u)'
  PROVE  Views'
<1>1. \A c : Latest(c)' = Latest(c)
  BY DEF Latest
<1>2. Known => Known'
  BY <1>1 DEF Known
<1>3. ~ crossed' => Covered' /\ Known' /\ \A u \in Threads : Overtaken(u)'
  BY <1>2 DEF Views
<1>4. QED
  BY <1>3 DEF Views

\* The storage stays as it is.
LEMMA SameDisk ==
  ASSUME TypeInv, NEW t \in Threads, NEW s, job' = [job EXCEPT ![t] = s], NextStep(t) # "scan",
         UNCHANGED <<disk, found>>, ~ Stores(t)
  PROVE  Covered => Covered'
<1>1. Refreshes(job) => Refreshes(job')
  BY RefreshesKept DEF TypeInv
<1>2. ASSUME NEW u \in Threads, Stores(u) PROVE Stores(u)'
  <2>1. u # t
    BY <1>2
  <2>2. job'[u] = job[u]
    BY <2>1 DEF TypeInv, Jobs
  <2>3. QED
    BY <1>2, <2>2, StoresKept
<1>3. QED
  BY <1>1, <1>2 DEF Covered

\* The storage stays as it is, and a thread that is not about to scan does something else.
LEMMA SameScan ==
  ASSUME TypeInv, Views, NEW t \in Threads, NEW s, job' = [job EXCEPT ![t] = s],
         NextStep(t) # "scan", ~ Stores(t), UNCHANGED <<disk, began>>
  PROVE  /\ Fresh'
         /\ (\A u \in Threads : Overtaken(u)) => \A u \in Threads : Overtaken(u)'
<1>1. \A u \in Threads : u # t => job'[u] = job[u]
  BY DEF TypeInv, Jobs
<1>2. began[t] = disk /\ Fresh
  BY DEF Views, Fresh
<1>3. ASSUME NEW u \in Threads, NextStep(u)' # "scan" PROVE (began[u] = disk)'
  <2>1. CASE u = t
    BY <1>2, <2>1
  <2>2. CASE u # t
    <3>1. NextStep(u)' = NextStep(u)
      BY <1>1, <2>2 DEF NextStep, Idle
    <3>2. QED
      BY <1>2, <1>3, <3>1 DEF Fresh
  <2>3. QED
    BY <2>1, <2>2
<1>4. Fresh'
  BY <1>3 DEF Fresh
<1>5. ASSUME NEW u \in Threads, Overtaken(u) PROVE Overtaken(u)'
  <2>1. began[u] = disk
    <3>1. CASE u = t
      BY <1>2, <3>1
    <3>2. CASE u # t
      <4>1. Other(u) = t /\ job[t] # Update
        BY <3>2, Others, JobShapes, StepParts DEF NextStep, Idle
      <4>2. QED
        BY <1>5, <4>1 DEF Overtaken
    <3>3. QED
      BY <3>1, <3>2
  <2>2. (began[u] = disk)'
    BY <2>1
  <2>3. QED
    BY <2>2 DEF Overtaken
<1>6. QED
  BY <1>4, <1>5

\* A step on the storage overtakes the scan of the other thread, if that has begun.
LEMMA ScanOvertaken ==
  ASSUME TypeInv, Views, NEW t \in Threads, NEW s, job' = [job EXCEPT ![t] = s],
         NextStep(t) # "scan", Overtakes(t)
  PROVE  /\ Fresh'
         /\ /\ \A u \in Threads : Overtaken(u)
            /\ s = Update \/ Stores(t)' \/ (disk' = disk /\ ~ Stores(t))
            => \A u \in Threads : Overtaken(u)'
<1>1. job'[t] = s /\ \A u \in Threads : u # t => job'[u] = job[u]
  BY DEF TypeInv, Jobs
<1>2. \A u \in Threads :
        began'[u] = IF u # t /\ NextStep(u) = "scan" THEN began[u] ELSE disk'
  BY DEF Overtakes, Does
<1>3. ASSUME NEW u \in Threads, NextStep(u)' # "scan" PROVE (began[u] = disk)'
  <2>1. u # t => NextStep(u)' = NextStep(u)
    BY <1>1 DEF NextStep, Idle
  <2>2. QED
    BY <1>2, <1>3, <2>1
<1>4. Fresh'
  BY <1>3 DEF Fresh
<1>5. ASSUME NEW u \in Threads, Overtaken(u),
             s = Update \/ Stores(t)' \/ (disk' = disk /\ ~ Stores(t))
      PROVE  Overtaken(u)'
  <2>1. CASE u = t
    <3>1. (began[u] = disk)'
      BY <1>2, <2>1
    <3>2. QED
      BY <3>1 DEF Overtaken
  <2>2. CASE u # t /\ (s = Update \/ Stores(t)')
    <3>1. Other(u) = t
      BY <2>2, Others
    <3>2. job'[Other(u)] = Update \/ Stores(Other(u))'
      BY <1>1, <2>2, <3>1
    <3>3. QED
      BY <3>2 DEF Overtaken
  <2>3. CASE u # t /\ disk' = disk /\ ~ Stores(t)
    <3>1. Other(u) = t /\ job[t] # Update
      BY <2>3, Others, JobShapes, StepParts DEF NextStep, Idle
    <3>2. began[u] = disk
      BY <1>5, <2>3, <3>1 DEF Overtaken
    <3>3. (began[u] = disk)'
      BY <1>2, <2>3, <3>2
    <3>4. QED
      BY <3>3 DEF Overtaken
  <2>4. QED
    BY <1>5, <2>1, <2>2, <2>3
<1>6. QED
  BY <1>4, <1>5

\* A step that may change the storage: what it changes is refreshed later.
LEMMA ViewsDisk ==
  ASSUME TypeInv, Views, NEW t \in Threads, NEW s, job' = [job EXCEPT ![t] = s],
         NextStep(t) \notin {"scan", "read", "send"}, Overtakes(t),
         UNCHANGED <<tree, shown, ready, wire, found>>,
         ~ crossed' => ~ crossed,
         ~ crossed' => s = Update \/ Stores(t)' \/ (disk' = disk /\ ~ Stores(t))
  PROVE  Views'
<1>1. \A c : Promised(job, c) => Promised(job', c)
  BY PromisesKept DEF TypeInv
<1>2. ASSUME ~ crossed', Covered PROVE Covered'
  <2>1. CASE s = Update
    <3>1. job'[t] = Update
      BY <2>1 DEF TypeInv, Jobs
    <3>2. Refreshes(job')
      BY <3>1 DEF Refreshes
    <3>3. QED
      BY <3>2 DEF Covered
  <2>2. CASE Stores(t)'
    BY <2>2 DEF Covered
  <2>3. CASE disk' = disk /\ ~ Stores(t)
    BY <1>2, <2>3, SameDisk
  <2>4. QED
    BY <1>2, <2>1, <2>2, <2>3
<1>3. /\ Fresh'
      /\ ~ crossed' /\ (\A u \in Threads : Overtaken(u)) => \A u \in Threads : Overtaken(u)'
  BY ScanOvertaken
<1>4. QED
  BY <1>1, <1>2, <1>3, ViewsCarry

LEMMA ViewsFolder ==
  ASSUME TypeInv, Views, NEW t \in Threads, MakeFolder(t)
  PROVE  Views'
<1>1. PICK p \in Paths : job[t] = Accessing(Access("mkdir", p, p))
  BY NextSteps DEF MakeFolder, Does, TypeInv, Changers
<1>2. Tail(job[t]) = Update /\ ~ Stores(t) /\ NextStep(t) = "mkdir"
  BY <1>1, JobShapes, StoresNext DEF MakeFolder, Does, TypeInv, Changers
<1>3. UNCHANGED <<tree, shown, ready, wire, found, crossed>> /\ Overtakes(t)
  BY DEF MakeFolder, views
<1>4. \/ job' = [job EXCEPT ![t] = Update]
      \/ job' = [job EXCEPT ![t] = <<>>] /\ disk' = disk
  BY <1>2 DEF MakeFolder, GoesOn, GivesUp
<1>5. PICK s : job' = [job EXCEPT ![t] = s] /\ (s = Update \/ disk' = disk)
  BY <1>4
<1>6. QED
  BY <1>2, <1>3, <1>5, ViewsDisk

LEMMA ViewsRename ==
  ASSUME TypeInv, Views, NEW t \in Threads, RenameItem(t)
  PROVE  Views'
<1>1. PICK p \in Paths, q \in Paths : job[t] = Accessing(Access("rename", p, q))
  BY NextSteps DEF RenameItem, Does, TypeInv
<1>2. Tail(job[t]) = Update /\ ~ Stores(t) /\ NextStep(t) = "rename"
  BY <1>1, JobShapes, StoresNext DEF RenameItem, Does, TypeInv
<1>3. UNCHANGED <<tree, shown, ready, wire, found, crossed>> /\ Overtakes(t)
  BY DEF RenameItem, views
<1>4. \/ job' = [job EXCEPT ![t] = Update]
      \/ job' = [job EXCEPT ![t] = <<>>] /\ disk' = disk
  BY <1>2 DEF RenameItem, GoesOn, GivesUp
<1>5. PICK s : job' = [job EXCEPT ![t] = s] /\ (s = Update \/ disk' = disk)
  BY <1>4
<1>6. QED
  BY <1>2, <1>3, <1>5, ViewsDisk

\* A deletion that fails halfway is not covered, one that deletes nothing is.
LEMMA ViewsRemove ==
  ASSUME TypeInv, Views, NEW t \in Threads, RemoveItem(t)
  PROVE  Views'
<1>1. PICK p \in Paths : job[t] = Accessing(Access("remove", p, p))
  BY NextSteps DEF RemoveItem, Does, TypeInv, Changers
<1>2. Tail(job[t]) = Update /\ ~ Stores(t) /\ NextStep(t) = "remove"
  BY <1>1, JobShapes, StoresNext DEF RemoveItem, Does, TypeInv, Changers
<1>3. UNCHANGED <<tree, shown, ready, wire, found>> /\ Overtakes(t)
  BY DEF RemoveItem, views
<1>4. Without(disk, {}) = disk
  <2>1. disk \in [DOMAIN disk -> Values]
    BY DiskIs DEF TypeInv, DiskOK
  <2>2. QED
    BY <2>1 DEF Without
<1>5. /\ ~ crossed' => ~ crossed
      /\ \/ job' = [job EXCEPT ![t] = Update]
         \/ job' = [job EXCEPT ![t] = <<>>] /\ (~ crossed' => disk' = disk)
  <2>1. CASE GoesOn(t) /\ UNCHANGED crossed
    BY <1>2, <2>1 DEF GoesOn
  <2>2. ASSUME NEW S, disk' = Without(disk, S), GivesUp(t), crossed' = (crossed \/ S # {})
        PROVE  /\ ~ crossed' => ~ crossed
               /\ job' = [job EXCEPT ![t] = <<>>] /\ (~ crossed' => disk' = disk)
    <3>1. ~ crossed' => ~ crossed /\ S = {}
      BY <2>2, Zenon
    <3>2. job' = [job EXCEPT ![t] = <<>>]
      BY <2>2 DEF GivesUp
    <3>3. QED
      BY <1>4, <2>2, <3>1, <3>2
  <2>3. \/ GoesOn(t) /\ UNCHANGED crossed
        \/ \E S : disk' = Without(disk, S) /\ GivesUp(t) /\ crossed' = (crossed \/ S # {})
    BY Zenon DEF RemoveItem
  <2>4. QED
    BY <2>1, <2>2, <2>3
<1>6. PICK s : job' = [job EXCEPT ![t] = s] /\ (s = Update \/ (~ crossed' => disk' = disk))
  BY <1>5
<1>7. QED
  BY <1>2, <1>3, <1>5, <1>6, ViewsDisk

\* A file is stored, unless its folder has gone, and then so has what was not covered by
\* another refresh.
LEMMA ViewsFile ==
  ASSUME TypeInv, Views, NEW t \in Threads, WriteFile(t)
  PROVE  Views'
<1>1. PICK p \in Paths : \/ job[t] = Accessing(Access("write", p, p))
                         \/ job[t] = Accessing(Access("create", p, p))
  BY NextSteps DEF WriteFile, Does, TypeInv, Changers
<1>2. Head(job[t]).to = p /\ Tail(job[t]) = Update /\ NextStep(t) \in {"write", "create"}
  BY <1>1, JobShapes, StepParts DEF WriteFile, Does
<1>3. UNCHANGED <<tree, shown, ready, wire, found, crossed>> /\ Overtakes(t)
  BY DEF WriteFile, views
<1>4. CASE IsFolder(Parent(p)) /\ ~ IsFolder(p)
  <2>1. job' = [job EXCEPT ![t] = Update]
    BY <1>2, <1>4 DEF WriteFile, GoesOn
  <2>2. QED
    BY <1>2, <1>3, <2>1, ViewsDisk
<1>5. CASE ~(IsFolder(Parent(p)) /\ ~ IsFolder(p))
  <2>1. job' = [job EXCEPT ![t] = <<>>] /\ disk' = disk
    BY <1>2, <1>5 DEF WriteFile, GivesUp
  <2>2. ~ Stores(t)
    <3>1. SUFFICES ASSUME Stores(t) PROVE FALSE
      OBVIOUS
    <3>2. PICK q \in FilePaths : /\ job[t] = Accessing(Access("write", q, q))
                                 /\ IsFolder(Parent(q)) /\ ~ IsFolder(q)
      BY <3>1 DEF Stores
    <3>3. Head(job[t]).to = q
      BY <3>2, JobShapes, StepParts
    <3>4. QED
      BY <1>2, <1>5, <3>2, <3>3
  <2>3. QED
    BY <1>2, <1>3, <2>1, <2>2, ViewsDisk
<1>6. QED
  BY <1>4, <1>5

LEMMA ViewsFolders ==
  ASSUME TypeInv, Views, NEW t \in Threads, MakeFolders(t)
  PROVE  Views'
<1>1. NextStep(t) = "mkdirs" /\ \E p \in FilePaths : job[t] = MakeWithFolder(p)
  BY NextSteps DEF MakeFolders, Does, TypeInv
<1>2. PICK p \in FilePaths : job[t] = MakeWithFolder(p)
  BY <1>1
<1>3. /\ Head(job[t]).to = p /\ Tail(job[t]) = Accessing(Access("write", p, p))
      /\ p \in Paths
  BY <1>2, JobShapes, StepParts DEF FilePaths
<1>4. UNCHANGED <<tree, shown, ready, wire, found, crossed>> /\ Overtakes(t)
  BY DEF MakeFolders, views
<1>5. PICK s : /\ s = Accessing(Access("write", p, p))
               /\ job' = [job EXCEPT ![t] = s]
  BY <1>3 DEF MakeFolders, GoesOn
<1> DEFINE d == Parent(p)
<1>6. CASE d = <<>> \/ Exists(d)
  <2>1. disk' = disk
    BY <1>3, <1>6 DEF MakeFolders
  <2>2. ~ Stores(t)
    BY <1>1, StoresNext
  <2>3. QED
    BY <1>1, <1>4, <1>5, <2>1, <2>2, ViewsDisk
<1>7. CASE ~(d = <<>> \/ Exists(d))
  <2>1. disk' = With(disk, d, Folder)
    BY <1>3, <1>7 DEF MakeFolders
  <2>2. d \in Tops /\ p \in Subs
    BY <1>3, <1>7, TopPath, SubPath, Levels
  <2>3. p \notin DOMAIN disk /\ p # d /\ p # <<>>
    <3>1. p \in DOMAIN disk => d \in DOMAIN disk
      BY <2>2, ShapedIs DEF TypeInv, DiskOK
    <3>2. QED
      BY <1>7, <2>2, <3>1, SubPath DEF Exists
  <2> HIDE DEF d
  <2>4. d \in DOMAIN disk' /\ disk'[d] = Folder /\ p \notin DOMAIN disk'
    BY <2>1, <2>3 DEF With
  <2>5. (IsFolder(d) /\ ~ IsFolder(p))'
    BY <2>3, <2>4 DEF IsFolder, Exists
  <2>6. job'[t] = Accessing(Access("write", p, p))
    BY <1>5 DEF TypeInv, Jobs
  <2>7. Stores(t)'
    BY <2>5, <2>6 DEF Stores, d
  <2>8. QED
    BY <1>1, <1>4, <1>5, <2>7, ViewsDisk
<1>8. QED
  BY <1>6, <1>7

\* A refresh has found the storage as it is, or is followed by that of what has overtaken
\* it, and is told to everybody later.
LEMMA ViewsScan ==
  ASSUME TypeInv, Views, NEW t \in Threads, Scan(t)
  PROVE  Views'
<1>1. job[t] = Update
  BY NextSteps DEF Scan, Does, TypeInv
<1>2. job'[t] = Reading(All) /\ \A u \in Threads : u # t => job'[u] = job[u]
  <2>1. job' = [job EXCEPT ![t] = Reading(All)]
    BY <1>1, JobShapes DEF Scan, GoesOn
  <2>2. QED
    BY <2>1 DEF TypeInv, Jobs
<1>3. found' = tree' /\ disk' = disk /\ \A u \in Threads : began'[u] = disk
  BY DEF Scan
<1>4. \A c \in All : Promised(job', c)
  BY <1>2 DEF Promised, Audiences
<1>5. ready' \cup {Host} \subseteq All
  BY DEF Scan, TypeInv, Scalars, All
<1>6. Known'
  BY <1>4, <1>5 DEF Known
<1>7. Fresh' /\ \A u \in Threads : Overtaken(u)'
  <2>1. \A u \in Threads : (began[u] = disk)'
    BY <1>3
  <2>2. QED
    BY <2>1 DEF Fresh, Overtaken
<1>8. ASSUME ~ crossed' PROVE tree' \in Listings(t) /\ (began[t] # disk => ~ crossed)
  <2>1. PICK spoilt : /\ tree' \in IF spoilt THEN {Torn} ELSE Listings(t)
                      /\ crossed' = \/ spoilt
                                    \/ crossed /\ ~ (/\ Idle(Other(t)) /\ began[t] = disk
                                                     /\ \A c \in DOMAIN wire : wire[c] = <<>>)
    BY Zenon DEF Scan
  <2>2. ~ spoilt /\ (began[t] # disk => ~ crossed)
    BY <1>8, <2>1, Zenon
  <2>3. QED
    BY <2>1, <2>2
<1>9. ASSUME ~ crossed' PROVE Covered'
  <2>1. CASE began[t] = disk
    BY <1>3, <1>8, <1>9, <2>1 DEF Listings, Covered
  <2>2. CASE began[t] # disk
    <3>1. Other(t) \in Threads /\ job'[Other(t)] = job[Other(t)]
      BY <1>2, Others
    <3>2. job[Other(t)] = Update \/ Stores(Other(t))
      BY <1>8, <1>9, <2>2 DEF Views, Overtaken
    <3>3. CASE job[Other(t)] = Update
      <4>1. Refreshes(job')
        BY <3>1, <3>3 DEF Refreshes
      <4>2. QED
        BY <4>1 DEF Covered
    <3>4. CASE Stores(Other(t))
      <4>1. PICK u \in Threads : u = Other(t)
        BY <3>1
      <4>2. Stores(u)'
        BY <1>3, <3>1, <3>4, <4>1, StoresKept
      <4>3. QED
        BY <4>2 DEF Covered
    <3>5. QED
      BY <3>2, <3>3, <3>4
  <2>3. QED
    BY <2>1, <2>2
<1>10. QED
  BY <1>6, <1>7, <1>9 DEF Views

LEMMA ViewsRead ==
  ASSUME TypeInv, Views, NEW t \in Threads, Read(t)
  PROVE  Views'
<1>1. PICK W \in Audiences : job[t] = Reading(W)
  BY NextSteps DEF Read, Does, TypeInv
<1>2. PICK s : s = Sending(W) /\ job' = [job EXCEPT ![t] = s]
  BY <1>1, JobShapes DEF Read, GoesOn
<1>3. job'[t] = Sending(W) /\ \A u \in Threads : u # t => job'[u] = job[u]
  BY <1>2 DEF TypeInv, Jobs
<1>4. /\ Head(Reading(W)).do = "read"
      /\ \A V : Head(Sending(V)).do = "send" /\ Head(Sending(V)).whom = V
  BY JobShapes, StepParts
<1>5. ASSUME NEW c, Promised(job, c) PROVE Promised(job', c)
  <2>1. PICK u \in Threads, V \in Audiences :
           c \in V /\ (job[u] = Reading(V) \/ job[u] = Sending(V))
    BY <1>5 DEF Promised
  <2>2. CASE u = t
    <3>1. W = V
      BY <1>1, <2>1, <2>2, <1>4, JobShapes
    <3>2. QED
      BY <1>3, <2>1, <3>1 DEF Promised
  <2>3. CASE u # t
    BY <1>3, <2>1, <2>3 DEF Promised
  <2>4. QED
    BY <2>2, <2>3
<1>6. UNCHANGED <<disk, tree, shown, ready, wire, began, found, crossed>>
  BY DEF Read, views
<1>7. NextStep(t) = "read"
  BY DEF Read, Does
<1>8. ~ Stores(t)
  BY <1>7, StoresNext
<1>9. Covered => Covered'
  BY <1>2, <1>6, <1>7, <1>8, SameDisk
<1>10. /\ Fresh'
       /\ (\A u \in Threads : Overtaken(u)) => \A u \in Threads : Overtaken(u)'
  BY <1>2, <1>6, <1>7, <1>8, SameScan
<1>11. QED
  BY <1>5, <1>6, <1>9, <1>10, ViewsCarry

\* Whoever is sent another tree than the last refresh has found spoils the agreement.
LEMMA ViewsSend ==
  ASSUME TypeInv, Sent, Views, NEW t \in Threads, SendTree(t)
  PROVE  Views'
<1>1. PICK W \in Audiences : job[t] = Sending(W)
  BY NextSteps DEF SendTree, Does, TypeInv
<1>2. PICK s : s = <<>> /\ job' = [job EXCEPT ![t] = s]
  BY <1>1, JobShapes DEF SendTree, GoesOn
<1>3. job'[t] = <<>> /\ \A u \in Threads : u # t => job'[u] = job[u]
  BY <1>2 DEF TypeInv, Jobs
<1>4. /\ Head(Sending(W)).do = "send" /\ Head(Sending(W)).whom = W
      /\ \A V : Head(Sending(V)).whom = V /\ Head(Reading(V)).do = "read"
  BY JobShapes, StepParts
<1>5. UNCHANGED <<disk, tree, shown, ready, began, found>>
  BY DEF SendTree
<1>6. ~ crossed' => ~ crossed /\ sending[t] = found
  BY Zenon DEF SendTree
<1>7. /\ DOMAIN wire' = DOMAIN wire /\ DOMAIN wire = All
      /\ \A c \in All : wire'[c] = IF c \in W \cap (ready \cup {Host})
                                   THEN Append(wire[c], sending[t]) ELSE wire[c]
  BY <1>1, <1>4 DEF SendTree, TypeInv, Scalars
<1>8. NextStep(t) = "send"
  BY DEF SendTree, Does
<1>9. ~ Stores(t)
  BY <1>8, StoresNext
<1>10. Covered => Covered'
  BY <1>2, <1>5, <1>8, <1>9, SameDisk
<1>11. ASSUME ~ crossed', NEW c \in ready' \cup {Host}
       PROVE  Latest(c)' = found' \/ Promised(job', c)
  <2>1. c \in ready \cup {Host} /\ c \in All /\ Views /\ ~ crossed
    BY <1>5, <1>6, <1>11 DEF TypeInv, Scalars, All
  <2>2. Latest(c) = found \/ Promised(job, c)
    BY <2>1 DEF Views, Known
  <2>3. CASE c \in W
    <3>1. wire[c] \in Seq(Trees) /\ sending[t] \in Trees
      BY <2>1 DEF Sent
    <3>2. wire'[c] = Append(wire[c], sending[t])
      BY <1>7, <2>1, <2>3
    <3>3. wire'[c] # <<>> /\ Last(wire'[c]) = sending[t]
      BY <3>1, <3>2, LastOfAppend
    <3>4. sending[t] = found'
      BY <1>5, <1>6, <1>11
    <3>5. Latest(c)' = found'
      BY <3>3, <3>4 DEF Latest
    <3>6. QED
      BY <3>5
  <2>4. CASE c \notin W
    <3>1. wire'[c] = wire[c]
      BY <1>7, <2>1, <2>4
    <3>2. Latest(c)' = Latest(c)
      BY <1>5, <3>1 DEF Latest
    <3>3. ASSUME Promised(job, c) PROVE Promised(job', c)
      <4>1. PICK u \in Threads, V \in Audiences :
               c \in V /\ (job[u] = Reading(V) \/ job[u] = Sending(V))
        BY <3>3 DEF Promised
      <4>2. u # t
        BY <1>1, <1>4, <2>4, <4>1, JobShapes
      <4>3. QED
        BY <1>3, <4>1, <4>2 DEF Promised
    <3>4. QED
      BY <1>5, <2>2, <3>2, <3>3
  <2>5. QED
    BY <2>3, <2>4
<1>12. /\ Fresh'
       /\ (\A u \in Threads : Overtaken(u)) => \A u \in Threads : Overtaken(u)'
  BY <1>2, <1>5, <1>8, <1>9, SameScan
<1>13. ~ crossed' => Covered' /\ Known' /\ \A u \in Threads : Overtaken(u)'
  BY <1>6, <1>10, <1>11, <1>12 DEF Views, Known
<1>14. QED
  BY <1>12, <1>13 DEF Views

\* What is to be done and the storage stay.
LEMMA JobsStay ==
  ASSUME Views, UNCHANGED <<disk, began, job, found>>
  PROVE  /\ Fresh' /\ (Covered => Covered')
         /\ (\A u \in Threads : Overtaken(u)) => \A u \in Threads : Overtaken(u)'
<1>1. \A u \in Threads : Stores(u) => Stores(u)'
  BY StoresKept
<1>2. Covered => Covered'
  BY <1>1 DEF Covered
<1>3. Fresh'
  BY DEF Views, Fresh, NextStep, Idle
<1>4. ASSUME NEW u \in Threads, Overtaken(u) PROVE Overtaken(u)'
  BY <1>1, <1>4, Others DEF Overtaken
<1>5. QED
  BY <1>2, <1>3, <1>4

\* The host's panel gets the first of the trees on their way to it.
LEMMA ViewsHost ==
  ASSUME TypeInv, Sent, Views, SetRootNode
  PROVE  Views'
<1>1. UNCHANGED <<disk, shown, ready, began, job, found>> /\ wire[Host] # <<>>
  BY DEF SetRootNode, Echoes
<1>2. ~ crossed' => ~ crossed /\ tree' # Torn
  BY Zenon DEF SetRootNode
<1>3. ~ crossed' => tree' = Head(wire[Host])
  BY <1>2 DEF SetRootNode
<1>4. /\ DOMAIN wire = All /\ Host \in All
      /\ wire'[Host] = Tail(wire[Host])
      /\ \A c \in All : c # Host => wire'[c] = wire[c]
  BY DEF SetRootNode, TypeInv, Scalars, All
<1>5. wire[Host] \in Seq(Trees)
  BY <1>4 DEF Sent
<1>6. ~ crossed' => Latest(Host)' = Latest(Host)
  BY <1>1, <1>3, <1>4, <1>5, LastOfTail DEF Latest
<1>7. \A c \in ready : c # Host => Latest(c)' = Latest(c)
  <2>1. ready \subseteq All
    BY DEF TypeInv, Scalars, All
  <2>2. QED
    BY <1>1, <1>4, <2>1 DEF Latest
<1>8. /\ Fresh' /\ (Covered => Covered')
      /\ (\A u \in Threads : Overtaken(u)) => \A u \in Threads : Overtaken(u)'
  BY <1>1, JobsStay
<1>9. ~ crossed' /\ Known => Known'
  <2>1. SUFFICES ASSUME ~ crossed', Known, NEW c \in ready \cup {Host}
                 PROVE  Latest(c)' = found' \/ Promised(job, c)
    BY <1>1 DEF Known
  <2>2. Latest(c)' = Latest(c)
    BY <1>6, <1>7, <2>1
  <2>3. QED
    BY <1>1, <2>1, <2>2 DEF Known
<1>10. ~ crossed' => Covered' /\ Known' /\ \A u \in Threads : Overtaken(u)'
  BY <1>2, <1>8, <1>9 DEF Views
<1>11. QED
  BY <1>8, <1>10 DEF Views

LEMMA ViewsGuest ==
  ASSUME ClientsAssumption, TypeInv, Sent, Views, NEW g \in Guests, GuestSetsRootNode(g)
  PROVE  Views'
<1>1. UNCHANGED <<disk, tree, ready, began, job, found, crossed>> /\ wire[g] # <<>> /\ g # Host
  BY DEF GuestSetsRootNode, ClientsAssumption
<1>2. /\ DOMAIN wire = All /\ g \in All /\ DOMAIN shown = Guests
      /\ wire'[g] = Tail(wire[g]) /\ shown'[g] = Head(wire[g])
      /\ \A c : c # g => /\ c \in All => wire'[c] = wire[c]
                         /\ c \in Guests => shown'[c] = shown[c]
  BY DEF GuestSetsRootNode, TypeInv, Scalars, All
<1>3. wire[g] \in Seq(Trees)
  BY <1>2 DEF Sent
<1>4. Latest(g)' = Latest(g)
  BY <1>1, <1>2, <1>3, LastOfTail DEF Latest
<1>5. \A c \in ready \cup {Host} : Latest(c)' = Latest(c)
  <2>1. ASSUME NEW c \in ready \cup {Host}, c # g PROVE Latest(c)' = Latest(c)
    <3>1. c \in All /\ (c # Host => c \in Guests)
      BY DEF TypeInv, Scalars, All
    <3>2. wire'[c] = wire[c] /\ (c # Host => shown'[c] = shown[c])
      BY <1>2, <2>1, <3>1
    <3>3. QED
      BY <1>1, <3>2 DEF Latest
  <2>2. QED
    BY <1>4, <2>1
<1>6. /\ Fresh' /\ (Covered => Covered')
      /\ (\A u \in Threads : Overtaken(u)) => \A u \in Threads : Overtaken(u)'
  BY <1>1, JobsStay
<1>7. Known => Known'
  BY <1>1, <1>5 DEF Known
<1>8. ~ crossed' => Covered' /\ Known' /\ \A u \in Threads : Overtaken(u)'
  BY <1>1, <1>6, <1>7 DEF Views
<1>9. QED
  BY <1>6, <1>8 DEF Views

\* A handler starts.
LEMMA ViewsStart ==
  ASSUME TypeInv, Views, NEW t \in Threads, NEW s, job' = [job EXCEPT ![t] = s],
         job[t] = <<>>, UNCHANGED <<disk, tree, shown, wire, began, found, crossed>>,
         \A c \in ready' : c \in ready \/ Promised(job', c)
  PROVE  Views'
<1>1. NextStep(t) = "nothing"
  BY DEF NextStep, Idle
<1>2. ~ Stores(t)
  BY JobShapes DEF Stores
<1>3. \A c : Promised(job, c) => Promised(job', c)
  BY <1>1, PromisesKept DEF TypeInv
<1>4. Covered => Covered'
  BY <1>1, <1>2, SameDisk
<1>5. /\ Fresh'
      /\ (\A u \in Threads : Overtaken(u)) => \A u \in Threads : Overtaken(u)'
  BY <1>1, <1>2, SameScan
<1>6. QED
  BY <1>3, <1>4, <1>5, ViewsCarry

LEMMA SentStep ==
  BoundsAssumption /\ ClientsAssumption /\ TypeInv /\ Sent /\ [Next]_vars => Sent'
<1> SUFFICES ASSUME BoundsAssumption, ClientsAssumption, TypeInv, Sent, [Next]_vars
             PROVE  Sent'
  OBVIOUS
<1>1. /\ DOMAIN wire = All /\ Host \in All /\ Guests \subseteq All
      /\ DOMAIN sending = Threads /\ disk \in Trees /\ Torn \in Trees
  BY DEF TypeInv, Scalars, All, DiskOK, Trees
<1>2. ASSUME UNCHANGED <<tree, sending, began, wire>> PROVE Sent'
  BY <1>2 DEF Sent
<1>3. CASE Click
  BY <1>2, <1>3, Clicks DEF Started, UiDoes, views
<1>4. CASE \/ \E p \in FilePaths : ProcessFileUpload(p)
           \/ \E g \in Guests : ProcessHandshake(g)
  BY <1>2, <1>4 DEF ProcessFileUpload, ProcessHandshake, IoDoes
<1>5. CASE SetRootNode
  <2>1. wire[Host] \in Seq(Trees) /\ wire[Host] # <<>>
    BY <1>1, <1>5 DEF Sent, SetRootNode, Echoes
  <2>2. Tail(wire[Host]) \in Seq(Trees) /\ Head(wire[Host]) \in Trees
    BY <2>1, LastOfTail
  <2>3. /\ tree' = Head(wire[Host]) \/ tree' = Torn
        /\ UNCHANGED <<sending, began>> /\ wire' = [wire EXCEPT ![Host] = Tail(wire[Host])]
    BY <1>5 DEF SetRootNode
  <2>4. \A c \in All : wire'[c] \in Seq(Trees)
    BY <1>1, <2>2, <2>3 DEF Sent
  <2>5. QED
    BY <1>1, <2>2, <2>3, <2>4 DEF Sent
<1>6. ASSUME NEW g \in Guests, GuestSetsRootNode(g) PROVE Sent'
  <2>1. wire[g] \in Seq(Trees) /\ wire[g] # <<>>
    BY <1>1, <1>6 DEF Sent, GuestSetsRootNode
  <2>2. Tail(wire[g]) \in Seq(Trees)
    BY <2>1, LastOfTail
  <2>3. UNCHANGED <<tree, sending, began>> /\ wire' = [wire EXCEPT ![g] = Tail(wire[g])]
    BY <1>6 DEF GuestSetsRootNode
  <2>4. \A c \in All : wire'[c] \in Seq(Trees)
    BY <1>1, <2>2, <2>3 DEF Sent
  <2>5. QED
    BY <2>3, <2>4 DEF Sent
<1>7. ASSUME NEW t \in Threads, Thread(t) PROVE Sent'
  <2>1. CASE MakeFolder(t) \/ MakeFolders(t) \/ WriteFile(t) \/ RemoveItem(t) \/ RenameItem(t)
    <3>1. UNCHANGED <<tree, sending, wire>> /\ Overtakes(t)
      BY <2>1 DEF MakeFolder, MakeFolders, WriteFile, RemoveItem, RenameItem, views
    <3>2. disk' \in Trees
      BY <1>7, AdvanceThread DEF Advance, DiskOK, Trees
    <3>3. \A u \in Threads : began'[u] \in Trees
      BY <3>1, <3>2 DEF Overtakes, Sent
    <3>4. QED
      BY <3>1, <3>3 DEF Sent
  <2>2. CASE Scan(t)
    <3>1. (tree' = disk \/ tree' = began[t] \/ tree' = Torn) /\ UNCHANGED <<sending, wire>>
          /\ \A u \in Threads : began'[u] = disk
      BY <2>2 DEF Scan, Listings
    <3>2. QED
      BY <1>1, <3>1 DEF Sent
  <2>3. CASE Read(t)
    <3>1. PICK v : (v = tree \/ v = Torn) /\ sending' = [sending EXCEPT ![t] = v]
      BY <2>3 DEF Read
    <3>2. v \in Trees /\ UNCHANGED <<tree, began, wire>>
      BY <1>1, <2>3, <3>1 DEF Sent, Read, views
    <3>3. \A u \in Threads : sending'[u] \in Trees
      BY <1>1, <3>1, <3>2 DEF Sent
    <3>4. QED
      BY <3>2, <3>3 DEF Sent
  <2>4. CASE SendTree(t)
    <3>1. PICK v \in Trees : v = sending[t]
      BY DEF Sent
    <3>2. \A c \in All : wire'[c] = wire[c] \/ wire'[c] = Append(wire[c], v)
      BY <1>1, <2>4, <3>1 DEF SendTree
    <3>3. \A c \in All : wire[c] \in Seq(Trees) /\ Append(wire[c], v) \in Seq(Trees)
      BY LastOfAppend DEF Sent
    <3>4. \A c \in All : wire'[c] \in Seq(Trees)
      BY <3>2, <3>3
    <3>5. sending' = [sending EXCEPT ![t] = NoTree] /\ UNCHANGED <<tree, began>>
      BY <2>4 DEF SendTree
    <3>6. \A u \in Threads : sending'[u] \in Trees
      BY <1>1, <3>5, NoTreeIs DEF Sent
    <3>7. QED
      BY <3>4, <3>5, <3>6 DEF Sent
  <2>5. QED
    BY <1>7, <2>1, <2>2, <2>3, <2>4 DEF Thread
<1>8. CASE UNCHANGED vars
  BY <1>2, <1>8 DEF vars, views
<1>9. QED
  BY <1>3, <1>4, <1>5, <1>6, <1>7, <1>8 DEF Next

LEMMA ViewsInit == BoundsAssumption /\ Init => Sent /\ Views
<1> SUFFICES ASSUME BoundsAssumption, Init PROVE Sent /\ Views
  OBVIOUS
<1>1. disk \in Trees
  BY TypeInvInit DEF TypeInv, DiskOK, Trees
<1>2. Sent
  <2>1. /\ tree = disk /\ \A t \in Threads : sending[t] = NoTree /\ began[t] = disk
        /\ \A c \in All : wire[c] = <<>>
    BY DEF Init, All
  <2>2. <<>> \in Seq(Trees)
    BY EmptySeq
  <2>3. PICK v \in Trees : v = disk
    BY <1>1
  <2>4. tree \in Trees
    BY <2>1, <2>3
  <2>5. QED
    BY <2>1, <2>2, <2>4, NoTreeIs DEF Sent
<1>3. /\ found = disk /\ tree = disk /\ ready = {} /\ wire[Host] = <<>>
      /\ \A t \in Threads : began[t] = disk
  BY DEF Init
<1>4. QED
  BY <1>2, <1>3 DEF Views, Covered, Known, Latest, Fresh, Overtaken

LEMMA ViewsStep ==
  BoundsAssumption /\ ClientsAssumption /\ TypeInv /\ Sent /\ Views /\ [Next]_vars => Views'
<1> SUFFICES ASSUME BoundsAssumption, ClientsAssumption, TypeInv, Sent, Views, [Next]_vars
             PROVE  Views'
  OBVIOUS
<1>1. "ui" \in Threads /\ "io" \in Threads
  BY DEF Threads
\* Neither the storage nor what is shown, or to be done, changes.
<1>2. ASSUME UNCHANGED <<disk, tree, shown, ready, wire, began, job, found, crossed>>
      PROVE  Views'
  <2>1. /\ Fresh' /\ (Covered => Covered')
        /\ (\A u \in Threads : Overtaken(u)) => \A u \in Threads : Overtaken(u)'
    BY <1>2, JobsStay
  <2>2. QED
    BY <1>2, <2>1, ViewsCarry
<1>3. CASE Click
  <2>1. ASSUME NEW s, Started(s) PROVE Views'
    <3>1. job' = [job EXCEPT !["ui"] = s] /\ job["ui"] = <<>>
          /\ UNCHANGED <<disk, tree, shown, ready, wire, began, found, crossed>>
      BY <2>1 DEF Started, UiDoes, Clickable, Idle, views
    <3>2. QED
      BY <1>1, <3>1, ViewsStart
  <2>2. CASE UNCHANGED <<disk, views, job, sending, began, jobs, made, seen, found, crossed>>
    BY <1>2, <2>2 DEF views
  <2>3. QED
    BY <1>3, <2>1, <2>2, Clicks
<1>4. ASSUME NEW p \in FilePaths, ProcessFileUpload(p) PROVE Views'
  <2>1. PICK s : job' = [job EXCEPT !["io"] = s]
    BY <1>4 DEF ProcessFileUpload, IoDoes
  <2>2. job["io"] = <<>> /\ UNCHANGED <<disk, tree, shown, ready, wire, began, found, crossed>>
    BY <1>4 DEF ProcessFileUpload, IoDoes, Idle
  <2>3. QED
    BY <1>1, <2>1, <2>2, ViewsStart
<1>5. ASSUME NEW g \in Guests, ProcessHandshake(g) PROVE Views'
  <2>1. PICK s : s = Reading({g}) /\ job' = [job EXCEPT !["io"] = s]
    BY <1>5 DEF ProcessHandshake, IoDoes, Reading
  <2>2. job["io"] = <<>> /\ UNCHANGED <<disk, tree, shown, wire, began, found, crossed>>
        /\ ready' = ready \cup {g}
    BY <1>5 DEF ProcessHandshake, IoDoes, Idle
  <2>3. job'["io"] = Reading({g}) /\ {g} \in Audiences
    BY <2>1 DEF TypeInv, Jobs, Threads, Audiences
  <2>4. Promised(job', g)
    BY <1>1, <2>3 DEF Promised
  <2>5. QED
    BY <1>1, <2>1, <2>2, <2>4, ViewsStart
<1>6. ASSUME NEW t \in Threads, Thread(t) PROVE Views'
  BY <1>6, ViewsFolder, ViewsFolders, ViewsFile, ViewsRemove, ViewsRename, ViewsScan, ViewsRead,
     ViewsSend DEF Thread
<1>7. CASE UNCHANGED vars
  BY <1>2, <1>7 DEF vars, views
<1>8. QED
  BY <1>3, <1>4, <1>5, <1>6, <1>7, ViewsHost, ViewsGuest DEF Next

LEMMA ViewsAlways == Spec => [](TypeInv /\ Sent /\ Views)
<1>1. Init => Sent /\ Views
  BY ViewsInit, BoundsAssumption
<1>2. TypeInv /\ Sent /\ Views /\ [Next]_vars => Sent' /\ Views'
  BY SentStep, ViewsStep, BoundsAssumption, ClientsAssumption
<1>3. QED
  BY <1>1, <1>2, Invariant, PTL DEF Spec

LEMMA ViewsImply == TypeInv /\ Views => ViewsAgree
<1> SUFFICES ASSUME TypeInv, Views, Quiet, ~ crossed
             PROVE  tree = disk /\ \A g \in ready : shown[g] = disk
  BY DEF ViewsAgree
<1>1. /\ job["ui"] = <<>> /\ job["io"] = <<>> /\ \A t \in Threads : job[t] = <<>>
      /\ \A c \in All : wire[c] = <<>>
  BY DEF Quiet, Idle, Threads, TypeInv, Scalars
<1>2. found = disk
  <2>1. ~ Refreshes(job) /\ \A t \in Threads : ~ Stores(t)
    BY <1>1, JobShapes DEF Refreshes, Stores
  <2>2. QED
    BY <2>1 DEF Views, Covered
<1>3. \A c : ~ Promised(job, c)
  BY <1>1, JobShapes DEF Promised
<1>4. \A c \in ready \cup {Host} : Latest(c) = disk /\ wire[c] = <<>>
  BY <1>1, <1>2, <1>3 DEF Views, Known, TypeInv, Scalars, All
<1>5. QED
  BY <1>4, ClientsAssumption DEF Latest, TypeInv, Scalars

\* When nothing is under way every panel shows the storage as it is, however the two
\* threads have interleaved, unless a tree was sent that the last refresh has not found, a race
\* spoilt the panel's own or a deletion failed halfway, and no refresh has run alone since
\* (FileExplorerPanel.cpp:119, :146, Server.cpp:443, :612, Client.cpp:784).
THEOREM PanelsAgree == Spec => []ViewsAgree
BY ViewsAlways, ViewsImply, PTL
=============================================================================
