--------------------------- MODULE EvidenceProofs ---------------------------
(***************************************************************************)
(* What holds from the diff to a comment, whatever the files, the hunks,   *)
(* the caps and the quotes.  The evidence is pieces of files and words     *)
(* (Sourced), so a quote that stands in it stands in a file; and rows of   *)
(* the image that have numbers and follow each other are lines that follow *)
(* each other (NumbersRunOn), so a quote that stands in the image and not  *)
(* across two hunks stands in the file at the number of its first row.     *)
(* What is read of a file is the subject of FileWindowsProofs.             *)
(***************************************************************************)
EXTENDS Evidence, FileWindowsProofs

-----------------------------------------------------------------------------
(* The files of a pull request *)

(* The hunks of a changed file are spans of its lines. *)
LEMMA FilesHold ==
    ASSUME NEW request \in Requests, NEW p \in DOMAIN request
    PROVE  LET file == request[p] IN
           /\ file \in File
           /\ Len(file.text) \in Nat /\ DOMAIN file.text = 1..Len(file.text)
           /\ Hunks(file.hunks, Len(file.text))
           /\ Changed(file) \subseteq DOMAIN file.text
           /\ IsFiniteSet(Changed(file))
<1> DEFINE file == request[p]
<1>1. request \in Seq(File) /\ file \in Range(request)
  BY RequestsAssumption DEF Range
<1>2. file \in File
  BY <1>1
<1>3. \A h \in file.hunks : \E a, b \in DOMAIN file.text : a <= b /\ h = a..b
  BY <1>1, RequestsAssumption
<1> HIDE DEF file
<1>4. file.text \in Seq(Line)
  BY <1>2 DEF File
<1>5. Len(file.text) \in Nat /\ DOMAIN file.text = 1..Len(file.text)
  BY <1>4
<1>6. Hunks(file.hunks, Len(file.text))
  BY <1>3, <1>5 DEF Hunks
<1>7. Changed(file) \subseteq DOMAIN file.text
  <2> SUFFICES ASSUME NEW h \in file.hunks PROVE h \subseteq DOMAIN file.text
    BY DEF Changed
  <2>1. PICK a \in DOMAIN file.text, b \in DOMAIN file.text : h = a..b
    BY <1>3
  <2> QED BY <1>5, <2>1
<1>8. IsFiniteSet(Changed(file))
  BY <1>5, <1>7, SomeLines
<1> QED BY <1>2, <1>5, <1>6, <1>7, <1>8 DEF file

(* What is read of a file are pieces of it. *)
LEMMA ReadingHolds ==
    ASSUME NEW request \in Requests, NEW p \in DOMAIN request
    PROVE  LET file == request[p] IN
           /\ Sizes(file) \in Seq(Nat) /\ Len(Sizes(file)) = Len(file.text)
           /\ Hunks(file.hunks, Len(Sizes(file)))
           /\ \A part \in Range(Read(file)) :
                 part.lines \subseteq DOMAIN file.text /\ Convex(part.lines)
<1> DEFINE file == request[p]
<1>1. /\ file \in File /\ Len(file.text) \in Nat
      /\ DOMAIN file.text = 1..Len(file.text)
      /\ Hunks(file.hunks, Len(file.text))
  BY FilesHold
<1> HIDE DEF file
<1>2. \A l \in DOMAIN file.text : Size[file.text[l]] \in Nat
  <2>1. \A l \in DOMAIN file.text : file.text[l] \in Line
    BY <1>1 DEF File
  <2> QED BY <2>1, LinesAssumption
<1>3. Sizes(file) \in [1..Len(file.text) -> Nat]
  BY <1>1, <1>2 DEF Sizes
<1>4. Sizes(file) \in Seq(Nat) /\ Len(Sizes(file)) = Len(file.text)
  BY <1>1, <1>3
<1>5. PICK size \in Seq(Nat) : size = Sizes(file)
  BY <1>4
<1>6. \A part \in Range(ReadParts(size, file.hunks)) :
         part.lines \subseteq DOMAIN size /\ Convex(part.lines)
  BY <1>1, <1>4, <1>5, ReadHolds
<1>7. DOMAIN size = DOMAIN file.text
  BY <1>1, <1>3, <1>5
<1> QED BY <1>1, <1>4, <1>5, <1>6, <1>7 DEF Read, file

-----------------------------------------------------------------------------
(* Texts that stand in a file *)

(* A text is a run of the lines of another. *)
Piece(text, whole) ==
    \E a \in Int : \A i \in DOMAIN text :
        a + i \in DOMAIN whole /\ text[i] = whole[a + i]

(* What stands in a piece stands in the whole. *)
LEMMA StandsInWhole ==
    ASSUME NEW S, NEW whole \in Seq(S), NEW text \in Seq(S), Piece(text, whole),
           NEW quote \in Seq(S), quote # <<>>, Stands(quote, text)
    PROVE  Stands(quote, whole)
<1>1. PICK a \in Int : \A i \in DOMAIN text :
         a + i \in DOMAIN whole /\ text[i] = whole[a + i]
  BY DEF Piece
<1>2. PICK k \in DOMAIN text : StandsAt(quote, text, k)
  BY DEF Stands
<1>3. Len(quote) \in Nat /\ Len(quote) > 0 /\ DOMAIN quote = 1..Len(quote)
  OBVIOUS
<1>4. Len(text) \in Nat /\ DOMAIN text = 1..Len(text)
  OBVIOUS
<1>5. k \in Nat /\ k >= 1 /\ k + Len(quote) - 1 \in DOMAIN text
  BY <1>2, <1>4 DEF StandsAt
<1>6. a + k \in DOMAIN whole
  BY <1>1
<1>7. StandsAt(quote, whole, a + k)
  <2>1. a + k + Len(quote) - 1 \in DOMAIN whole
    <3>1. a + (k + Len(quote) - 1) \in DOMAIN whole
      BY <1>1, <1>5
    <3>2. a + (k + Len(quote) - 1) = a + k + Len(quote) - 1
      BY <1>3, <1>5
    <3> QED BY <3>1, <3>2
  <2>2. ASSUME NEW i \in DOMAIN quote
        PROVE  text[k + i - 1] = whole[a + k + i - 1]
    <3>1. k + i - 1 \in DOMAIN text
      BY <1>3, <1>4, <1>5
    <3>2. a + (k + i - 1) = a + k + i - 1
      BY <1>3, <1>5
    <3> QED BY <1>1, <3>1, <3>2
  <2> QED BY <1>2, <2>1, <2>2 DEF StandsAt
<1> QED BY <1>6, <1>7 DEF Stands

(* What stands in one line is that line. *)
LEMMA StandsInLine ==
    ASSUME NEW S, NEW line \in S, NEW quote \in Seq(S), quote # <<>>,
           Stands(quote, <<line>>)
    PROVE  quote = <<line>>
<1>1. PICK k \in DOMAIN <<line>> : StandsAt(quote, <<line>>, k)
  BY DEF Stands
<1>2. k = 1 /\ Len(quote) \in Nat /\ Len(quote) > 0 /\ DOMAIN quote = 1..Len(quote)
  OBVIOUS
<1>3. k + Len(quote) - 1 \in DOMAIN <<line>>
  BY <1>1 DEF StandsAt
<1>4. Len(quote) = 1
  BY <1>2, <1>3
<1>5. quote[1] = <<line>>[1]
  <2>1. 1 \in DOMAIN quote /\ k + 1 - 1 = 1
    BY <1>2, <1>4
  <2>2. ~(Len(quote) > 1)
    BY <1>4
  <2> QED BY <1>1, <1>2, <2>1, <2>2 DEF StandsAt
<1> QED BY <1>4, <1>5

(* A line of a file is a piece of it. *)
LEMMA LineIsPiece ==
    ASSUME NEW S, NEW text \in Seq(S), NEW l \in DOMAIN text
    PROVE  Piece(<<text[l]>>, text)
<1>1. l - 1 \in Int /\ l - 1 + 1 = l
  OBVIOUS
<1>2. \A i \in DOMAIN <<text[l]>> : i = 1
  OBVIOUS
<1>3. <<text[l]>>[1] = text[l]
  OBVIOUS
<1> QED BY <1>1, <1>2, <1>3 DEF Piece

(* The lines of a part are a piece of the file. *)
LEMMA PartIsPiece ==
    ASSUME NEW S, NEW file, file.text \in Seq(S), NEW part,
           part.lines \subseteq DOMAIN file.text, Convex(part.lines)
    PROVE  LinesOf(file, part) \in Seq(S) /\ Piece(LinesOf(file, part), file.text)
<1> DEFINE lines == part.lines
           n == Cardinality(lines)
           a == Min(lines)
<1>1. Len(file.text) \in Nat /\ DOMAIN file.text = 1..Len(file.text)
  OBVIOUS
<1>2. /\ lines \in SUBSET Nat /\ lines \in SUBSET (0..Len(file.text))
      /\ IsFiniteSet(lines) /\ n \in Nat
  BY <1>1, SomeLines
<1>3. LinesOf(file, part) = [i \in 1..n |-> file.text[a + i - 1]]
  BY DEF LinesOf
<1>4. CASE lines = {}
  <2>1. n = 0
    BY <1>4, FS_EmptySet
  <2> HIDE DEF n, a
  <2>2. LinesOf(file, part) = <<>>
    BY <1>3, <2>1
  <2>3. Piece(<<>>, file.text)
    BY DEF Piece
  <2> QED BY <2>2, <2>3
<1>5. CASE lines # {}
  <2>1. PICK first \in lines, last \in lines :
           /\ a = first /\ Max(lines) = last /\ first \in Nat /\ last \in Nat
           /\ \A y \in lines : y \in Nat /\ first <= y /\ y <= last
    BY <1>1, <1>5, Extremes
  <2>2. lines = first..last
    <3>1. \A z \in first..last : z \in lines
      BY <2>1 DEF Convex
    <3>2. \A z \in lines : z \in first..last
      BY <2>1
    <3> HIDE DEF lines
    <3> QED BY <3>1, <3>2
  <2>3. n = last - first + 1
    BY <2>1, <2>2, FS_Interval
  <2> HIDE DEF n, a, lines
  <2>4. \A i \in 1..n : first + i - 1 \in DOMAIN file.text
    <3>1. \A i \in 1..n : first + i - 1 \in first..last
      BY <2>1, <2>3
    <3> QED BY <2>2, <3>1 DEF lines
  <2>5. \A i \in 1..n : file.text[first + i - 1] \in S
    BY <2>4
  <2>6. LinesOf(file, part) \in Seq(S) /\ DOMAIN LinesOf(file, part) = 1..n
    BY <1>2, <1>3, <2>1, <2>5
  <2>7. ASSUME NEW i \in 1..n
        PROVE  /\ (first - 1) + i \in DOMAIN file.text
               /\ LinesOf(file, part)[i] = file.text[(first - 1) + i]
    <3>1. (first - 1) + i = first + i - 1
      BY <2>1
    <3> QED BY <1>3, <2>1, <2>4, <3>1
  <2>8. first - 1 \in Int
    BY <2>1
  <2> QED BY <2>6, <2>7, <2>8 DEF Piece
<1> QED BY <1>4, <1>5

-----------------------------------------------------------------------------
(* The image of a diff *)

(* The rows of the image, in order: changed lines, and the empty line      *)
(* before a hunk.                                                          *)
LEMMA RowsHold ==
    ASSUME NEW request \in Requests, NEW p \in DOMAIN request
    PROVE  LET file == request[p]
               row  == Ordered(Rows(file))
               n    == Cardinality(Rows(file))
           IN /\ n \in Nat /\ row \in [1..n -> Rows(file)]
              /\ Rows(file) \subseteq Nat
              /\ \A x \in Rows(file) : \E i \in 1..n : row[i] = x
              /\ \A i, j \in 1..n : i < j => row[i] < row[j]
              /\ DOMAIN PostImage(file) = 1..n
              /\ \A i \in 1..n :
                    IF row[i] \in Changed(file)
                    THEN PostImage(file)[i] = [text |-> file.text[row[i]], line |-> row[i]]
                    ELSE PostImage(file)[i] = [text |-> Blank, line |-> 0]
<1> DEFINE file == request[p]
           row == Ordered(Rows(file))
           n == Cardinality(Rows(file))
<1>1. /\ Len(file.text) \in Nat /\ DOMAIN file.text = 1..Len(file.text)
      /\ Changed(file) \subseteq DOMAIN file.text
  BY FilesHold
<1>2. Rows(file) \subseteq 1..Len(file.text)
  BY <1>1 DEF Rows
<1>3. Rows(file) \in SUBSET Int /\ Rows(file) \subseteq Nat /\ IsFiniteSet(Rows(file))
  BY <1>1, <1>2, SomeLines
<1>4. /\ n \in Nat /\ row \in [1..n -> Rows(file)]
      /\ \A x \in Rows(file) : \E i \in 1..n : row[i] = x
      /\ \A i, j \in 1..n : i < j => row[i] < row[j]
  BY <1>3, InOrder
<1>5. PostImage(file) =
        [i \in DOMAIN row |->
           IF row[i] \in Changed(file)
           THEN [text |-> file.text[row[i]], line |-> row[i]]
           ELSE [text |-> Blank, line |-> 0]]
  BY DEF PostImage
<1> HIDE DEF row, n
<1>6. DOMAIN row = 1..n
  BY <1>4
<1>7. DOMAIN PostImage(file) = 1..n
  BY <1>5, <1>6
<1>8. ASSUME NEW i \in 1..n
      PROVE  IF row[i] \in Changed(file)
             THEN PostImage(file)[i] = [text |-> file.text[row[i]], line |-> row[i]]
             ELSE PostImage(file)[i] = [text |-> Blank, line |-> 0]
  BY <1>5, <1>6
<1> QED BY <1>3, <1>4, <1>7, <1>8 DEF row, n

(* A row of the image that has a number has that line of the file, and if  *)
(* the next has one too it is the next line.                               *)
LEMMA NumbersRunOn ==
    ASSUME NEW request \in Requests, NEW p \in DOMAIN request
    PROVE  LET file == request[p]
               image == PostImage(file)
           IN /\ \A i \in DOMAIN image :
                    image[i].line # 0 =>
                        /\ image[i].line \in Changed(file)
                        /\ image[i].text = file.text[image[i].line]
              /\ \A i, j \in DOMAIN image :
                    j = i + 1 /\ image[i].line # 0 /\ image[j].line # 0
                        => image[j].line = image[i].line + 1
<1> DEFINE file == request[p]
           row == Ordered(Rows(file))
           n == Cardinality(Rows(file))
           image == PostImage(file)
<1>1. /\ Len(file.text) \in Nat /\ DOMAIN file.text = 1..Len(file.text)
      /\ Changed(file) \subseteq DOMAIN file.text
  BY FilesHold
<1>2. /\ n \in Nat /\ row \in [1..n -> Rows(file)] /\ Rows(file) \subseteq Nat
      /\ \A x \in Rows(file) : \E i \in 1..n : row[i] = x
      /\ \A i, j \in 1..n : i < j => row[i] < row[j]
      /\ DOMAIN image = 1..n
  BY RowsHold
<1>3. \A i \in 1..n :
         IF row[i] \in Changed(file)
         THEN image[i] = [text |-> file.text[row[i]], line |-> row[i]]
         ELSE image[i] = [text |-> Blank, line |-> 0]
  BY RowsHold
<1>4. Rows(file) = Changed(file) \cup
         {l \in DOMAIN file.text : /\ l + 1 \in Firsts(Changed(file))
                                   /\ \E m \in Changed(file) : m < l}
  BY DEF Rows
<1> HIDE DEF file, row, n, image
<1>5. ASSUME NEW i \in 1..n, image[i].line # 0
      PROVE  /\ row[i] \in Changed(file) /\ image[i].line = row[i]
             /\ image[i].text = file.text[row[i]]
  <2>1. row[i] \in Changed(file)
    <3> SUFFICES ASSUME row[i] \notin Changed(file) PROVE FALSE
      OBVIOUS
    <3>1. image[i] = [text |-> Blank, line |-> 0]
      BY <1>3
    <3>2. image[i].line = 0
      BY <3>1
    <3> QED BY <1>5, <3>2
  <2>2. image[i] = [text |-> file.text[row[i]], line |-> row[i]]
    BY <1>3, <2>1
  <2> QED BY <2>1, <2>2
<1>6. ASSUME NEW i \in 1..n, NEW j \in 1..n, j = i + 1,
             image[i].line # 0, image[j].line # 0
      PROVE  row[j] = row[i] + 1
  <2>1. row[i] \in Changed(file) /\ row[j] \in Changed(file)
    BY <1>5, <1>6
  <2>2. PICK l \in Nat, m \in Nat : l = row[i] /\ m = row[j] /\ l < m /\ l >= 1
    <3>1. row[i] < row[j]
      BY <1>2, <1>6
    <3> QED BY <1>1, <2>1, <3>1
  <2> SUFFICES ASSUME l < m - 1 PROVE FALSE
    BY <2>2
  <2>3. m - 1 \in DOMAIN file.text /\ (m - 1) + 1 = m
    <3>1. m \in 1..Len(file.text)
      BY <1>1, <2>1, <2>2
    <3> QED BY <1>1, <2>2, <3>1
  <2>4. m - 1 \in Rows(file)
    <3>1. CASE m - 1 \in Changed(file)
      BY <1>4, <3>1
    <3>2. CASE m - 1 \notin Changed(file)
      <4>1. m \in Firsts(Changed(file))
        BY <2>1, <2>2, <3>2 DEF Firsts
      <4>2. \E x \in Changed(file) : x < m - 1
        BY <2>1, <2>2
      <4> QED BY <1>4, <2>3, <4>1, <4>2
    <3> QED BY <3>1, <3>2
  <2>5. PICK k \in 1..n : row[k] = m - 1
    BY <1>2, <2>4
  <2>6. i < k
    <3>1. ~(k = i)
      BY <2>2, <2>5
    <3>2. ~(k < i)
      <4> SUFFICES ASSUME k < i PROVE FALSE
        OBVIOUS
      <4>1. row[k] < row[i]
        BY <1>2
      <4> QED BY <2>2, <2>5, <4>1
    <3> QED BY <1>2, <3>1, <3>2
  <2>7. k < j
    <3>1. ~(k = j)
      BY <2>2, <2>5
    <3>2. ~(j < k)
      <4> SUFFICES ASSUME j < k PROVE FALSE
        OBVIOUS
      <4>1. row[j] < row[k]
        BY <1>2
      <4> QED BY <2>2, <2>5, <4>1
    <3> QED BY <1>2, <3>1, <3>2
  <2> QED BY <1>2, <1>6, <2>6, <2>7
<1>7. \A i \in DOMAIN image :
         image[i].line # 0 => /\ image[i].line \in Changed(file)
                              /\ image[i].text = file.text[image[i].line]
  BY <1>2, <1>5
<1>8. \A i, j \in DOMAIN image :
         j = i + 1 /\ image[i].line # 0 /\ image[j].line # 0
             => image[j].line = image[i].line + 1
  BY <1>2, <1>5, <1>6
<1> QED BY <1>7, <1>8 DEF file, image

(* A quote that stands in the image and takes no two hunks for one piece   *)
(* stands in the file, from the line of its first row on.                  *)
LEMMA StandsInFile ==
    ASSUME NEW request \in Requests, NEW p \in DOMAIN request,
           NEW quote \in Seq(Quotable), quote # <<>>,
           NEW k \in DOMAIN PostImage(request[p]),
           StandsAt(quote, ImageText(request[p]), k),
           ~Bridges(quote, request[p])
    PROVE  /\ PostImage(request[p])[k].line \in DOMAIN request[p].text
           /\ StandsAt(quote, request[p].text, PostImage(request[p])[k].line)
<1> DEFINE file == request[p]
           image == PostImage(file)
           text == ImageText(file)
<1>1. /\ Len(file.text) \in Nat /\ DOMAIN file.text = 1..Len(file.text)
      /\ Changed(file) \subseteq DOMAIN file.text
  BY FilesHold
<1>2. PICK n \in Nat : DOMAIN image = 1..n
  BY RowsHold
<1>3. /\ \A i \in DOMAIN image :
            image[i].line # 0 => /\ image[i].line \in Changed(file)
                                 /\ image[i].text = file.text[image[i].line]
      /\ \A i, j \in DOMAIN image :
            j = i + 1 /\ image[i].line # 0 /\ image[j].line # 0
                => image[j].line = image[i].line + 1
  BY NumbersRunOn
<1>4. text = [i \in DOMAIN image |-> image[i].text]
  BY DEF ImageText
<1>5. \A i \in DOMAIN quote : image[k + i - 1].line # 0
  BY DEF Bridges
<1> HIDE DEF image, text, file
<1>6. PICK q \in Nat : q = Len(quote) /\ q > 0 /\ DOMAIN quote = 1..q
  OBVIOUS
<1>7. k \in 1..n /\ k + q - 1 \in 1..n
  BY <1>2, <1>4, <1>6 DEF StandsAt, text, image, file
<1>8. PICK first : first = image[k].line
  OBVIOUS
<1>9. first \in DOMAIN file.text /\ first \in Nat
  <2>1. 1 \in DOMAIN quote /\ k + 1 - 1 = k
    BY <1>6, <1>7
  <2>2. image[k].line # 0
    BY <1>5, <2>1
  <2> QED BY <1>1, <1>2, <1>3, <1>7, <1>8, <2>2
<1> DEFINE P == {i \in Nat : i < q => image[k + i].line = first + i}
<1>10. 0 \in P
  <2>1. k + 0 = k /\ first + 0 = first
    BY <1>7, <1>9
  <2> QED BY <1>8, <2>1
<1>11. ASSUME NEW i \in Nat, i \in P PROVE i + 1 \in P
  <2> SUFFICES ASSUME i + 1 < q PROVE image[k + (i + 1)].line = first + (i + 1)
    OBVIOUS
  <2>1. PICK a \in 1..n, b \in 1..n : a = k + i /\ b = k + (i + 1) /\ b = a + 1
    BY <1>2, <1>6, <1>7
  <2>2. image[a].line = first + i
    BY <1>6, <1>11, <2>1
  <2>3. image[a].line # 0 /\ image[b].line # 0
    <3>1. i + 1 \in DOMAIN quote /\ i + 2 \in DOMAIN quote
      BY <1>6
    <3>2. k + (i + 1) - 1 = a /\ k + (i + 2) - 1 = b
      BY <1>7, <2>1
    <3> QED BY <1>5, <3>1, <3>2
  <2>4. image[b].line = image[a].line + 1
    BY <1>2, <1>3, <2>1, <2>3
  <2>5. image[b].line = first + (i + 1)
    BY <1>9, <2>2, <2>4
  <2> QED BY <2>1, <2>5
<1>12. ASSUME NEW i \in 1..q
       PROVE  /\ first + i - 1 \in DOMAIN file.text
              /\ text[k + i - 1] = file.text[first + i - 1]
  <2>1. PICK h \in Nat : h = i - 1 /\ h < q
    BY <1>6
  <2>2. h \in P
    <3> HIDE DEF P
    <3> QED BY <1>10, <1>11, <2>1, CountingUp
  <2>3. image[k + h].line = first + h
    BY <2>1, <2>2
  <2>4. PICK a \in 1..n : a = k + h /\ a = k + i - 1
    BY <1>2, <1>6, <1>7, <2>1
  <2>5. first + h = first + i - 1
    BY <1>9, <2>1
  <2>6. image[a].line # 0
    BY <1>5, <1>6, <2>4
  <2>7. image[a].line \in Changed(file) /\ image[a].text = file.text[image[a].line]
    BY <1>2, <1>3, <2>6
  <2>8. text[a] = image[a].text
    BY <1>2, <1>4
  <2> QED BY <1>1, <2>3, <2>4, <2>5, <2>7, <2>8
<1>13. StandsAt(quote, file.text, first)
  <2>1. first + Len(quote) - 1 \in DOMAIN file.text
    <3>1. q \in 1..q
      BY <1>6
    <3>2. first + q - 1 \in DOMAIN file.text
      BY <1>12, <3>1
    <3> QED BY <1>6, <3>2
  <2>2. \A i \in DOMAIN quote :
           \/ quote[i] = text[k + i - 1]
           \/ Len(quote) > 1 /\ i \in {1, Len(quote)} /\ quote[i] = Blank
    BY DEF StandsAt, text, file
  <2> QED BY <1>6, <1>12, <2>1, <2>2 DEF StandsAt
<1> QED BY <1>8, <1>9, <1>13 DEF image, file

-----------------------------------------------------------------------------
(* What the agent has learned *)

(* A text that counts as evidence is a piece of a file, or words. *)
Sourced(text) ==
    \/ text = <<Words>>
    \/ \E p \in Paths : text \in Seq(Line) /\ Piece(text, pr[p].text)

(* The inductive invariant: the properties, where the evidence comes from, *)
(* and that the result kept is what is read of its file.                   *)
EInv ==
    /\ TypeOK
    /\ pr \in Requests
    /\ \A text \in corpus : Sourced(text)
    /\ result.path # NoPath => result.parts = Read(pr[result.path])
    /\ GroundedQuotesSource
    /\ CommentsQuoteTheirLine

(* Nothing is learned and nothing submitted. *)
LEMMA EInvInit == Init => EInv
<1> SUFFICES ASSUME Init PROVE EInv
  OBVIOUS
<1>1. /\ result.path = NoPath /\ Range(result.parts) = {}
      /\ finding.quote = <<>> /\ finding.verdict = "none" /\ finding.path = NoPath
  BY DEF Init, Unread, Open, Range
<1>2. TypeOK
  BY <1>1, LinesAssumption DEF Init, TypeOK
<1> QED
  BY <1>1, <1>2 DEF Init, EInv, GroundedQuotesSource, CommentsQuoteTheirLine

(* An answer adds pieces of files and words to the evidence. *)
LEMMA LearnsKeeps ==
    ASSUME EInv, NEW texts, NEW read, Learns(texts, read),
           \A text \in texts : text \in Texts /\ Sourced(text),
           read.path \in {NoPath} \cup Readable,
           \A part \in Range(read.parts) :
              part.lines \subseteq DOMAIN pr[read.path].text,
           read.path # NoPath => read.parts = Read(pr[read.path])
    PROVE  EInv'
<1>1. /\ pr' = pr /\ finding' = finding /\ result' = read
      /\ calls' = calls + 1 /\ calls < MaxCalls /\ corpus' = corpus \cup texts
  BY DEF Learns
<1>2. TypeOK'
  <2>1. calls' \in 0..MaxCalls
    BY <1>1, LinesAssumption DEF EInv, TypeOK
  <2>2. \A text \in corpus' : text \in Texts
    BY <1>1 DEF EInv, TypeOK
  <2>3. /\ finding.quote \in Quotes \cup {<<>>}
        /\ finding.verdict \in {"none", "grounded", "near", "ungrounded"}
        /\ finding.path \in {NoPath} \cup Paths
        /\ finding.path # NoPath => finding.verdict = "grounded"
    BY DEF EInv, TypeOK
  <2> QED BY <1>1, <2>1, <2>2, <2>3 DEF TypeOK, Readable, Paths, Texts
<1>3. \A text \in corpus' : Sourced(text)'
  <2>1. \A text \in corpus' : Sourced(text)
    BY <1>1 DEF EInv
  <2> QED BY <1>1, <2>1 DEF Sourced, Paths
<1>4. GroundedQuotesSource' /\ CommentsQuoteTheirLine'
  BY <1>1 DEF EInv, GroundedQuotesSource, CommentsQuoteTheirLine, Paths,
              IsKnown, IsRemoved, IsRow, DiffText
<1> QED BY <1>1, <1>2, <1>3, <1>4 DEF EInv

(* The segments of a read are pieces of the file. *)
LEMMA ReadFileKeeps ==
    ASSUME EInv, NEW path \in Paths, ReadFile(path)
    PROVE  EInv'
<1> DEFINE file == pr[path]
           parts == Read(file)
           texts == Segments(file, parts)
           read == [path |-> path, parts |-> parts]
<1>1. path \in Readable /\ Learns(texts, read)
  BY DEF ReadFile
<1>2. /\ file \in File
      /\ \A part \in Range(parts) :
            part.lines \subseteq DOMAIN file.text /\ Convex(part.lines)
  BY FilesHold, ReadingHolds DEF EInv, Paths
<1>3. file.text \in Seq(Line)
  BY <1>2 DEF File
<1>4. ASSUME NEW text \in texts PROVE text \in Texts /\ Sourced(text)
  <2>1. PICK part \in Range(parts) : text = LinesOf(file, part)
    BY DEF Segments
  <2>2. PICK f : f = file
    OBVIOUS
  <2>3. LinesOf(f, part) \in Seq(Line) /\ Piece(LinesOf(f, part), f.text)
    BY <1>2, <1>3, <2>2, PartIsPiece
  <2>4. text \in Seq(Line) /\ Piece(text, pr[path].text)
    BY <2>1, <2>2, <2>3
  <2> QED BY <2>4 DEF Texts, Sourced
<1>5. read.path = path /\ read.parts = parts
  OBVIOUS
<1> HIDE DEF texts, read
<1>6. /\ read.path \in {NoPath} \cup Readable
      /\ \A part \in Range(read.parts) :
            part.lines \subseteq DOMAIN pr[read.path].text
      /\ read.path # NoPath => read.parts = Read(pr[read.path])
  BY <1>1, <1>2, <1>5
<1> QED BY <1>1, <1>4, <1>6, LearnsKeeps

(* A call that learns words or lines, and reads no file. *)
LEMMA OnlyTexts ==
    ASSUME EInv, NEW texts, Learns(texts, Unread),
           \A text \in texts : text \in Texts /\ Sourced(text)
    PROVE  EInv'
<1>1. PICK read : read = Unread
  OBVIOUS
<1>2. read.path = NoPath /\ Range(read.parts) = {}
  BY <1>1 DEF Unread, Range
<1>3. /\ read.path \in {NoPath} \cup Readable
      /\ \A part \in Range(read.parts) :
            part.lines \subseteq DOMAIN pr[read.path].text
      /\ read.path # NoPath => read.parts = Read(pr[read.path])
  BY <1>2
<1> QED BY <1>1, <1>3, LearnsKeeps

(* Words are a text. *)
LEMMA WordsAreSourced == <<Words>> \in Texts /\ Sourced(<<Words>>)
  BY DEF Texts, Sourced

(* A refusal adds words. *)
LEMMA RefuseKeeps ==
    ASSUME EInv, Refuse
    PROVE  EInv'
<1>1. Learns({<<Words>>}, Unread)
  BY DEF Refuse
<1>2. \A text \in {<<Words>>} : text \in Texts /\ Sourced(text)
  BY WordsAreSourced
<1> QED BY <1>1, <1>2, OnlyTexts

(* Each hit is a line of a file. *)
LEMMA SearchKeeps ==
    ASSUME EInv, NEW paths \in SUBSET Paths, SearchCode(paths)
    PROVE  EInv'
<1>1. PICK pattern \in Patterns :
         Learns({<<line>> : line \in Hits(paths, pattern)} \cup {<<Words>>}, Unread)
  BY DEF SearchCode
<1> DEFINE texts == {<<line>> : line \in Hits(paths, pattern)} \cup {<<Words>>}
<1>2. ASSUME NEW line \in Hits(paths, pattern)
      PROVE  <<line>> \in Texts /\ Sourced(<<line>>)
  <2>1. PICK p \in paths : \E l \in DOMAIN pr[p].text : line = pr[p].text[l]
    <3>1. PICK h \in UNION {{<<p, l>> : l \in DOMAIN pr[p].text} : p \in paths} :
             line = pr[h[1]].text[h[2]]
      BY DEF Hits
    <3>2. PICK p \in paths : \E l \in DOMAIN pr[p].text : h = <<p, l>>
      BY <3>1
    <3>3. PICK l \in DOMAIN pr[p].text : h = <<p, l>>
      BY <3>2
    <3>4. line = pr[p].text[l]
      BY <3>1, <3>3
    <3> QED BY <3>4
  <2>2. p \in Paths /\ pr[p] \in File
    BY <2>1, FilesHold DEF EInv, Paths
  <2>3. pr[p].text \in Seq(Line)
    BY <2>2 DEF File
  <2>4. PICK whole \in Seq(Line), l \in DOMAIN pr[p].text :
           whole = pr[p].text /\ l \in DOMAIN whole /\ line = whole[l]
    BY <2>1, <2>3
  <2>5. Piece(<<whole[l]>>, whole) /\ whole[l] \in Line
    BY <2>4, LineIsPiece
  <2>6. <<line>> \in Seq(Line) /\ Piece(<<line>>, pr[p].text)
    BY <2>4, <2>5
  <2> QED BY <2>2, <2>6 DEF Texts, Sourced
<1>3. \A text \in texts : text \in Texts /\ Sourced(text)
  BY <1>2, WordsAreSourced
<1> HIDE DEF texts
<1>4. Learns(texts, Unread)
  BY <1>1 DEF texts
<1> QED BY <1>3, <1>4, OnlyTexts

-----------------------------------------------------------------------------
(* What is submitted *)

(* What a line may be that is quoted: known as it is, or but for its mark. *)
Familiar(line) == IsKnown(line) \/ IsKnown(Unmarked(line))

(* The lines of a quote that stands in a text are those of the text.       *)
LEMMA StandsAmong ==
    ASSUME NEW text, NEW quote \in Seq(Quotable), NEW k \in Int,
           StandsAt(quote, text, k),
           DOMAIN text = 1..Len(text), Len(text) \in Nat, k >= 1,
           \A i \in DOMAIN text : Familiar(text[i])
    PROVE  \A i \in DOMAIN quote : Familiar(quote[i])
<1> SUFFICES ASSUME NEW i \in DOMAIN quote PROVE Familiar(quote[i])
  OBVIOUS
<1>1. PICK q \in Nat : q = Len(quote) /\ DOMAIN quote = 1..q
  OBVIOUS
<1>2. k + q - 1 \in 1..Len(text)
  BY <1>1 DEF StandsAt
<1>3. k + i - 1 \in DOMAIN text
  BY <1>1, <1>2
<1>4. CASE quote[i] = text[k + i - 1]
  BY <1>3, <1>4
<1>5. CASE quote[i] = Blank
  BY <1>5 DEF Familiar, IsKnown
<1> QED BY <1>4, <1>5 DEF StandsAt

(* A line of a text of lines is a line.                                    *)
LEMMA LineOfText ==
    \A text \in Seq(Line) : \A l \in DOMAIN text : text[l] \in Line
OBVIOUS

(* A row of the diff is a header, or a line of a changed file or one that  *)
(* is removed with a mark in front.                                        *)
LEMMA RowsAreKnown ==
    ASSUME EInv
    PROVE  /\ Len(DiffText) \in Nat /\ DOMAIN DiffText = 1..Len(DiffText)
           /\ \A k \in DOMAIN DiffText :
                 /\ Familiar(DiffText[k]) /\ Familiar(Unmarked(DiffText[k]))
                 /\ \/ IsRow(Unmarked(DiffText[k]))
                    \/ IsRemoved(Unmarked(DiffText[k]))
                    \/ \E p \in Paths : \E l \in DOMAIN pr[p].text :
                          Unmarked(DiffText[k]) = pr[p].text[l]
<1>1. PICK diff : diff = RawDiff(pr)
  OBVIOUS
<1>2. /\ diff \in Seq(Row) /\ Header \notin MarkedLine
      /\ \A row \in Range(diff) :
            \/ Shows(row, pr)
            \/ row.line = 0 /\ row.text \in {Header} \cup [mark : {"-"}, of : Line]
  BY <1>1, DiffsAssumption DEF EInv
<1>3. DiffText = [i \in 1..Len(diff) |-> diff[i].text]
  BY <1>1 DEF DiffText
<1>4. Len(diff) \in Nat /\ DOMAIN diff = 1..Len(diff)
  BY <1>2
<1>5. Len(DiffText) = Len(diff) /\ DOMAIN DiffText = 1..Len(diff)
  BY <1>3, <1>4
<1>6. ASSUME NEW k \in 1..Len(diff)
      PROVE  /\ Familiar(DiffText[k]) /\ Familiar(Unmarked(DiffText[k]))
             /\ \/ IsRow(Unmarked(DiffText[k]))
                \/ IsRemoved(Unmarked(DiffText[k]))
                \/ \E p \in Paths : \E l \in DOMAIN pr[p].text :
                      Unmarked(DiffText[k]) = pr[p].text[l]
  <2>1. PICK row \in Range(diff) : row = diff[k]
    BY <1>4 DEF Range
  <2>2. PICK text : text = row.text /\ text = DiffText[k]
    BY <1>3, <2>1
  <2>3. IsRow(text)
    BY <1>5, <2>2 DEF IsRow
  <2>4. CASE Shows(row, pr)
    <3>1. PICK p \in Paths : p = row.path /\ row.line \in Changed(pr[p])
      BY <2>4 DEF Shows, Paths
    <3>2. PICK l \in DOMAIN pr[p].text : l = row.line
      BY <3>1, FilesHold DEF EInv, Paths
    <3>3. PICK line : line = pr[p].text[l]
      OBVIOUS
    <3>4. \E sign \in {"+", " "} : row.text = MarkedWith(sign, pr[row.path].text[row.line])
      BY <2>4 DEF Shows
    <3>5. PICK mark \in {"+", " "} : text = MarkedWith(mark, line)
      BY <2>2, <3>1, <3>2, <3>3, <3>4
    <3>6. line \in Line
      <4>1. pr[p] \in File
        BY <3>1, FilesHold DEF EInv, Paths
      <4>2. pr[p].text \in Seq(Line)
        BY <4>1 DEF File
      <4>3. PICK whole \in Seq(Line) : whole = pr[p].text
        BY <4>2
      <4>4. l \in DOMAIN whole
        BY <3>2, <4>3
      <4> QED BY <3>3, <4>3, <4>4, LineOfText
    <3>7. Unmarked(text) = line
      BY <3>5, <3>6 DEF Unmarked, MarkedLine, MarkedWith
    <3>8. IsKnown(line)
      BY <3>2, <3>3 DEF IsKnown
    <3> QED BY <2>2, <3>2, <3>3, <3>7, <3>8 DEF Familiar
  <2>5. CASE text = Header
    <3>1. Unmarked(text) = text
      BY <1>2, <2>5 DEF Unmarked
    <3>2. IsKnown(text)
      BY <2>5 DEF IsKnown
    <3> QED BY <2>2, <2>3, <3>1, <3>2 DEF Familiar
  <2>6. CASE text \in [mark : {"-"}, of : Line]
    <3>1. PICK line \in Line : text = MarkedWith("-", line)
      BY <2>6 DEF MarkedWith
    <3>2. Unmarked(text) = line
      BY <3>1 DEF Unmarked, MarkedLine, MarkedWith
    <3>3. IsRemoved(line)
      BY <2>3, <3>1 DEF IsRemoved
    <3>4. IsKnown(line)
      BY <3>3 DEF IsKnown
    <3> QED BY <2>2, <3>2, <3>3, <3>4 DEF Familiar
  <2> QED BY <1>2, <2>2, <2>4, <2>5, <2>6
<1> QED BY <1>4, <1>5, <1>6

(* A quote that stands in the diff, from the beginning of a row or from    *)
(* behind its mark, is rows of the diff, or a line of a file or one that   *)
(* is removed.                                                             *)
LEMMA StandsInDiff ==
    ASSUME EInv, NEW quote \in Quotes,
           \/ Stands(quote, DiffText)
           \/ \E k \in DOMAIN DiffText : StandsAt(quote, From(DiffText, k), 1)
    PROVE  /\ \A i \in DOMAIN quote : Familiar(quote[i])
           /\ \/ \E p \in Paths : Stands(quote, pr[p].text)
              \/ Len(quote) = 1 /\ IsRemoved(quote[1])
              \/ \A i \in DOMAIN quote : IsRow(quote[i]) \/ (i = 1 /\ Len(quote) > 1)
<1>1. PICK n \in Nat, diff \in {DiffText} : diff = DiffText /\ DOMAIN diff = 1..n /\ Len(diff) = n
  BY RowsAreKnown
<1>2. \A k \in 1..n :
         /\ Familiar(diff[k]) /\ Familiar(Unmarked(diff[k]))
         /\ \/ IsRow(Unmarked(diff[k]))
            \/ IsRemoved(Unmarked(diff[k]))
            \/ \E p \in Paths : \E l \in DOMAIN pr[p].text :
                  Unmarked(diff[k]) = pr[p].text[l]
  BY <1>1, RowsAreKnown
<1>3. quote \in Seq(Quotable) /\ quote # <<>> /\ Last(quote) # Blank
  BY QuotesAssumption
<1>4. PICK q \in Nat : q = Len(quote) /\ q > 0 /\ DOMAIN quote = 1..q
  BY <1>3
<1>5. quote[q] # Blank
  BY <1>3, <1>4 DEF Last
<1>6. \A k \in 1..n : IsRow(diff[k])
  BY <1>1 DEF IsRow
<1>7. CASE Stands(quote, diff)
  <2>1. PICK k \in 1..n : StandsAt(quote, diff, k)
    BY <1>1, <1>7 DEF Stands
  <2>2. \A i \in DOMAIN quote : Familiar(quote[i])
    BY <1>1, <1>2, <1>3, <2>1, StandsAmong
  <2>3. ASSUME NEW i \in DOMAIN quote PROVE IsRow(quote[i]) \/ (i = 1 /\ q > 1)
    <3>1. CASE quote[i] = diff[k + i - 1]
      <4>1. k + q - 1 \in 1..n
        BY <1>1, <1>4, <2>1 DEF StandsAt
      <4>2. k + i - 1 \in 1..n
        BY <1>4, <4>1
      <4> QED BY <1>6, <3>1, <4>2
    <3>2. CASE Len(quote) > 1 /\ i \in {1, Len(quote)} /\ quote[i] = Blank
      BY <1>4, <1>5, <3>2
    <3> QED BY <2>1, <3>1, <3>2 DEF StandsAt
  <2> QED BY <1>4, <2>2, <2>3
<1>8. CASE \E k \in DOMAIN diff : StandsAt(quote, From(diff, k), 1)
  <2>1. PICK k \in 1..n, text \in {From(diff, j) : j \in 1..n} : text = From(diff, k) /\ StandsAt(quote, text, 1)
    BY <1>1, <1>8
  <2>2. PICK m \in Nat : m = n - k + 1 /\ m >= 1
    OBVIOUS
  <2>3. text = [i \in 1..m |-> IF i = 1 THEN Unmarked(diff[k]) ELSE diff[k + i - 1]]
    <3>1. PICK first, rest : first = <<Unmarked(diff[k])>> /\ rest = SubSeq(diff, k + 1, n)
      OBVIOUS
    <3>2. text = first \o rest
      BY <1>1, <2>1, <3>1 DEF From
    <3>3. rest = [i \in 1..(m - 1) |-> diff[k + i]]
      BY <2>2, <3>1
    <3> QED BY <2>2, <3>1, <3>2, <3>3
  <2>4. DOMAIN text = 1..m /\ Len(text) = m
    BY <2>2, <2>3
  <2>5. \A i \in 1..m : k + i - 1 \in 1..n
    BY <2>2
  <2>6. text[1] = Unmarked(diff[k])
    BY <2>2, <2>3
  <2>7. \A i \in 1..m : i # 1 => text[i] = diff[k + i - 1]
    BY <2>3
  <2>8. \A i \in DOMAIN text : Familiar(text[i])
    BY <1>2, <2>4, <2>5, <2>6, <2>7
  <2>9. \A i \in DOMAIN quote : Familiar(quote[i])
    BY <1>3, <2>1, <2>4, <2>8, StandsAmong
  <2>10. q <= m
    BY <1>4, <2>1, <2>4 DEF StandsAt
  <2>11. CASE q > 1
    <3>1. ASSUME NEW i \in DOMAIN quote, i # 1 PROVE IsRow(quote[i])
      <4>1. i \in 1..m /\ 1 + i - 1 = i
        BY <1>4, <2>10
      <4>2. quote[i] = text[i]
        BY <1>4, <1>5, <2>1, <3>1, <4>1 DEF StandsAt
      <4> QED BY <1>6, <2>5, <2>7, <3>1, <4>1, <4>2
    <3> QED BY <1>4, <2>9, <2>11, <3>1
  <2>12. CASE q = 1
    <3>1. quote[1] = Unmarked(diff[k])
      <4>1. 1 \in DOMAIN quote /\ 1 + 1 - 1 = 1
        BY <1>4
      <4> QED BY <1>4, <2>1, <2>6, <2>12, <4>1 DEF StandsAt
    <3>2. CASE IsRow(quote[1])
      BY <1>4, <2>9, <2>12, <3>2
    <3>3. CASE IsRemoved(quote[1])
      BY <1>4, <2>9, <2>12, <3>3
    <3>4. ASSUME NEW p \in Paths, NEW l \in DOMAIN pr[p].text, quote[1] = pr[p].text[l]
          PROVE  Stands(quote, pr[p].text)
      <4>1. l \in Nat
        BY FilesHold DEF EInv, Paths
      <4>2. l + Len(quote) - 1 = l /\ l + 1 - 1 = l
        BY <1>4, <2>12, <4>1
      <4>3. \A i \in DOMAIN quote : i = 1
        BY <1>4, <2>12
      <4>4. StandsAt(quote, pr[p].text, l)
        BY <3>4, <4>2, <4>3 DEF StandsAt
      <4> QED BY <4>4 DEF Stands
    <3> QED BY <1>2, <2>9, <3>1, <3>2, <3>3, <3>4
  <2> QED BY <1>4, <2>11, <2>12
<1> QED BY <1>1, <1>7, <1>8

(* A quote that is believed stands in the diff, in the image of a file or  *)
(* in what was learned, and has a source there.                            *)
LEMMA BelievedIsSourced ==
    ASSUME EInv, NEW quote \in Quotes, Verdict(quote) = "grounded"
    PROVE  /\ \A i \in DOMAIN quote : Familiar(quote[i])
           /\ \/ \E p \in Paths : Stands(quote, pr[p].text) \/ Bridges(quote, pr[p])
              \/ Len(quote) = 1 /\ (quote[1] = Words \/ IsRemoved(quote[1]))
              \/ \A i \in DOMAIN quote : IsRow(quote[i]) \/ (i = 1 /\ Len(quote) > 1)
<1>1. quote \in Seq(Quotable) /\ quote # <<>>
  BY QuotesAssumption
<1>2. pr \in Requests /\ \A p \in Paths : pr[p] \in File /\ pr[p].text \in Seq(Line)
  <2>1. \A p \in Paths : pr[p] \in File
    BY FilesHold DEF EInv, Paths
  <2> QED BY <2>1 DEF EInv, File
<1>3. \A p \in Paths : \A l \in DOMAIN pr[p].text : Familiar(pr[p].text[l])
  BY DEF Familiar, IsKnown
<1>4. Familiar(Blank) /\ Familiar(Words)
  BY DEF Familiar, IsKnown
<1>5. \/ Stands(quote, DiffText)
      \/ \E k \in DOMAIN DiffText : StandsAt(quote, From(DiffText, k), 1)
      \/ \E text \in {ImageText(file) : file \in Range(pr)} \cup corpus :
            Stands(quote, text)
  BY DEF Verdict
<1>6. CASE \/ Stands(quote, DiffText)
          \/ \E k \in DOMAIN DiffText : StandsAt(quote, From(DiffText, k), 1)
  BY <1>6, StandsInDiff
<1>7. CASE \E file \in Range(pr) : Stands(quote, ImageText(file))
  <2>1. PICK p \in Paths : Stands(quote, ImageText(pr[p]))
    BY <1>7 DEF Range, Paths
  <2>2. PICK n \in Nat, text \in {ImageText(pr[p])} :
           text = ImageText(pr[p]) /\ DOMAIN PostImage(pr[p]) = 1..n
    BY <1>2, RowsHold DEF Paths
  <2>3. text = [i \in 1..n |-> PostImage(pr[p])[i].text]
    BY <2>2 DEF ImageText
  <2>4. PICK k \in 1..n : StandsAt(quote, text, k)
    BY <2>1, <2>2, <2>3 DEF Stands
  <2>5. \A i \in 1..n : Familiar(text[i])
    <3> SUFFICES ASSUME NEW i \in 1..n PROVE Familiar(text[i])
      OBVIOUS
    <3>1. PICK row : row = PostImage(pr[p])[i]
      OBVIOUS
    <3>2. row.line = 0 => row.text = Blank
      <4>1. PICK l :
               IF l \in Changed(pr[p])
               THEN row = [text |-> pr[p].text[l], line |-> l]
               ELSE row = [text |-> Blank, line |-> 0]
        <5>1. i \in DOMAIN PostImage(pr[p])
          BY <2>2
        <5> QED BY <3>1, <5>1 DEF PostImage
      <4>2. Changed(pr[p]) \subseteq DOMAIN pr[p].text /\ 0 \notin DOMAIN pr[p].text
        BY <1>2, FilesHold DEF Paths
      <4> QED BY <4>1, <4>2
    <3>3. row.line # 0 => row.text \in {pr[p].text[l] : l \in DOMAIN pr[p].text}
      <4>1. row.line # 0 => /\ row.line \in Changed(pr[p])
                            /\ row.text = pr[p].text[row.line]
        BY <1>2, <2>2, <3>1, NumbersRunOn DEF Paths
      <4>2. Changed(pr[p]) \subseteq DOMAIN pr[p].text
        BY <1>2, FilesHold DEF Paths
      <4> QED BY <4>1, <4>2
    <3> QED BY <1>3, <1>4, <2>3, <3>1, <3>2, <3>3
  <2>6. DOMAIN text = 1..n /\ Len(text) = n
    BY <2>3
  <2>7. \A i \in DOMAIN quote : Familiar(quote[i])
    BY <1>1, <2>4, <2>5, <2>6, StandsAmong
  <2>8. CASE ~Bridges(quote, pr[p])
    <3>1. /\ PostImage(pr[p])[k].line \in DOMAIN pr[p].text
          /\ StandsAt(quote, pr[p].text, PostImage(pr[p])[k].line)
      BY <1>1, <1>2, <2>2, <2>4, <2>8, StandsInFile DEF Paths
    <3> QED BY <2>7, <3>1 DEF Stands
  <2> QED BY <2>7, <2>8
<1>8. CASE \E text \in corpus : Stands(quote, text)
  <2>1. PICK text \in corpus : Stands(quote, text)
    BY <1>8
  <2>2. Sourced(text) /\ text \in Texts
    BY DEF EInv, TypeOK
  <2>3. PICK S : S = Quotable
    OBVIOUS
  <2>4. quote \in Seq(S) /\ Words \in S /\ \A seq \in Seq(Line) : seq \in Seq(S)
    BY <1>1, <2>3 DEF Quotable
  <2>5. PICK k \in DOMAIN text : StandsAt(quote, text, k)
    BY <2>1 DEF Stands
  <2>6. Len(text) \in Nat /\ DOMAIN text = 1..Len(text)
    BY <2>2 DEF Texts
  <2>7. CASE text = <<Words>>
    <3>1. quote = <<Words>>
      BY <1>1, <2>1, <2>4, <2>7, StandsInLine
    <3>2. DOMAIN quote = {1} /\ Len(quote) = 1 /\ quote[1] = Words
      BY <3>1
    <3> QED BY <1>4, <3>2
  <2>8. CASE \E p \in Paths : text \in Seq(Line) /\ Piece(text, pr[p].text)
    <3>1. PICK p \in Paths : text \in Seq(Line) /\ Piece(text, pr[p].text)
      BY <2>8
    <3>2. PICK whole : whole = pr[p].text
      OBVIOUS
    <3>3. whole \in Seq(S) /\ text \in Seq(S) /\ Piece(text, whole)
      BY <1>2, <2>4, <3>1, <3>2
    <3>4. Stands(quote, whole)
      BY <1>1, <2>1, <2>4, <3>3, StandsInWhole
    <3>5. \A i \in DOMAIN text : Familiar(text[i])
      BY <1>3, <3>1 DEF Piece
    <3>6. \A i \in DOMAIN quote : Familiar(quote[i])
      BY <1>1, <2>5, <2>6, <3>5, StandsAmong
    <3> QED BY <3>2, <3>4, <3>6
  <2> QED BY <2>2, <2>7, <2>8 DEF Sourced
<1> QED BY <1>5, <1>6, <1>7, <1>8

(* The place of a quote is in a hunk, and the quote stands there.          *)
LEMMA AnchorHolds ==
    ASSUME EInv, NEW quote \in Quotes, Anchor(quote).path # NoPath
    PROVE  /\ Anchor(quote).path \in Paths
           /\ LET file == pr[Anchor(quote).path] IN
              /\ Anchor(quote).line \in Changed(file)
              /\ \/ StandsAt(quote, file.text, Anchor(quote).line)
                 \/ Bridges(quote, file)
<1> DEFINE found == {p \in Paths : Places(pr[p], quote) # {}}
           path == Min(found)
           places == Places(pr[path], quote)
           k == Min(places)
<1>1. pr \in Requests /\ pr \in Seq(File) /\ Paths \in SUBSET Nat
  BY RequestsAssumption DEF EInv, Paths
<1>2. quote \in Seq(Quotable) /\ quote # <<>>
  BY QuotesAssumption
<1>3. found # {}
  <2> SUFFICES ASSUME found = {} PROVE Anchor(quote).path = NoPath
    OBVIOUS
  <2>1. Anchor(quote) = [path |-> NoPath, line |-> 0]
    BY DEF Anchor
  <2> QED BY <2>1
<1>4. Anchor(quote) = [path |-> path, line |-> PostImage(pr[path])[k].line]
  BY <1>3 DEF Anchor
<1>5. found \in SUBSET Nat
  BY <1>1
<1> HIDE DEF found
<1>6. path \in found
  BY <1>3, <1>5, Least
<1>7. path \in Paths /\ places # {}
  BY <1>6 DEF found
<1> HIDE DEF path
<1>8. places \in SUBSET Nat
  <2>1. PICK n \in Nat : DOMAIN PostImage(pr[path]) = 1..n
    BY <1>1, <1>7, RowsHold DEF Paths
  <2> QED BY <2>1 DEF Places
<1> HIDE DEF places
<1>9. k \in places
  BY <1>7, <1>8, Least
<1>10. /\ k \in DOMAIN PostImage(pr[path]) /\ PostImage(pr[path])[k].line # 0
       /\ StandsAt(quote, ImageText(pr[path]), k)
  BY <1>9 DEF Places, places
<1> HIDE DEF k
<1>11. PostImage(pr[path])[k].line \in Changed(pr[path])
  BY <1>1, <1>7, <1>10, NumbersRunOn DEF Paths
<1>12. \/ StandsAt(quote, pr[path].text, PostImage(pr[path])[k].line)
       \/ Bridges(quote, pr[path])
  BY <1>1, <1>2, <1>7, <1>10, StandsInFile DEF Paths
<1>13. /\ Anchor(quote).path = path
       /\ Anchor(quote).line = PostImage(pr[path])[k].line
  BY <1>4
<1> QED BY <1>7, <1>11, <1>12, <1>13

(* A submission is believed and placed by what was learned before it. *)
LEMMA SubmitKeeps ==
    ASSUME EInv, NEW quote \in Quotes, Submit(quote)
    PROVE  EInv'
<1>1. PICK at : at = IF Verdict(quote) = "grounded" THEN Anchor(quote)
                     ELSE [path |-> NoPath, line |-> 0]
  OBVIOUS
<1>2. /\ finding'.quote = quote /\ finding'.verdict = Verdict(quote)
      /\ finding'.path = at.path /\ finding'.line = at.line
      /\ pr' = pr /\ corpus' = corpus /\ calls' = calls /\ result' = result
  BY <1>1 DEF Submit
<1>3. at.path # NoPath => Verdict(quote) = "grounded" /\ at = Anchor(quote)
  BY <1>1
<1>4. Verdict(quote) \in {"none", "grounded", "near", "ungrounded"}
  BY DEF Verdict
<1>5. TypeOK'
  <2>1. at.path \in {NoPath} \cup Paths
    BY <1>3, AnchorHolds
  <2>2. /\ finding'.quote \in Quotes \cup {<<>>}
        /\ finding'.verdict \in {"none", "grounded", "near", "ungrounded"}
        /\ finding'.path \in {NoPath} \cup Paths
        /\ finding'.path # NoPath => finding'.verdict = "grounded"
    BY <1>2, <1>3, <1>4, <2>1
  <2>3. /\ \A text \in corpus : text \in Texts
        /\ calls \in 0..MaxCalls
        /\ result.path \in {NoPath} \cup Readable
        /\ \A part \in Range(result.parts) :
              part.lines \subseteq DOMAIN pr[result.path].text
    BY DEF EInv, TypeOK
  <2> QED BY <1>2, <2>2, <2>3 DEF TypeOK, Readable, Paths, Texts
<1>6. GroundedQuotesSource'
  <2> SUFFICES ASSUME Verdict(quote) = "grounded" PROVE GroundedQuotesSource'
    BY <1>2 DEF GroundedQuotesSource
  <2>1. /\ \A i \in DOMAIN quote : IsKnown(quote[i]) \/ IsKnown(Unmarked(quote[i]))
        /\ \/ \E p \in Paths : Stands(quote, pr[p].text) \/ Bridges(quote, pr[p])
           \/ Len(quote) = 1 /\ (quote[1] = Words \/ IsRemoved(quote[1]))
           \/ \A i \in DOMAIN quote : IsRow(quote[i]) \/ (i = 1 /\ Len(quote) > 1)
    BY BelievedIsSourced DEF Familiar
  <2> QED BY <1>2, <2>1 DEF GroundedQuotesSource, Paths, IsKnown, IsRemoved, IsRow,
                            DiffText
<1>7. CommentsQuoteTheirLine'
  <2> SUFFICES ASSUME at.path # NoPath PROVE CommentsQuoteTheirLine'
    BY <1>2 DEF CommentsQuoteTheirLine
  <2>1. /\ at.line \in Changed(pr[at.path])
        /\ \/ StandsAt(quote, pr[at.path].text, at.line)
           \/ Bridges(quote, pr[at.path])
    BY <1>3, AnchorHolds
  <2> QED BY <1>2, <2>1 DEF CommentsQuoteTheirLine
<1>8. \A text \in corpus' : Sourced(text)'
  BY <1>2 DEF EInv, Sourced, Paths
<1> QED BY <1>2, <1>5, <1>6, <1>7, <1>8 DEF EInv

(* Every step keeps the invariant. *)
LEMMA EInvNext == EInv /\ [Next]_vars => EInv'
<1> SUFFICES ASSUME EInv, [Next]_vars PROVE EInv'
  OBVIOUS
<1>1. CASE \E path \in Paths : ReadFile(path)
  BY <1>1, ReadFileKeeps
<1>2. CASE Refuse
  BY <1>2, RefuseKeeps
<1>3. CASE SearchCode(Readable)
  <2>1. Readable \in SUBSET Paths
    BY DEF Readable
  <2> QED BY <1>3, <2>1, SearchKeeps
<1>4. CASE \E path \in Readable : SearchCode({path})
  <2>1. PICK path \in Readable : SearchCode({path})
    BY <1>4
  <2>2. {path} \in SUBSET Paths
    BY DEF Readable
  <2> QED BY <2>1, <2>2, SearchKeeps
<1>5. CASE \E quote \in Quotes : Submit(quote)
  BY <1>5, SubmitKeeps
<1>6. CASE UNCHANGED vars
  BY <1>6 DEF vars, EInv, TypeOK, Sourced, GroundedQuotesSource,
              CommentsQuoteTheirLine, Readable, Paths, Texts,
              IsKnown, IsRemoved, IsRow, DiffText
<1> QED BY <1>1, <1>2, <1>3, <1>4, <1>5, <1>6 DEF Next

(* The invariant holds. *)
LEMMA EInvHolds == Spec => []EInv
  BY EInvInit, EInvNext, PTL DEF Spec

(* A file read in windows is that of a pull request, and over the cap.     *)
LEMMA ElidedRead ==
    ASSUME EInv, IsElided
    PROVE  LET file == pr[result.path] IN
           /\ ReadSize \in Seq(Nat) /\ Hunks(file.hunks, Len(ReadSize))
           /\ result.parts = Elide(ReadSize, file.hunks)
<1>1. result.path # NoPath /\ result.path \in Paths /\ pr \in Requests
  BY DEF IsElided, EInv, TypeOK, Readable
<1>2. PICK p \in DOMAIN pr : p = result.path
  BY <1>1 DEF Paths
<1>3. Sizes(pr[p]) \in Seq(Nat) /\ Hunks(pr[p].hunks, Len(Sizes(pr[p])))
  BY <1>1, ReadingHolds
<1>4. ReadSize = Sizes(pr[p])
  BY <1>2 DEF ReadSize
<1>5. result.parts = ReadParts(ReadSize, pr[p].hunks)
  BY <1>1, <1>2, <1>4 DEF EInv, Read
<1>6. ~(Bytes(ReadSize, DOMAIN ReadSize) <= MaxRead)
  <2>1. Bytes(ReadSize, DOMAIN ReadSize) \in Nat
    BY <1>3, <1>4, BytesAreNat
  <2>2. Bytes(ReadSize, DOMAIN ReadSize) > MaxRead /\ MaxRead \in Nat
    BY SizesAssumption DEF IsElided
  <2> QED BY <2>1, <2>2
<1>7. Windows(pr[p].hunks, Len(ReadSize)) # {}
  BY <1>2 DEF IsElided, ReadWindows
<1>8. result.parts = Elide(ReadSize, pr[p].hunks)
  BY <1>5, <1>6, <1>7 DEF ReadParts
<1> QED BY <1>2, <1>3, <1>4, <1>8

-----------------------------------------------------------------------------
(* Texts are made of lines, what is read are lines of a file that can be   *)
(* read, and a finding has a place only where it is believed.              *)
THEOREM Typed == Spec => []TypeOK
<1>1. EInv => TypeOK
  BY DEF EInv
<1> QED BY <1>1, EInvHolds, PTL

(* Each line that is believed is, its mark aside, in a changed file or     *)
(* removed by the diff, or it is a header of the diff or words of a tool.  *)
(* What is believed as a whole is one piece of a changed file, two hunks   *)
(* taken for one, a removed line, words, or rows of the raw diff as they   *)
(* are there, but that the first may be without its mark.                  *)
THEOREM QuotesHaveSources == Spec => []GroundedQuotesSource
<1>1. EInv => GroundedQuotesSource
  BY DEF EInv
<1> QED BY <1>1, EInvHolds, PTL

(* A comment is on a line of a hunk, and the quote stands in the file from *)
(* that line on, unless it takes two hunks for one piece.                  *)
THEOREM CommentsStandThere == Spec => []CommentsQuoteTheirLine
<1>1. EInv => CommentsQuoteTheirLine
  BY DEF EInv
<1> QED BY <1>1, EInvHolds, PTL

(* No context of a window is shown while a changed line of it is dropped.  *)
THEOREM ContextDropsFirst == Spec => []ContextGoesFirst
<1>1. EInv => ContextGoesFirst
  <2> SUFFICES ASSUME EInv, IsElided, NEW w \in ReadWindows
               PROVE  LET core == Core(pr[result.path].hunks, w)
                          shown == UNION {part.lines : part \in
                                       {q \in Range(result.parts) : q.shown}}
                      IN ~(core \subseteq shown) => (w \ core) \cap shown = {}
    BY DEF ContextGoesFirst
  <2>1. PICK size, ranges :
           /\ size \in Seq(Nat) /\ size = ReadSize
           /\ ranges = pr[result.path].hunks
           /\ Hunks(ranges, Len(size)) /\ result.parts = Elide(size, ranges)
    BY ElidedRead
  <2>2. w \in Windows(ranges, Len(size))
    BY <2>1 DEF ReadWindows
  <2>3. LET core == Core(ranges, w)
            shown == UNION {part.lines : part \in
                         {q \in Range(Elide(size, ranges)) : q.shown}}
        IN ~(core \subseteq shown) => (w \ core) \cap shown = {}
    BY <2>1, <2>2, ContextIsLast
  <2> QED BY <2>1, <2>3
<1> QED BY <1>1, EInvHolds, PTL

(* The windows of a read have no more than there is, and none has more, to *)
(* within a byte, than another that needs more than it has.                *)
THEOREM WindowsShare == Spec => []SharesAreFair
<1>1. EInv => SharesAreFair
  <2> SUFFICES ASSUME EInv, IsElided
               PROVE  LET sizes == WindowSizes(ReadSize, pr[result.path].hunks)
                          room  == Room(Cardinality(ReadWindows))
                          share == FairShare(sizes, room)
                      IN /\ SumFunction(share) <= room
                         /\ \A v, w \in ReadWindows :
                               share[v] < sizes[v] => share[w] <= share[v] + 1
    BY DEF SharesAreFair
  <2>1. PICK size, ranges :
           /\ size \in Seq(Nat) /\ size = ReadSize
           /\ ranges = pr[result.path].hunks
           /\ Hunks(ranges, Len(size))
    BY ElidedRead
  <2>2. PICK W, sizes, room, share :
           /\ W = Windows(ranges, Len(size)) /\ sizes = WindowSizes(size, ranges)
           /\ room = Room(Cardinality(W)) /\ share = FairShare(sizes, room)
    OBVIOUS
  <2>3. /\ share \in [W -> Nat] /\ Total(share, W) <= room
        /\ \A v, w \in W : share[v] < sizes[v] => share[w] <= share[v] + 1
    BY <2>1, <2>2, WindowsTake
  <2>4. SumFunction(share) = Total(share, W)
    BY <2>3 DEF SumFunction, Total
  <2>5. W = ReadWindows
    BY <2>1, <2>2 DEF ReadWindows
  <2> QED BY <2>1, <2>2, <2>3, <2>4, <2>5
<1> QED BY <1>1, EInvHolds, PTL
(* A read of a large file is inside the cap and has every line of the file *)
(* in it or under a marker, unless a line changed is too long for its      *)
(* share or the hunks are so many that the markers do not get their due.   *)
THEOREM ReadsKeepToTheCap == Spec => []ReadsAreBoundedAndComplete
<1>1. EInv => ReadsAreBoundedAndComplete
  <2> SUFFICES ASSUME EInv, IsElided, ~Overflows
               PROVE  /\ ResultBytes(ReadSize, result.parts) <= MaxRead
                      /\ UNION {part.lines : part \in Range(result.parts)} = DOMAIN ReadSize
    BY DEF ReadsAreBoundedAndComplete
  <2>1. PICK size, ranges :
           /\ size \in Seq(Nat) /\ size = ReadSize
           /\ ranges = pr[result.path].hunks
           /\ Hunks(ranges, Len(size)) /\ result.parts = Elide(size, ranges)
    BY ElidedRead
  <2>2. PICK W, sizes, share :
           /\ W = Windows(ranges, Len(size)) /\ sizes = WindowSizes(size, ranges)
           /\ share = FairShare(sizes, Room(Cardinality(W)))
    OBVIOUS
  <2>3. /\ Cardinality(W) \in Nat /\ sizes \in [W -> Nat]
        /\ \A w \in W : sizes[w] = Bytes(size, w)
        /\ share \in [W -> Nat] /\ Total(share, W) <= Room(Cardinality(W))
    BY <2>1, <2>2, WindowsTake
  <2>4. W = ReadWindows
    BY <2>1, <2>2 DEF ReadWindows
  <2>5. Len(size) # 0
    <3> SUFFICES ASSUME DOMAIN size = {} PROVE FALSE
      BY <2>1
    <3>1. Bytes(size, DOMAIN size) = 0
      BY DEF Bytes
    <3> QED BY <2>1, <3>1, SizesAssumption DEF IsElided
  <2>6. /\ ~(MarkerBudget * (2 * Cardinality(W) + 2) > MaxRead \div 2)
        /\ \A w \in W : sizes[w] > share[w] =>
              \A l \in Core(ranges, w) : ~(size[l] + 1 > share[w] - MarkerBudget)
    BY <2>1, <2>2, <2>4 DEF Overflows
  <2>7. MarkerBudget * (2 * Cardinality(W) + 2) <= MaxRead \div 2
    <3>1. PICK n \in Nat, max \in Nat, spare \in Nat :
             n = Cardinality(W) /\ max = MaxRead /\ spare = MarkerBudget
      BY <2>3, SizesAssumption
    <3>2. PICK half \in Nat, due \in Nat : half = max \div 2 /\ due = spare * (2 * n + 2)
      OBVIOUS
    <3> QED BY <2>6, <3>1, <3>2
  <2>8. \A w \in W : Bytes(size, w) > share[w] =>
           \A l \in Core(ranges, w) : size[l] + 1 <= share[w] - MarkerBudget
    <3> SUFFICES ASSUME NEW w \in W, Bytes(size, w) > share[w], NEW l \in Core(ranges, w)
                 PROVE  size[l] + 1 <= share[w] - MarkerBudget
      OBVIOUS
    <3>1. ~(size[l] + 1 > share[w] - MarkerBudget)
      BY <2>3, <2>6
    <3>2. l \in DOMAIN size
      <4>1. w \in Windows(ranges, Len(size)) /\ Len(size) \in Nat /\ DOMAIN size = 1..Len(size)
        BY <2>1, <2>2
      <4>2. w \subseteq DOMAIN size
        BY <2>1, <4>1, WindowsHold
      <4> QED BY <4>2 DEF Core
    <3>3. size[l] \in Nat /\ share[w] \in Nat /\ MarkerBudget \in Nat
      BY <2>1, <2>3, <3>2, SizesAssumption
    <3> QED BY <3>1, <3>3
  <2>9. ResultBytes(size, AllParts(DOMAIN size, Select(size, ranges))) <= MaxRead
    BY <2>1, <2>2, <2>3, <2>5, <2>7, <2>8, PartsFit
  <2>10. /\ ResultBytes(size, Elide(size, ranges)) <= MaxRead
         /\ UNION {part.lines : part \in Range(Elide(size, ranges))} = DOMAIN size
    BY <2>1, <2>5, <2>9, NoneDropped
  <2> QED BY <2>1, <2>10
<1> QED BY <1>1, EInvHolds, PTL
=============================================================================
