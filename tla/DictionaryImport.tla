--------------------------- MODULE DictionaryImport ---------------------------
(***************************************************************************)
(* The compiling of a Yomitan archive into a dictionary file, by the       *)
(* daemon and by lexiglancectl at once, and what a lookup finds in the     *)
(* file (src/src/dictionary/Importer.cpp, DictionaryStore::install, the    *)
(* index of Dictionary.cpp).                                               *)
(*                                                                         *)
(* All importers import the same title. Strings stand for themselves: the  *)
(* string pool is left out but for its overflow, one of the write errors.  *)
(* Two texts never have the same hash of 64 bits.                          *)
(***************************************************************************)
EXTENDS Integers, FiniteSets, Sequences, SequencesExt, FiniteSetsExt

CONSTANTS Importers,  \* the processes that import
          NoImporter,
          Archives,   \* what they import
          Threads,    \* of the pool that parses banks
          Budget,     \* bytes of banks in flight
          HashOf,     \* indexHash(), of texts
          SearchKeyOf,\* searchKey(), "" without a fold
          MinSlots,   \* the least slots of an index
          MaxImports, MaxKills, MaxFaults \* bounds

ASSUME ImportAssumption ==
  /\ NoImporter \notin Importers
  /\ Threads \in Nat \ {0} /\ MinSlots \in Nat \ {0}
  /\ \A text \in DOMAIN HashOf : HashOf[text] # 0
  /\ \A archive \in Archives : IsFiniteSet(archive.banks)

VARIABLES
  import,   \* what each importer is at
  guard,    \* the importer that holds <output>.lock
  temp,     \* <output>.tmp, who made it and what it holds
  output,   \* the dictionary file
  imports, kills, faults

ivars == <<import, guard, temp, output, imports, kills, faults>>

-----------------------------------------------------------------------------
(* Rows to records: parseTerms, parseMeta, parseKanji, parseTags.          *)

\* A row too short or without its first field is skipped.
ValidRows(bank) == SelectSeq(bank.rows, LAMBDA row : ~row.short /\ row.text # "")

\* An empty gloss is left out; each bank counts its own glosses from 0.
Glosses(row) == SelectSeq(row.glosses, LAMBDA gloss : gloss # "")

ParsedTerms(bank) ==
  [k \in DOMAIN ValidRows(bank) |->
     LET row == ValidRows(bank)[k]
     IN  [expression |-> row.text,
          reading    |-> IF row.reading = "" THEN row.text ELSE row.reading,
          glosses    |-> Glosses(row)]]

\* A frequency is one meta record, pitches are one each; other modes are skipped.
ParsedMeta(bank) ==
  FlattenSeq([k \in DOMAIN bank.rows |->
    LET row == bank.rows[k]
    IN  IF row.short THEN <<>>
        ELSE [n \in DOMAIN row.glosses |-> [expression |-> row.text, value |-> row.glosses[n]]]])

\* classify(), by the name of a file.
OfKind(files, kinds) == SelectSeq(files, LAMBDA bank : bank.kind \in kinds)
MetaKinds == {"meta", "kanji meta"}

-----------------------------------------------------------------------------
(* The tables of a file made of these banks, in this order.                *)

Terms(files) ==
  FlattenSeq([k \in DOMAIN OfKind(files, {"term"}) |-> ParsedTerms(OfKind(files, {"term"})[k])])

\* Compiler::addTerm(): where its glosses begin in the table of all of them.
GlossBegin(terms, n) ==
  FoldLeft(LAMBDA sum, term : sum + Len(term.glosses), 0, SubSeq(terms, 1, n - 1))
GlossTable(terms) == FlattenSeq([n \in DOMAIN terms |-> terms[n].glosses])

\* Compiler::addKeys(), for the expression and for a reading that differs.
Keys(text) == {text} \cup (IF SearchKeyOf[text] = "" THEN {} ELSE {SearchKeyOf[text]})
TermKeys(term) ==
  Keys(term.expression)
    \cup (IF term.reading = term.expression THEN {} ELSE Keys(term.reading))

\* buildIndex(): twice as many slots as texts, a power of two; a hash goes to the first free
\* slot from its own on, in the order of the hashes.
Capacity(groups) == CHOOSE n \in {MinSlots * 2^k : k \in 0 .. 4} :
                      n >= 2 * groups /\ (n = MinSlots \/ n \div 2 < 2 * groups)
FirstSlot(slots, hash, wanted) ==
  LET size == Cardinality(DOMAIN slots)
      k    == Min({j \in 0 .. size - 1 : slots[(hash + j) % size].hash \in wanted})
  IN  (hash + k) % size
Placed(slots, hash, postings) ==
  [slots EXCEPT ![FirstSlot(slots, hash, {0})] = [hash |-> hash, postings |-> postings]]
EmptySlots(groups) == [pos \in 0 .. Capacity(groups) - 1 |-> [hash |-> 0, postings |-> <<>>]]
BuildIndex(keys) ==
  LET hashes == {key[1] : key \in keys}
      Postings(hash) == SetToSortSeq({key[2] : key \in {k \in keys : k[1] = hash}}, <)
  IN  FoldLeft(LAMBDA slots, hash : Placed(slots, hash, Postings(hash)),
               EmptySlots(Cardinality(hashes)), SetToSortSeq(hashes, <))

Meta(files) ==
  FlattenSeq([k \in DOMAIN OfKind(files, MetaKinds) |-> ParsedMeta(OfKind(files, MetaKinds)[k])])

\* sortTags(): by name, of a name defined twice the definition that came first. Tags of
\* index.json come before all banks.
TagRows(archive, files) ==
  archive.tags \o FlattenSeq([k \in DOMAIN OfKind(files, {"tag"}) |->
                               ValidRows(OfKind(files, {"tag"})[k])])
Tags(archive, files) ==
  LET rows == TagRows(archive, files)
  IN  {rows[k] : k \in {n \in DOMAIN rows : \A m \in 1 .. n - 1 : rows[m].text # rows[n].text}}

\* stable_sort by code point; lookups take the first of a code point.
KanjiRows(files) ==
  FlattenSeq([k \in DOMAIN OfKind(files, {"kanji"}) |-> ValidRows(OfKind(files, {"kanji"})[k])])

Compiled(archive, files) ==
  LET terms == Terms(files)
      meta  == Meta(files)
  IN  [terms   |-> [n \in DOMAIN terms |->
                      [expression |-> terms[n].expression, reading |-> terms[n].reading,
                       begin |-> GlossBegin(terms, n), count |-> Len(terms[n].glosses)]],
       glosses |-> GlossTable(terms),
       index   |-> BuildIndex(UNION {{<<HashOf[text], n>> : text \in TermKeys(terms[n])} :
                                       n \in DOMAIN terms}),
       meta    |-> meta,
       metaIndex |-> BuildIndex({<<HashOf[meta[n].expression], n>> : n \in DOMAIN meta}),
       tags    |-> Tags(archive, files),
       kanji   |-> KanjiRows(files)]

-----------------------------------------------------------------------------
(* Lookups in a file: Dictionary::probe, glossary, findTag, findKanji.     *)

Probe(slots, text) ==
  slots[FirstSlot(slots, HashOf[text], {0, HashOf[text]})].postings

Glossary(file, term) == SubSeq(file.glosses, term.begin + 1, term.begin + term.count)

FindTerms(file, text) ==
  [k \in DOMAIN Probe(file.index, text) |->
     LET term == file.terms[Probe(file.index, text)[k]]
     IN  <<term.expression, term.reading, Glossary(file, term)>>]
FindMeta(file, text) ==
  [k \in DOMAIN Probe(file.metaIndex, text) |-> file.meta[Probe(file.metaIndex, text)[k]].value]
FindTag(file, name) == {tag.glosses : tag \in {t \in file.tags : t.text = name}}
FindKanji(file, character) ==
  LET rows == SelectSeq(file.kanji, LAMBDA row : row.text = character)
  IN  IF rows = <<>> THEN <<>> ELSE rows[1].glosses

\* What the rows of the archive say of a text, read from top to bottom.
Match(row, text) ==
  ~row.short /\ row.text # ""
    /\ \E spelling \in {row.text, row.reading} \ {""} :
         text = spelling \/ (SearchKeyOf[spelling] # "" /\ text = SearchKeyOf[spelling])
RowsOf(files, kinds) ==
  FlattenSeq([k \in DOMAIN OfKind(files, kinds) |-> OfKind(files, kinds)[k].rows])
SaidOf(files, text) ==
  LET rows == SelectSeq(RowsOf(files, {"term"}), LAMBDA row : Match(row, text))
  IN  [k \in DOMAIN rows |->
         <<rows[k].text, IF rows[k].reading = "" THEN rows[k].text ELSE rows[k].reading,
           Glosses(rows[k])>>]
FirstSaid(rows, text) ==
  LET said == SelectSeq(rows, LAMBDA row : ~row.short /\ row.text = text)
  IN  IF said = <<>> THEN {} ELSE {said[1].glosses}
EverythingFound(archive, files, sorted) ==
  LET file == Compiled(archive, files)
  IN  \A text \in DOMAIN HashOf \ {""} :
        /\ FindTerms(file, text) = SaidOf(sorted, text)
        /\ FindMeta(file, text)
             = FlattenSeq([k \in DOMAIN RowsOf(sorted, MetaKinds) |->
                 LET row == RowsOf(sorted, MetaKinds)[k]
                 IN  IF row.short \/ row.text # text THEN <<>> ELSE row.glosses])
        /\ FindTag(file, text) = FirstSaid(archive.tags \o RowsOf(sorted, {"tag"}), text)
        /\ FirstSaid(RowsOf(sorted, {"kanji"}), text) \in {{}, {FindKanji(file, text)}}

-----------------------------------------------------------------------------
(* One import.                                                             *)

\* compile(): banks by kind, then by number (no two have both), so the k-th has k - 1 before it.
KindRank(kind) ==
  CHOOSE n \in 1 .. 5 : <<"tag", "term", "meta", "kanji", "kanji meta">>[n] = kind
Earlier(a, b) ==
  \/ KindRank(a.kind) < KindRank(b.kind)
  \/ a.kind = b.kind /\ a.number < b.number
Banks(archive) ==
  [k \in 1 .. Cardinality(archive.banks) |->
     CHOOSE bank \in archive.banks :
       Cardinality({other \in archive.banks : Earlier(other, bank)}) = k - 1]

Idle == [at |-> "idle", archive |-> NoImporter, next |-> 1, pending |-> <<>>, inFlight |-> 0,
         stop |-> FALSE, end |-> "none"]
NewFile(i, archive) == [by |-> i, archive |-> archive, banks |-> <<>>, whole |-> FALSE]
NoFile == NewFile(NoImporter, NoImporter)

ImportInit ==
  /\ import = [i \in Importers |-> Idle]
  /\ guard = NoImporter /\ temp = NoFile /\ output = NoFile
  /\ imports = 0 /\ kills = 0 /\ faults = 0

ImportAt(i, place) == import[i].at = place
ImportGoes(i, place) == import' = [import EXCEPT ![i].at = place]
ImportFails(i, place, why) == import' = [import EXCEPT ![i].at = place, ![i].end = why]

\* install(): a title that is installed already is only imported again to replace it. The
\* index is read, its title and its version are looked at.
Open(i, archive, replace) ==
  /\ ImportAt(i, "idle") /\ imports < MaxImports
  /\ imports' = imports + 1
  /\ import' = [import EXCEPT ![i] =
       IF ~replace /\ output # NoFile THEN [Idle EXCEPT !.end = "installed"]
       ELSE IF ~archive.index THEN [Idle EXCEPT !.end = "bad"]
       ELSE [Idle EXCEPT !.at = "lock", !.archive = archive]]
  /\ UNCHANGED <<guard, temp, output, kills, faults>>

\* fill(): banks handed to the pool, as far as the window and the budget reach. One fits if
\* nothing is in flight.
Bytes(banks, from, n) ==
  FoldLeft(LAMBDA sum, bank : sum + bank.bytes, 0, SubSeq(banks, from, from + n - 1))
Fits(task, n) ==
  LET banks == Banks(task.archive)
  IN  /\ task.next + n - 1 <= Len(banks) /\ Len(task.pending) + n <= 2 * Threads
      /\ \/ Len(task.pending) + n = 1
         \/ task.inFlight + Bytes(banks, task.next, n) <= Budget
Fitting(task) == Cardinality({n \in 1 .. 2 * Threads : \A m \in 1 .. n : Fits(task, m)})
Submitted(banks, from, n) == [k \in 1 .. n |-> [bank |-> banks[from + k - 1], done |-> FALSE]]
Filled(task) ==
  LET n     == Fitting(task)
      banks == Banks(task.archive)
  IN  [task EXCEPT !.next = @ + n, !.pending = @ \o Submitted(banks, task.next, n),
                   !.inFlight = @ + Bytes(banks, task.next, n)]

\* The lock is taken or the import fails; the temporary file is made anew over one that a
\* killed import left, with a header that is still empty.
Lock(i) ==
  /\ ImportAt(i, "lock")
  /\ IF guard # NoImporter
     THEN ImportFails(i, "idle", "busy") /\ UNCHANGED <<guard, temp>>
     ELSE /\ guard' = i
          /\ temp' = NewFile(i, import[i].archive)
          /\ import' = [import EXCEPT ![i] = Filled([@ EXCEPT !.at = "look"])]
  /\ UNCHANGED <<output, imports, kills, faults>>

\* A worker of the pool has parsed a bank. They take the banks in order, and finish them in
\* any.
Parse(i, k) ==
  /\ k \in DOMAIN import[i].pending /\ ~import[i].pending[k].done
  /\ Cardinality({j \in 1 .. k - 1 : ~import[i].pending[j].done}) < Threads
  /\ import' = [import EXCEPT ![i].pending[k].done = TRUE]
  /\ UNCHANGED <<guard, temp, output, imports, kills, faults>>

Stop(i) ==
  /\ import[i].at \notin {"idle"} /\ ~import[i].stop
  /\ import' = [import EXCEPT ![i].stop = TRUE]
  /\ UNCHANGED <<guard, temp, output, imports, kills, faults>>

\* The loop over the banks: asked to stop, done, or waiting for the next one.
Look(i) ==
  /\ ImportAt(i, "look")
  /\ \/ import[i].pending # <<>> /\ import[i].stop /\ ImportFails(i, "drain", "cancelled")
     \/ import[i].pending # <<>> /\ ~import[i].stop /\ ImportGoes(i, "get")
     \/ import[i].pending = <<>> /\ ImportGoes(i, "index")
  /\ UNCHANGED <<guard, temp, output, imports, kills, faults>>

\* What is written goes into the file at the importer's name for it, while it is its own.
Written(i, banks) ==
  temp' = IF temp.by = i THEN [temp EXCEPT !.banks = @ \o banks] ELSE temp

\* The bank the loop waits for, whichever are parsed already.
AnyParsed(i) ==
  LET done == {k \in DOMAIN import[i].pending : import[i].pending[k].done}
  IN  IF done = {} THEN 1 ELSE Min(done)
Awaited(i) == 1

Get(i) ==
  LET entry == import[i].pending[Awaited(i)]
      rest  == [import[i] EXCEPT !.pending = RemoveAt(@, Awaited(i)),
                                 !.inFlight = @ - entry.bank.bytes]
  IN  /\ ImportAt(i, "get") /\ entry.done
      /\ IF entry.bank.bad
         THEN /\ import' = [import EXCEPT ![i] =
                              [Filled(rest) EXCEPT !.at = "drain", !.end = "bad"]]
              /\ UNCHANGED temp
         ELSE /\ import' = [import EXCEPT ![i] = [Filled(rest) EXCEPT !.at = "look"]]
              /\ Written(i, <<entry.bank>>)
      /\ UNCHANGED <<guard, output, imports, kills, faults>>

\* ~ThreadPool: the workers parse what is still in the queue before they end.
Drain(i) ==
  /\ ImportAt(i, "drain") /\ \A k \in DOMAIN import[i].pending : import[i].pending[k].done
  /\ import' = [import EXCEPT ![i].at = "clean", ![i].pending = <<>>]
  /\ UNCHANGED <<guard, temp, output, imports, kills, faults>>

\* finish(): the tables, and then the header; a write fails, or the pool is too large.
Finish(i) ==
  /\ ImportAt(i, "index")
  /\ \/ /\ ImportGoes(i, "move")
        /\ temp' = IF temp.by = i THEN [temp EXCEPT !.whole = TRUE] ELSE temp
        /\ UNCHANGED faults
     \/ /\ faults < MaxFaults /\ faults' = faults + 1
        /\ ImportFails(i, "clean", "write") /\ UNCHANGED temp
  /\ UNCHANGED <<guard, output, imports, kills>>

\* replaceMapped(): what has the temporary name goes to the name of the dictionary.
MoveIntoPlace(i) ==
  /\ ImportAt(i, "move")
  /\ IF temp = NoFile
     THEN ImportFails(i, "clean", "move") /\ UNCHANGED <<temp, output>>
     ELSE ImportFails(i, "unlock", "imported") /\ output' = temp /\ temp' = NoFile
  /\ UNCHANGED <<guard, imports, kills, faults>>

\* The end of compile(): the temporary file goes first, then the lock, which was taken
\* before it.
Clean(i) ==
  /\ ImportAt(i, "clean")
  /\ temp' = NoFile /\ ImportGoes(i, "unlock")
  /\ UNCHANGED <<guard, output, imports, kills, faults>>
Unlock(i) ==
  /\ ImportAt(i, "unlock")
  /\ guard' = NoImporter
  /\ import' = [import EXCEPT ![i] = [Idle EXCEPT !.end = import[i].end]]
  /\ UNCHANGED <<temp, output, imports, kills, faults>>

\* The process of an importer is killed: its lock goes, its temporary file stays.
Kill(i) ==
  /\ ~ImportAt(i, "idle") /\ kills < MaxKills
  /\ kills' = kills + 1
  /\ guard' = IF guard = i THEN NoImporter ELSE guard
  /\ import' = [import EXCEPT ![i] = Idle]
  /\ UNCHANGED <<temp, output, imports, faults>>

ImportStep(i) ==
  \/ \E archive \in Archives, replace \in BOOLEAN : Open(i, archive, replace)
  \/ Lock(i) \/ Look(i) \/ Get(i) \/ Drain(i) \/ Finish(i) \/ MoveIntoPlace(i) \/ Clean(i) \/ Unlock(i)
  \/ \E k \in 1 .. 2 * Threads : Parse(i, k)
  \/ Stop(i) \/ Kill(i)
ImportNext == \E i \in Importers : ImportStep(i)
ImportSpec == ImportInit /\ [][ImportNext]_ivars

-----------------------------------------------------------------------------
(* Properties.                                                             *)

\* The files a complete import may leave: every text of the archive is found in them, by its
\* spelling, its reading and its search key, with what the archive says of it and in its
\* order, whichever worker was done first. (A definition without parameters, so that TLC
\* works it out once.)
RightFiles ==
  UNION {{[archive |-> archive, banks |-> order] :
            order \in {o \in SetToSeqs(archive.banks) :
                        EverythingFound(archive, o, Banks(archive))}} :
           archive \in Archives}

\* The dictionary is always one whole archive, for its readers: never one that was given up,
\* killed, mixed with another one or put together out of order (compile() in Importer.cpp).
DictionaryIsWhole ==
  output # NoFile =>
    output.whole /\ [archive |-> output.archive, banks |-> output.banks] \in RightFiles

\* While an import works on the temporary file, the file at that name is its own, with what
\* it wrote so far: no other import empties, removes or moves it, whenever that one is
\* refused, cancelled, fails or is killed (the order of the lock and of TemporaryFile).
TemporaryIsMine ==
  \A i \in Importers :
    import[i].at \in {"look", "get", "drain", "index", "move", "clean"} =>
      /\ temp.by = i /\ temp.archive = import[i].archive
      /\ import[i].at \in {"index", "move"} =>
           Len(temp.banks) = Cardinality(import[i].archive.banks)
=============================================================================
