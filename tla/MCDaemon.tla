------------------------------ MODULE MCDaemon ------------------------------
(***************************************************************************)
(* The parts of the daemon that share no state with its pipeline and with  *)
(* each other, explored one at a time: `part` says which one takes steps,  *)
(* the others stay at their initial states.                                *)
(***************************************************************************)
EXTENDS Takeover, DictionaryImport, X11Input, IpcConnections

CONSTANT LinuxWrites

VARIABLE part

Linux == INSTANCE Takeover WITH Windows <- FALSE, MaxWrites <- LinuxWrites
Pipes == INSTANCE IpcConnections WITH Piped <- TRUE, MaxStops <- 0

daemonVars == <<part, tvars, ivars, ipcVars, xvars>>

\* What the X11 backend is told: a key to hold and the sentence key, or a mouse button.
SomeConfigs ==
  {[chord |-> {{"ctrl"}}, sentence |-> {"alt"}, wheel |-> TRUE],
   [chord |-> {{"back"}}, sentence |-> {}, wheel |-> FALSE]}

-----------------------------------------------------------------------------
(* The archives that are imported. Three of the texts want the last slot of an index of   *)
(* sixteen, one the first.                                                               *)

SomeHashes == [yo |-> 15, yO |-> 31, ko |-> 16, yi |-> 47, n |-> 3, v |-> 4, k |-> 5]
SomeKeys == [yo |-> "", yO |-> "yo", ko |-> "", yi |-> "", n |-> "", v |-> "", k |-> ""]
Row(text, reading, glosses) ==
  [short |-> FALSE, text |-> text, reading |-> reading, glosses |-> glosses]
ShortRow == [short |-> TRUE, text |-> "yo", reading |-> "", glosses |-> <<>>]
BankOf(kind, number, bytes, rows) ==
  [kind |-> kind, number |-> number, bytes |-> bytes, bad |-> FALSE, rows |-> rows]
Archive(index, tags, banks) == [index |-> index, tags |-> tags, banks |-> banks]
TermBank == BankOf("term", 1, 1, <<Row("yO", "", <<"a", "">>), ShortRow, Row("ko", "yi", <<>>)>>)
SomeArchives ==
  {Archive(TRUE, <<Row("n", "", <<"noun">>)>>,
     {BankOf("tag", 1, 1, <<Row("v", "", <<"verb">>), Row("n", "", <<"name">>)>>), TermBank,
      BankOf("term", 2, 2, <<Row("yo", "yi", <<"b", "c">>), Row("", "", <<"d">>),
                             Row("yo", "yO", <<"e">>)>>),
      BankOf("meta", 1, 3, <<Row("yo", "", <<"1", "2">>), Row("ko", "", <<>>)>>)}),
   Archive(TRUE, <<>>,
     {BankOf("kanji", 3, 3, <<Row("k", "", <<"first">>), Row("k", "", <<"second">>)>>),
      BankOf("kanji meta", 1, 1, <<Row("k", "", <<"3">>)>>)}),
   Archive(TRUE, <<>>, {TermBank, [BankOf("term", 2, 1, <<>>) EXCEPT !.bad = TRUE]}),
   Archive(FALSE, <<>>, {})}

\* The hypothesis of DictionaryImportProofs!DictionaryStaysWhole: a file compiled of the banks in
\* their order says of every text what the archive says.
ASSUME InOrderIsRight ==
  \A archive \in Archives : [archive |-> archive, banks |-> Banks(archive)] \in RightFiles

-----------------------------------------------------------------------------
DaemonInit ==
  /\ part \in {"takeover", "takeover on Linux", "sockets", "pipes", "input", "import"}
  /\ IF part = "takeover on Linux" THEN Linux!TakeoverInit ELSE TakeoverInit
  /\ IpcInit
  /\ XInit
  /\ ImportInit
  /\ part # "input" => config.wheel

WindowsTakeover ==
  part = "takeover" /\ TakeoverNext /\ UNCHANGED <<part, ivars, ipcVars, xvars>>
LinuxTakeover ==
  part = "takeover on Linux" /\ Linux!TakeoverNext /\ UNCHANGED <<part, ivars, ipcVars, xvars>>
OverSockets ==
  part = "sockets" /\ IpcNext /\ UNCHANGED <<part, tvars, ivars, xvars>>
OverPipes ==
  part = "pipes" /\ Pipes!IpcNext /\ UNCHANGED <<part, tvars, ivars, xvars>>

OfInput ==
  part = "input" /\ XNext /\ UNCHANGED <<part, tvars, ivars, ipcVars>>

OfImports ==
  part = "import" /\ ImportNext /\ UNCHANGED <<part, tvars, ipcVars, xvars>>

DaemonNext ==
  WindowsTakeover \/ LinuxTakeover \/ OverSockets \/ OverPipes \/ OfInput \/ OfImports
DaemonSpec == DaemonInit /\ [][DaemonNext]_daemonVars
=============================================================================
