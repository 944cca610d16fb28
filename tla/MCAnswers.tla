------------------------------ MODULE MCAnswers ------------------------------
(***************************************************************************)
(* What is asked for is answered: the daemon's pipeline with a client that *)
(* hides popups, and the translation service with a call.  Here they share *)
(* no state (the service's part of the pipeline is in LookupPipeline), so  *)
(* `part` says which takes steps; each thread goes on by itself.           *)
(***************************************************************************)
EXTENDS MCTranslationService

VARIABLES
  part,
  \* of LookupPipeline, with its names but for the translation waiting
  generation, cancelled, shownKey, latestKey, captureRequest, renderRequest, tasks, paused,
  visible, current, forcedLength, pendingWheel, translationOff, showing,
  capturing, found, lastText, postedKey, postedGen, drawing, completing, rest,
  translating, ticket, sentencePending, running, checks, adding, client, answer

Pipeline ==
  INSTANCE LookupPipeline
    WITH Texts <- {"word", "sentence"}, Sentences <- {"sentence"}, Nothing <- "nothing",
         Blank <- TRUE, HideOnNoResult <- TRUE, SentenceKey <- FALSE, Selecting <- FALSE,
         Anki <- FALSE, ClientPopups <- FALSE, ClientHides <- TRUE, Pausing <- FALSE,
         Asides <- FALSE, Turns <- {}, MaxLength <- 1, MaxTurns <- 0, MaxTasks <- 2,
         MaxGeneration <- 3, pending <- sentencePending

popupVars ==
  <<generation, cancelled, shownKey, latestKey, captureRequest, renderRequest, tasks, paused,
    visible, current, forcedLength, pendingWheel, translationOff, showing,
    capturing, found, lastText, postedKey, postedGen, drawing, completing, rest,
    translating, ticket, sentencePending, running, checks, adding, client, answer>>

AnswerVars == <<part, vars, popupVars>>

AnswerInit ==
  /\ part \in {"popups", "calls"}
  /\ Init /\ Pipeline!Init
  /\ part = "popups" => onDisk = [d \in Directories |-> Precisions]

OfPopups   == part = "popups" /\ Pipeline!Next /\ UNCHANGED <<part, vars>>
OfCalls    == part = "calls" /\ Next /\ UNCHANGED <<part, popupVars>>
AnswerNext == OfPopups \/ OfCalls

Popups(act) == part = "popups" /\ act /\ UNCHANGED <<part, vars>>
Calls(act)  == part = "calls" /\ act /\ UNCHANGED <<part, popupVars>>

\* Every thread goes on by itself, the service's where the pipeline's UI thread is not.
AnswerSpec ==
  /\ AnswerInit /\ [][AnswerNext]_AnswerVars
  /\ WF_AnswerVars(Calls(Thread) \/ Popups(Pipeline!UiTask))
  /\ WF_AnswerVars(Popups(Pipeline!CaptureThread))
  /\ WF_AnswerVars(Popups(Pipeline!RenderThread))
  /\ WF_AnswerVars(Popups(Pipeline!TranslationThread))
  /\ WF_AnswerVars(Popups(Pipeline!Workers))
  /\ WF_AnswerVars(Popups(Pipeline!ClientPosts \/ Pipeline!ClientReloads))

\* Of LookupPipeline.
PostedPopupComesUp == Pipeline!PostedPopupComesUp
\* Of LookupPipeline.
HideTakesEffect == Pipeline!HideTakesEffect
=============================================================================
