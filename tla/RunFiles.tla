------------------------------ MODULE RunFiles ------------------------------
(* The files of a Run: a journal under receipts/, and the media with their staging.  They share *)
(* a directory and no step.                                                                     *)
EXTENDS Journal, MediaStage

filesVars == <<journalVars, stageVars>>

FilesInit == JournalInit /\ StageInit

FilesNext ==
  \/ JournalNext /\ UNCHANGED stageVars
  \/ StageNext /\ UNCHANGED journalVars

FilesSpec == FilesInit /\ [][FilesNext]_filesVars
=============================================================================
