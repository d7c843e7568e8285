----------------------------- MODULE YamlEditor -----------------------------
(***************************************************************************)
(* YamlEditor: a context manager that reads all documents of a YAML file,  *)
(* lets one of them be edited and writes all of them back.  Nothing keeps  *)
(* two editors of a file apart.  A dict without keys can be read, and not  *)
(* be written: by then the file has been emptied.                          *)
(***************************************************************************)
EXTENDS Naturals, Sequences, SequencesExt

CONSTANTS
  Editors,
  Bodies,       \* documents: dicts with and without an empty dict in them, null
  Null,         \* the null document, that a fresh editor has too
  Hollow,       \* those that have an empty dict in them
  EmptyDict,    \* one of these
  GivenFiles,   \* the documents of a file
  MaxEdits

Closed == [state |-> "closed", id |-> 1, documents |-> <<EmptyDict>>, content |-> Null,
           original |-> Null, alone |-> TRUE, found |-> <<>>]

\* What a document may be, and a file.
Documents == Bodies \cup {EmptyDict}
ASSUME DocumentsAssumption == Null \in Bodies /\ GivenFiles \subseteq Seq(Documents)

VARIABLES
  yaml_file,
  editor,    \* editor[e]; "alone": nobody wrote since it read "found"
  edits

yamleditor == <<yaml_file, editor, edits>>

YamlEditorInit ==
  /\ yaml_file = <<>> /\ editor = [e \in Editors |-> Closed] /\ edits = 0

\* Somebody writes the file while nobody edits it.
PutFile(f) ==
  /\ \A e \in Editors : editor[e].state # "open"
  /\ edits < MaxEdits
  /\ yaml_file' = f /\ edits' = edits + 1 /\ editor' = [e \in Editors |-> Closed]

\* get_content: an empty file, or a new one, has an empty dict.
Load(f) == IF f = <<>> THEN <<EmptyDict>> ELSE f

\* __enter__; a document_id that the file does not have raises.
Enter(e, d) ==
  /\ editor[e].state = "closed" /\ edits < MaxEdits
  /\ editor' = [editor EXCEPT ![e] =
                  [state |-> "open", id |-> d, documents |-> Load(yaml_file),
                   content |-> Load(yaml_file)[d], original |-> Load(yaml_file)[d],
                   alone |-> TRUE, found |-> yaml_file]]
  /\ UNCHANGED <<yaml_file, edits>>

Edit(e, c) ==
  /\ editor[e].state = "open" /\ edits < MaxEdits
  /\ editor' = [editor EXCEPT ![e].content = c] /\ edits' = edits + 1
  /\ UNCHANGED yaml_file

\* The property content: no content is a content that was not read.
Read(x) ==
  IF x.content # Null THEN x
    ELSE [x EXCEPT !.documents = Load(yaml_file), !.content = Load(yaml_file)[x.id]]

\* write_content: "w" empties the file; documents are written up to the first
\* that has an empty dict, and there the dumper raises.  Mutant: the editor
\* writes its own document.
OwnOnly(x) == <<x.content>>
AllDocuments(x) == [x.documents EXCEPT ![x.id] = x.content]
UpToHollow(docs) ==
  LET Bad == {i \in DOMAIN docs : docs[i] \in Hollow}
  IN  IF Bad = {} THEN docs
        ELSE SubSeq(docs, 1, (CHOOSE i \in Bad : \A j \in Bad : i <= j) - 1)

\* __exit__, also after an exception in the block.
Exit(e) ==
  /\ editor[e].state = "open"
  /\ editor[e].content = Null => editor[e].id \in DOMAIN Load(yaml_file)
  /\ LET x == Read(editor[e])
         docs == AllDocuments(x)
     IN  IF x.content = x.original
           THEN editor' = [editor EXCEPT ![e] = Closed] /\ UNCHANGED yaml_file
           ELSE /\ yaml_file' = UpToHollow(docs)
                /\ editor' = [f \in Editors |->
                     IF f = e THEN IF UpToHollow(docs) = docs THEN Closed
                                     ELSE [Closed EXCEPT !.state = "raised"]
                       ELSE [editor[f] EXCEPT !.alone = FALSE]]
  /\ UNCHANGED edits
\* Meanwhile the document has gone from the file.
ReadRaises(e) ==
  /\ editor[e].state = "open" /\ editor[e].content = Null
  /\ editor[e].id \notin DOMAIN Load(yaml_file)
  /\ editor' = [editor EXCEPT ![e] = [Closed EXCEPT !.state = "raised"]]
  /\ UNCHANGED <<yaml_file, edits>>

YamlEditorNext ==
  \/ \E f \in GivenFiles : PutFile(f)
  \/ \E e \in Editors :
       \/ \E d \in DOMAIN Load(yaml_file) : Enter(e, d)
       \/ \E c \in Bodies : Edit(e, c)
       \/ Exit(e) \/ ReadRaises(e)

-----------------------------------------------------------------------------

\* What an editor leaves when nobody wrote in between: its document as it was
\* edited and the others as they were found, or, if the dumper raised, the
\* documents before the one it could not write.  So an edit is lost only to
\* another editor, and a document to that or to an exception.
LeavesTheRest(e) ==
  LET x == editor[e]
      Docs == Load(x.found)
  IN  x.state = "open" /\ x.alone /\ editor'[e].state # "open" =>
        IF editor'[e].state = "raised"
          THEN Len(yaml_file') < Len(Docs) /\ \E d \in DOMAIN Docs :
                 Docs[d] \in Hollow \/ x.content \in Hollow
          ELSE IF x.content \in {x.original, Null} THEN yaml_file' = x.found
          ELSE /\ Len(yaml_file') = Len(Docs) /\ yaml_file'[x.id] = x.content
               /\ \A d \in DOMAIN Docs \ {x.id} : yaml_file'[d] = Docs[d]

\* Every edit of a file leaves the rest of it as it was.
OtherDocumentsAreKept == [][\A e \in Editors : LeavesTheRest(e)]_yamleditor
=============================================================================
