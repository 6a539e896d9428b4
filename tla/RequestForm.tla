---------------------------- MODULE RequestForm ----------------------------
(***************************************************************************)
(* The request tab of the web application (RequestTabPane.tsx with its two *)
(* InputTag.tsx fields): a user fills in a form by hand or from a file,    *)
(* confirms it in a dialog, and is taken to the history tab afterwards.    *)
(*                                                                         *)
(* The fields are of four kinds: drop-downs (cluster, role), tag fields    *)
(* (users, namespaces), the two dates, the justification.  Of dates and    *)
(* justification the model keeps whether they are there.  A tag field has  *)
(* its content twice: in InputTag, which shows it, and in the form, which  *)
(* sends it.  Reading a file and posting a request are asynchronous: the   *)
(* form may have changed when the file is loaded or the answer comes.      *)
(* Messages, their timers and the help box are left out.                   *)
(***************************************************************************)
EXTENDS Integers, AppTabs

CONSTANTS
  Choices,      \* the drop-downs
  Options,      \* what a file may name in a drop-down
  Offered,      \* the options the API offers
  None,         \* nothing is selected
  TagFields,    \* the tag fields
  Tags,         \* the texts one can enter in a tag field
  ValidTags,    \* those the field's regular expression matches
  Files,        \* the files one can upload
  MaxPosts,     \* bound: confirmed requests
  MaxUploads    \* bound: uploads

ASSUME FormAssumption ==
  /\ Offered \subseteq Options /\ None \notin Options
  /\ ValidTags \subseteq Tags
  /\ Files \subseteq [choice : [Choices -> Options \union {None}],
                      tags : [TagFields -> (SUBSET Tags) \union {None}],
                      justification : {"absent", "short", "long"},
                      reads : SUBSET TagFields, throws : BOOLEAN]
  /\ \A file \in Files : file.throws \/ file.reads = TagFields
  /\ {MaxPosts, MaxUploads} \subseteq Nat

VARIABLES
  options,        \* clusters and roles: the options fetched so far
  choice,         \* selectedCluster, selectedRole
  tags,           \* the state of the InputTag fields
  texts,          \* users, namespaces: the form's copies of the tags
  dates,          \* those of "start" and "end" that are set
  justification,  \* some text is there
  showModal,
  reading,        \* reading[u]: the file of the u-th upload while it is being read,
                  \* with the options its handler has seen
  uploads,        \* uploads so far
  disturbed,      \* history: a file was loaded while the dialog was open
  posts           \* posts[p]: the p-th POST /submit-request and what follows it

fields == <<choice, tags, texts, dates, justification>>
formVars == <<options, fields, showModal, reading, uploads, disturbed, posts>>
-----------------------------------------------------------------------------
Posts == 1..MaxPosts
Uploads == 1..MaxUploads
\* redirecting: the timer of two seconds runs; resetting: the timer of none does.
PostStates == {"unused", "sent", "ok", "error", "redirecting", "resetting", "done"}
NoTags == [f \in TagFields |-> {}]
NoChoice == [c \in Choices |-> None]
NoFile == [file |-> None, seen |-> {}]

FormInit ==
  /\ options = {}
  /\ choice = NoChoice /\ tags = NoTags /\ texts = NoTags
  /\ dates = {} /\ justification = FALSE
  /\ showModal = FALSE /\ disturbed = FALSE
  /\ reading = [u \in Uploads |-> NoFile] /\ uploads = 0
  /\ posts = [p \in Posts |-> "unused"]

\* fetchRoles, sent on mount; a failure leaves the drop-downs empty.
FetchRoles ==
  /\ options = {}
  /\ options' = Offered
  /\ UNCHANGED <<fields, showModal, reading, uploads, disturbed, posts, tabs, loadingInCard>>
-----------------------------------------------------------------------------
(* Filling in the form; the dialog is modal *)

CanEdit == activeTab = "request" /\ ~showModal

SelectOption(c, o) ==
  /\ CanEdit /\ o \in options
  /\ choice' = [choice EXCEPT ![c] = o]
  /\ UNCHANGED <<options, tags, texts, dates, justification, showModal, reading, uploads,
                 disturbed, posts, tabs, loadingInCard>>

\* InputTag changes its own tags and tells the form (onTagsChange).
SetTags(newTags) == tags' = newTags /\ texts' = newTags

HandleAddition(f, t) ==
  /\ CanEdit /\ t \in ValidTags \ tags[f]
  /\ SetTags([tags EXCEPT ![f] = @ \union {t}])
  /\ UNCHANGED <<options, choice, dates, justification, showModal, reading, uploads,
                 disturbed, posts, tabs, loadingInCard>>

HandleDelete(f, t) ==
  /\ CanEdit /\ t \in tags[f]
  /\ SetTags([tags EXCEPT ![f] = @ \ {t}])
  /\ UNCHANGED <<options, choice, dates, justification, showModal, reading, uploads,
                 disturbed, posts, tabs, loadingInCard>>

\* Mutant: resetTags does not call onTagsChange.
ForgetTags == tags' = NoTags /\ UNCHANGED texts

\* resetTags of both fields.
ResetTags == SetTags(NoTags)

ChangeJustification ==
  /\ CanEdit
  /\ justification' = ~justification
  /\ UNCHANGED <<options, choice, tags, texts, dates, showModal, reading, uploads,
                 disturbed, posts, tabs, loadingInCard>>

\* A start after the end resets the end.
PickStart ==
  /\ CanEdit
  /\ \/ dates' = dates \union {"start"}
     \/ dates' = {"start"}
  /\ UNCHANGED <<options, choice, tags, texts, justification, showModal, reading, uploads,
                 disturbed, posts, tabs, loadingInCard>>

PickEnd ==
  /\ CanEdit
  /\ dates' = dates \union {"end"}
  /\ UNCHANGED <<options, choice, tags, texts, justification, showModal, reading, uploads,
                 disturbed, posts, tabs, loadingInCard>>

ClearFields ==
  /\ choice' = NoChoice
  /\ ResetTags
  /\ dates' = {} /\ justification' = FALSE

HandleClearForm ==
  /\ CanEdit
  /\ ClearFields
  /\ UNCHANGED <<options, showModal, reading, uploads, disturbed, posts, tabs, loadingInCard>>
-----------------------------------------------------------------------------
(* Uploading a file.  A file has no value for a field (None), or one; "reads" are *)
(* the tag fields set before the handler throws, if it does: all of them come     *)
(* before the drop-downs and the justification.                                   *)

\* The handler of the load event keeps the clusters and roles of this moment.  Several
\* files may be read at a time.
HandleBulkUpload(file) ==
  /\ CanEdit
  /\ uploads < MaxUploads /\ uploads' = uploads + 1
  /\ reading' = [reading EXCEPT ![uploads'] = [file |-> file, seen |-> options]]
  /\ UNCHANGED <<options, fields, showModal, disturbed, posts, tabs, loadingInCard>>

\* Mutant: the options of a file are not checked.
UncheckedOption(u, c) == LET o == reading[u].file.choice[c] IN IF o = None THEN choice[c] ELSE o

\* An option that is not valid removes what was selected.
LoadedOption(u, c) ==
  LET o == reading[u].file.choice[c]
  IN  IF o = None THEN choice[c] ELSE IF o \in reading[u].seen THEN o ELSE None

\* setTagsFromStrings replaces the tags by the valid ones of the file, if any.
LoadedTags(u, f) ==
  LET new == reading[u].file.tags[f]
  IN  IF new = None \/ f \notin reading[u].file.reads THEN tags[f] ELSE new \intersect ValidTags

\* reader.onload; a file that does not parse is reported and changes nothing, one whose
\* values are of the wrong type is reported when some fields are set.
FileLoaded(u) ==
  /\ reading[u] # NoFile
  /\ SetTags([f \in TagFields |-> LoadedTags(u, f)])
  /\ IF reading[u].file.throws THEN UNCHANGED <<choice, justification>>
     ELSE /\ choice' = [c \in Choices |-> LoadedOption(u, c)]
          /\ justification' = (justification \/ reading[u].file.justification = "short")
  /\ disturbed' = (disturbed \/ (showModal /\ (reading[u].file.throws => reading[u].file.reads # {})))
  /\ reading' = [reading EXCEPT ![u] = NoFile]
  /\ UNCHANGED <<options, dates, showModal, uploads, posts, tabs, loadingInCard>>
-----------------------------------------------------------------------------
(* Submitting *)

\* The submit button is disabled otherwise.
Complete ==
  /\ \A c \in Choices : choice[c] # None
  /\ \A f \in TagFields : texts[f] # {}
  /\ dates = {"start", "end"} /\ justification

HandleSubmit ==
  /\ CanEdit /\ Complete
  /\ showModal' = TRUE /\ disturbed' = FALSE
  /\ UNCHANGED <<options, fields, reading, uploads, posts, tabs, loadingInCard>>

CancelSubmit ==
  /\ showModal
  /\ showModal' = FALSE
  /\ UNCHANGED <<options, fields, reading, uploads, disturbed, posts, tabs, loadingInCard>>

\* The dialog stays open, and its buttons enabled, until the answer comes.
HandleConfirmSubmit(p) ==
  /\ showModal
  /\ posts[p] = "unused" /\ \A q \in 1..(p - 1) : posts[q] # "unused"
  /\ posts' = [posts EXCEPT ![p] = "sent"]
  /\ loadingInCard' = TRUE
  /\ UNCHANGED <<options, fields, showModal, reading, uploads, disturbed, tabs>>

\* The API takes the request or not, or the reply is lost.
SubmitRequest(p) ==
  /\ posts[p] = "sent"
  /\ \E outcome \in {"ok", "error"} : posts' = [posts EXCEPT ![p] = outcome]
  /\ UNCHANGED <<options, fields, showModal, reading, uploads, disturbed, tabs, loadingInCard>>

\* Mutant: the dialog is not closed.
SubmitSucceedsOpen(p) ==
  /\ posts[p] = "ok"
  /\ loadingInCard' = FALSE
  /\ ClearFields
  /\ posts' = [posts EXCEPT ![p] = "redirecting"]
  /\ UNCHANGED <<options, showModal, reading, uploads, disturbed, tabs>>

\* then: whatever the user has entered or opened in the meantime is cleared and closed.
SubmitSucceeds(p) ==
  /\ posts[p] = "ok"
  /\ loadingInCard' = FALSE
  /\ showModal' = FALSE
  /\ ClearFields
  /\ posts' = [posts EXCEPT ![p] = "redirecting"]
  /\ UNCHANGED <<options, reading, uploads, disturbed, tabs>>

\* catch: the form is kept.
SubmitFails(p) ==
  /\ posts[p] = "error"
  /\ loadingInCard' = FALSE
  /\ showModal' = FALSE
  /\ posts' = [posts EXCEPT ![p] = "done"]
  /\ UNCHANGED <<options, fields, reading, uploads, disturbed, tabs>>

\* Mutant: the two tabs are swapped.
RedirectBack(p) ==
  /\ posts[p] = "redirecting"
  /\ originTab' = "history" /\ activeTab' = "request" /\ effectDue' = TRUE
  /\ posts' = [posts EXCEPT ![p] = "resetting"]
  /\ UNCHANGED <<options, fields, showModal, reading, uploads, disturbed, loadingInCard>>

\* After two seconds, wherever the user is.
Redirect(p) ==
  /\ posts[p] = "redirecting"
  /\ originTab' = "request" /\ activeTab' = "history" /\ effectDue' = TRUE
  /\ posts' = [posts EXCEPT ![p] = "resetting"]
  /\ UNCHANGED <<options, fields, showModal, reading, uploads, disturbed, loadingInCard>>

ResetOrigin(p) ==
  /\ posts[p] = "resetting"
  /\ originTab' = "none" /\ effectDue' = TRUE
  /\ posts' = [posts EXCEPT ![p] = "done"]
  /\ UNCHANGED <<options, fields, showModal, reading, uploads, disturbed, activeTab,
                 loadingInCard>>
-----------------------------------------------------------------------------
FormNext ==
  \/ FetchRoles
  \/ \E c \in Choices, o \in Options : SelectOption(c, o)
  \/ \E f \in TagFields, t \in Tags : HandleAddition(f, t) \/ HandleDelete(f, t)
  \/ ChangeJustification \/ PickStart \/ PickEnd \/ HandleClearForm
  \/ \E file \in Files : HandleBulkUpload(file)
  \/ \E u \in Uploads : FileLoaded(u)
  \/ HandleSubmit \/ CancelSubmit
  \/ \E p \in Posts : \/ HandleConfirmSubmit(p) \/ SubmitRequest(p) \/ SubmitSucceeds(p)
                      \/ SubmitFails(p) \/ Redirect(p) \/ ResetOrigin(p)

FormCalls == {p \in Posts : posts[p] \in {"sent", "ok", "error"}}
-----------------------------------------------------------------------------
(* Properties of the form *)

FormTypeOK ==
  /\ options \subseteq Options
  /\ choice \in [Choices -> Options \union {None}]
  /\ tags \in [TagFields -> SUBSET Tags] /\ texts \in [TagFields -> SUBSET Tags]
  /\ dates \subseteq {"start", "end"} /\ justification \in BOOLEAN
  /\ showModal \in BOOLEAN /\ disturbed \in BOOLEAN
  /\ reading \in [Uploads -> [file : Files \union {None}, seen : SUBSET Options]]
  /\ uploads \in Nat
  /\ posts \in [Posts -> PostStates]

\* What the tag fields show is what a request would be sent with, whoever changed
\* it last: the keyboard, a file, the end of a submission, or the clear button.
TagsMirrored == texts = tags

\* The form holds only options the API offers and tags that are valid, though files
\* may name anything and may be read before the options have arrived.
OnlyOfferedIsSelected ==
  /\ \A c \in Choices : choice[c] \in options \union {None}
  /\ \A f \in TagFields : texts[f] \subseteq ValidTags

\* A request is sent with all its fields, also when an earlier one succeeds, clears
\* the form and closes the dialog in between.  The one exception is a file that is
\* loaded while the dialog is open.
SentIsComplete ==
  [][\A p \in Posts : posts[p] = "unused" /\ posts'[p] = "sent" => Complete \/ disturbed]_posts
=============================================================================
