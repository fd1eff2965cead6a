------------------------------- MODULE Browse -------------------------------
(***************************************************************************)
(* One visitor of the web site: the page to create a station, the lists of *)
(* stations and of archives, an archive, and the player of a station, over *)
(* the sessions and archives of the server, which the bot, other visitors  *)
(* and an admin change.  The queue of a station is StationPage's.          *)
(*                                                                         *)
(* A page asks the server once, when it is mounted.  When it is left, its  *)
(* answer finds nobody; only the form's goto leads on from any page.       *)
(***************************************************************************)
EXTENDS Archives, StationPlayer

VARIABLES
    page,           \* the page shown
    load,           \* its call of the server
    shown,          \* what it shows
    form,           \* the CreateSession call whose answer the form awaits
    error,          \* of the create page
    known           \* history: rows of the archive when its page was opened

browseVars == <<page, load, shown, form, error, known>>

vars == <<archivesVars, playerVars, browseVars>>

\* The static pages have no id.
Home == [at |-> "home"]
CreatePage == [at |-> "create"]
StationsPage == [at |-> "stations"]
ArchivesPage == [at |-> "archives"]
StationPage(i) == [at |-> "station", id |-> i]
ArchivePage(a) == [at |-> "archive", id |-> a]

Pages ==
    {Home, CreatePage, StationsPage, ArchivesPage}
        \cup {StationPage(i) : i \in Ids} \cup {ArchivePage(a) : a \in ArchiveIds}

NoForm == [at |-> "none"]
Forms == {NoForm} \cup [at : {"sent"}, call : Calls]

\* loading..., a list of ids, rows of an archive, "not found" or an error.
Loading == [what |-> "loading"]
Shows(items) == [what |-> "items", items |-> items]
NotFound == [what |-> "not found"]
FriendlyError == [what |-> "error"]

NoLoad == [at |-> "none"]
Sent == [at |-> "sent"]
\* GetSessionArchive between its two reads.
Found == [at |-> "found"]
Answered(answer) == [at |-> "answered", answer |-> answer]

TypeOK ==
    /\ ArchivesTypeOK
    /\ PlayerTypeOK
    /\ page \in Pages
    /\ load.at \in {"none", "sent", "found", "answered"}
    /\ shown.what \in {"loading", "items", "not found", "error"}
    /\ form \in Forms
    /\ error \in {"none", "no name", "taken", "generic"}
    /\ known \subseteq Row

Init ==
    /\ ArchivesInit
    /\ PlayerInit
    /\ page = Home
    /\ load = NoLoad
    /\ shown = Shows({})
    /\ form = NoForm
    /\ error = "none"
    /\ known = {}

-----------------------------------------------------------------------------
(* Navigation.                                                             *)

Goes(p) ==
    /\ page' = p
    /\ load' = IF p \in {Home, CreatePage} THEN NoLoad ELSE Sent
    /\ shown' = IF p \in {Home, CreatePage} THEN Shows({}) ELSE Loading
    /\ error' = "none"
    /\ known' = IF p.at = "archive" THEN RowsOf(p.id) ELSE {}
    /\ PlayerReset

\* The links of a page: the title, the menu, the entries, back.
Links ==
    {Home} \cup
    CASE page = Home -> {CreatePage, StationsPage, ArchivesPage}
      [] page = CreatePage -> {}
      [] page = StationsPage ->
           {CreatePage} \cup IF shown.what = "items" THEN {StationPage(i) : i \in shown.items} ELSE {}
      [] page = ArchivesPage ->
           IF shown.what = "items" THEN {ArchivePage(a) : a \in shown.items} ELSE {}
      [] page.at = "station" -> IF shown = NotFound THEN {StationsPage} ELSE {}
      [] page.at = "archive" -> IF shown = NotFound THEN {ArchivesPage} ELSE {}

Follow(p) ==
    /\ p \in Links
    /\ p # page
    /\ Goes(p)
    /\ UNCHANGED <<archivesVars, form>>

-----------------------------------------------------------------------------
(* The page's call.                                                        *)

Answers(answer) == load' = Answered(answer)

Serve ==
    /\ load = Sent
    /\ \/ page = StationsPage /\ Answers(Shows({i \in Ids : sessions[i] # Off}))
       \/ page = ArchivesPage /\ Answers(Shows({archive.id : archive \in archives}))
       \/ /\ page.at = "station"
          /\ Answers(IF sessions[page.id] # Off THEN Shows({}) ELSE NotFound)
       \/ /\ page.at = "archive"
          /\ IF \E archive \in archives : archive.id = page.id
             THEN load' = Found ELSE Answers(NotFound)
    /\ UNCHANGED <<archivesVars, playerVars, page, shown, form, error, known>>

ListSessionArchiveTracks ==
    /\ load = Found
    /\ Answers(Shows(RowsOf(page.id)))
    /\ UNCHANGED <<archivesVars, playerVars, page, shown, form, error, known>>

\* onMount goes on.  A station that answers with an error shows no player.
Mounted(answer) ==
    /\ shown' = answer
    /\ load' = NoLoad
    /\ streamUrl' = (page.at = "station" /\ answer.what = "items")
    /\ UNCHANGED <<archivesVars, playing, volume, gain, moved, page, form, error, known>>

LoadReturns == load.at = "answered" /\ Mounted(load.answer)

\* The lists show as empty beside their error.
EmptyList == IF page.at \in {"stations", "archives"} THEN Shows({}) ELSE FriendlyError

LoadLost == load # NoLoad /\ Mounted(EmptyList)

-----------------------------------------------------------------------------
(* The form of the create page.                                            *)

\* slugify leaves nothing of the name.
SubmitNoName ==
    /\ page = CreatePage
    /\ form = NoForm
    /\ error' = "no name"
    /\ UNCHANGED <<archivesVars, playerVars, page, load, shown, form, known>>

handleSubmit(c, i, archive) ==
    /\ page = CreatePage
    /\ form = NoForm
    /\ InsertArchive(c, i, archive)
    /\ form' = [at |-> "sent", call |-> c]
    /\ error' = "none"
    /\ UNCHANGED <<playerVars, page, load, shown, known>>

\* goto, wherever the visitor is by then.
Created ==
    /\ form # NoForm
    /\ create[form.call].at = "ok"
    /\ form' = NoForm
    /\ Goes(StationPage(create[form.call].session))
    /\ UNCHANGED archivesVars

CreationFails(code) ==
    /\ form # NoForm
    /\ code = "lost" \/ (code # "ok" /\ create[form.call].at = code)
    /\ form' = NoForm
    /\ error' = IF page # CreatePage THEN error
                ELSE IF code = "already_exists" THEN "taken" ELSE "generic"
    /\ UNCHANGED <<archivesVars, playerVars, page, load, shown, known>>

-----------------------------------------------------------------------------
(* The player, and the others.                                             *)

\* The keys of the media session do nothing once the page was left.
Player ==
    /\ page.at = "station"
    /\ PlayerControls \/ MediaKeys
    /\ UNCHANGED <<archivesVars, browseVars>>

\* The bot archives every station; other visitors may.
Others ==
    /\ ArchivesNext \/ \E c \in Calls, i \in Ids, archive \in BOOLEAN : InsertArchive(c, i, archive)
    /\ UNCHANGED <<playerVars, browseVars>>

Next ==
    \/ \E p \in Pages : Follow(p)
    \/ Serve \/ ListSessionArchiveTracks \/ LoadReturns \/ LoadLost
    \/ SubmitNoName
    \/ \E c \in Calls, i \in Ids, archive \in BOOLEAN : handleSubmit(c, i, archive)
    \/ Created
    \/ \E code \in Done \cup {"lost"} : CreationFails(code)
    \/ Player
    \/ Others

Spec == Init /\ [][Next]_vars

-----------------------------------------------------------------------------
(* Properties.                                                             *)

(* The page of an archive shows all that had been recorded when it was opened,
   of its own station alone, and says that there is no such archive only when
   there is none: the two reads of GetSessionArchive may fall anywhere among
   the statements of a deletion, but they show the ruins of no archive except
   one that an admin is deleting or has begun to. *)
ArchiveShowsItsStation ==
    page.at = "archive" /\ page.id \notin deleted =>
        /\ shown # NotFound
        /\ shown.what = "items" =>
             /\ known \subseteq shown.items
             /\ \A r \in shown.items : create[r.by].archive = page.id
=============================================================================
