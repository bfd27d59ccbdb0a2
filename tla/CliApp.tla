------------------------------- MODULE CliApp -------------------------------
(***************************************************************************)
(* The terminal client: one thread that draws a screen, polls the answers  *)
(* of its background tasks and handles a key, and up to four tasks it      *)
(* waits for, one receiver for each sort.  Polls and keys are actions of   *)
(* their own, in any order: an answer may come at any turn of the loop,    *)
(* and a turn may bring no key.  A task whose receiver was replaced runs   *)
(* on; nobody sees its answer.                                             *)
(*                                                                         *)
(* A place is a host and a ProgID.  What a task was started for is kept    *)
(* with it (`at'), and so is the place where values came from: the         *)
(* program has neither.  An index counts from 1, 0 is None.                *)
(***************************************************************************)
EXTENDS Naturals, Sequences, FiniteSets

CONSTANTS Hosts, ProgIDs, Tags,
          None,           \* an Option that is None
          FirstHost,      \* "localhost"
          ServerLists,    \* answers of list_servers
          TagLists,       \* answers of browse_tags
          MaxTags,        \* the longest of them
          PageSize

Place == Hosts \X ProgIDs
\* A read, asked for or answered: the order of its rows is left out.
Reads == [ids : SUBSET Tags, at : Place]

ASSUME CliAssumption ==
  /\ FirstHost \in Hosts /\ PageSize \in Nat \ {0}
  /\ ServerLists \subseteq Seq(ProgIDs)
  /\ TagLists \subseteq Seq(Tags) /\ MaxTags \in Nat /\ \A l \in TagLists : Len(l) <= MaxTags
  /\ IsFiniteSet(Tags)
  /\ None \notin ProgIDs \cup Tags \cup Place \cup Reads

VARIABLES
  current_screen,
  current_host,                 \* what the provider is bound to
  servers,
  tags,
  selected_tags,                \* a Boolean for each tag
  tag_values,                   \* [ids, at] of the values shown
  selected_index, table_state,  \* the cursor, and the row shown as selected
  search_mode,
  fetch_rx, browse_rx,          \* is a task awaited?
  read_rx, write_rx,            \* what the task awaited asks for, or None
  browsed_server,
  refresh_server, refresh_tag_ids,
  last_read_time,               \* is it Some?
  write_tag_id

nav    == <<current_host, servers, browsed_server>>
list   == <<tags, selected_tags>>
cursor == <<selected_index, table_state>>
tasks  == <<fetch_rx, browse_rx, read_rx, write_rx>>
values == <<tag_values, refresh_server, refresh_tag_ids, last_read_time>>
appVars == <<current_screen, nav, list, cursor, search_mode, tasks, values, write_tag_id>>

NoValues == [ids |-> {}, at |-> None]

AppInit ==
  /\ current_screen = "Home"
  /\ current_host = FirstHost
  /\ servers = <<>> /\ browsed_server = None
  /\ tags = <<>> /\ selected_tags = <<>> /\ tag_values = NoValues
  /\ selected_index = 0 /\ table_state = 0
  /\ search_mode = FALSE
  /\ fetch_rx = FALSE /\ browse_rx = FALSE /\ read_rx = None /\ write_rx = None
  /\ refresh_server = None /\ refresh_tag_ids = {} /\ last_read_time = FALSE
  /\ write_tag_id = None

First(s) == IF s = <<>> THEN 0 ELSE 1
Lower(a, b) == IF a < b THEN a ELSE b

-----------------------------------------------------------------------------
(* Home.                                                                   *)

\* The user types h and connects.  A new host takes a new provider; the tasks under
\* way keep the old one.
start_fetch_servers(h) ==
  /\ current_screen = "Home"
  /\ current_host' = h
  /\ current_screen' = "Loading"
  /\ fetch_rx' = TRUE
  /\ UNCHANGED <<servers, browsed_server, list, cursor, search_mode, browse_rx, read_rx,
                 write_rx, values, write_tag_id>>

FetchFailsSilently == UNCHANGED current_screen

FetchFails == current_screen' = "Home"

poll_fetch_result ==
  /\ fetch_rx
  /\ fetch_rx' = FALSE
  /\ \/ \E s \in ServerLists :
          /\ servers' = s /\ selected_index' = First(s)
          /\ current_screen' = "ServerList"
     \/ FetchFails /\ UNCHANGED <<servers, selected_index>>
  /\ UNCHANGED <<current_host, browsed_server, list, table_state, search_mode,
                 browse_rx, read_rx, write_rx, values, write_tag_id>>

-----------------------------------------------------------------------------
(* Cursor.                                                                 *)

Count == IF current_screen = "ServerList" THEN Len(servers)
         ELSE IF current_screen = "TagList" THEN Len(tags)
         ELSE IF current_screen = "TagValues" THEN Cardinality(tag_values.ids)
         ELSE 0

\* The keys that move the cursor work on the lists, and on the tags not in search mode.
Listed == \/ current_screen \in {"ServerList", "TagValues"}
          \/ current_screen = "TagList" /\ ~search_mode

\* `firstly' says whether a cursor that was nowhere is shown in the table as well.
MoveTo(i, firstly) ==
  /\ selected_index' = i
  /\ table_state' = IF /\ current_screen = "TagValues"
                       /\ firstly \/ selected_index # 0
                    THEN i ELSE table_state
  /\ UNCHANGED <<current_screen, nav, list, search_mode, tasks, values, write_tag_id>>

select_next ==
  /\ Listed /\ Count > 0
  /\ selected_index = 0 \/ selected_index < Count
  /\ MoveTo(selected_index + 1, FALSE)

select_prev == Listed /\ selected_index > 1 /\ MoveTo(selected_index - 1, TRUE)

page_down ==
  /\ Listed /\ Count > 0
  /\ MoveTo(IF selected_index = 0 THEN 1 ELSE Lower(selected_index + PageSize, Count), TRUE)

PageBack(i) == IF i > PageSize THEN i - PageSize ELSE 1

page_up == Listed /\ MoveTo(PageBack(selected_index), TRUE)

-----------------------------------------------------------------------------
(* Browsing a server.                                                      *)

start_browse_tags ==
  /\ current_screen = "ServerList"
  /\ selected_index \in DOMAIN servers
  /\ browsed_server' = servers[selected_index]
  /\ current_screen' = "Loading"
  /\ browse_rx' = TRUE
  /\ UNCHANGED <<current_host, servers, list, cursor, search_mode,
                 fetch_rx, read_rx, write_rx, values, write_tag_id>>

poll_browse_result ==
  /\ browse_rx
  /\ browse_rx' = FALSE
  /\ \/ \E l \in TagLists :
          /\ tags' = l
          /\ selected_tags' = [i \in DOMAIN l |-> FALSE]
          /\ selected_index' = First(l)
          /\ current_screen' = "TagList"
     \/ current_screen' = "ServerList" /\ UNCHANGED <<list, selected_index>>
  /\ UNCHANGED <<nav, table_state, search_mode, fetch_rx, read_rx, write_rx, values, write_tag_id>>

toggle_tag_selection ==
  /\ current_screen = "TagList"
  /\ selected_index \in DOMAIN selected_tags \cap DOMAIN tags
  /\ selected_tags' = [selected_tags EXCEPT ![selected_index] = ~@]
  /\ UNCHANGED <<current_screen, nav, tags, cursor, search_mode, tasks, values, write_tag_id>>

-----------------------------------------------------------------------------
(* Searching the tags.                                                     *)

enter_search_mode ==
  /\ current_screen = "TagList" /\ ~search_mode
  /\ search_mode' = TRUE
  /\ UNCHANGED <<current_screen, nav, list, cursor, tasks, values, write_tag_id>>

exit_search_mode ==
  /\ current_screen = "TagList" /\ search_mode
  /\ search_mode' = FALSE
  /\ UNCHANGED <<current_screen, nav, list, cursor, tasks, values, write_tag_id>>

Searching == current_screen = "TagList" /\ search_mode

\* A letter typed or rubbed out moves to the first match, Tab and BackTab to the
\* others.  Any tag may match; the matches of an earlier list are not made anew.
search_match ==
  /\ Searching
  /\ selected_index' \in 1..MaxTags
  /\ UNCHANGED <<current_screen, nav, list, table_state, search_mode, tasks, values, write_tag_id>>

-----------------------------------------------------------------------------
(* Reading values.                                                         *)

Marked == {tags[i] : i \in {k \in DOMAIN tags \cap DOMAIN selected_tags : selected_tags[k]}}

ReadUnlessReading(asked) == read_rx' = IF read_rx = None THEN asked ELSE read_rx

\* A newer read takes the place of one still awaited.
Read(asked) == read_rx' = asked

start_read_values ==
  /\ current_screen = "TagList"
  /\ search_mode' = FALSE
  /\ IF Marked = {} \/ browsed_server = None
     THEN UNCHANGED <<current_screen, refresh_server, refresh_tag_ids, read_rx>>
     ELSE /\ refresh_server' = browsed_server /\ refresh_tag_ids' = Marked
          /\ current_screen' = "Loading"
          /\ Read([ids |-> Marked, at |-> <<current_host, browsed_server>>])
  /\ UNCHANGED <<nav, list, cursor, fetch_rx, browse_rx, write_rx, tag_values, last_read_time,
                 write_tag_id>>

ReadAnswers ==
  LET n == Cardinality(read_rx.ids)
      row == IF n = 0 THEN 0 ELSE IF selected_index = 0 THEN 1 ELSE Lower(selected_index, n)
  IN
  /\ tag_values' = read_rx
  /\ current_screen' = "TagValues"
  /\ selected_index' = row /\ table_state' = row
  /\ last_read_time' = TRUE

ReadFails ==
  /\ current_screen' = "TagList"
  /\ UNCHANGED <<tag_values, cursor, last_read_time>>

poll_read_result ==
  /\ read_rx # None
  /\ read_rx' = None
  /\ ReadAnswers \/ ReadFails
  /\ UNCHANGED <<nav, list, search_mode, fetch_rx, browse_rx, write_rx, refresh_server,
                 refresh_tag_ids, write_tag_id>>

\* A second after the last read, and not while another is under way.
maybe_auto_refresh ==
  /\ current_screen = "TagValues"
  /\ read_rx = None /\ last_read_time
  /\ refresh_server # None /\ refresh_tag_ids # {}
  /\ Read([ids |-> refresh_tag_ids, at |-> <<current_host, refresh_server>>])
  /\ UNCHANGED <<current_screen, nav, list, cursor, search_mode, fetch_rx, browse_rx, write_rx,
                 values, write_tag_id>>

-----------------------------------------------------------------------------
(* Writing a value.                                                        *)

enter_write_mode ==
  LET rows == Cardinality(tag_values.ids) IN
  /\ current_screen = "TagValues"
  /\ rows = 1 \/ table_state \in 1..rows
  /\ write_tag_id' \in tag_values.ids
  /\ current_screen' = "WriteInput"
  /\ UNCHANGED <<nav, list, cursor, search_mode, tasks, values>>

\* Enter with a value typed; without one there is only a message.
start_write_value ==
  /\ current_screen = "WriteInput"
  /\ write_tag_id # None /\ refresh_server # None
  /\ current_screen' = "Loading"
  /\ write_rx' = <<current_host, refresh_server>>
  /\ UNCHANGED <<nav, list, cursor, search_mode, fetch_rx, browse_rx, read_rx, values, write_tag_id>>

\* Well or badly done, the values are next; the call of start_read_values at the
\* end finds another screen than TagList and does nothing.
poll_write_result ==
  /\ write_rx # None
  /\ write_rx' = None
  /\ current_screen' = "TagValues"
  /\ UNCHANGED <<nav, list, cursor, search_mode, fetch_rx, browse_rx, read_rx, values, write_tag_id>>

-----------------------------------------------------------------------------
(* Esc, and leaving.                                                       *)

BackToHome ==
  /\ current_screen = "ServerList"
  /\ current_screen' = "Home"
  /\ servers' = <<>> /\ selected_index' = 0
  /\ UNCHANGED <<current_host, browsed_server, list, table_state, search_mode,
                 tasks, values, write_tag_id>>

\* The marks stay; they are set anew with the next list.
BackToServers ==
  /\ current_screen = "TagList" /\ ~search_mode
  /\ current_screen' = "ServerList"
  /\ tags' = <<>>
  /\ selected_index' = IF servers = <<>> THEN selected_index ELSE 1
  /\ UNCHANGED <<nav, selected_tags, table_state, search_mode, tasks, values, write_tag_id>>

BackToTags ==
  /\ current_screen = "TagValues"
  /\ current_screen' = "TagList"
  /\ tag_values' = NoValues
  /\ refresh_server' = None /\ refresh_tag_ids' = {} /\ last_read_time' = FALSE
  /\ selected_index' = First(tags)
  /\ UNCHANGED <<nav, list, table_state, search_mode, tasks, write_tag_id>>

BackToValues ==
  /\ current_screen = "WriteInput"
  /\ current_screen' = "TagValues"
  /\ write_tag_id' = None
  /\ UNCHANGED <<nav, list, cursor, search_mode, tasks, values>>

go_back == BackToHome \/ BackToServers \/ BackToTags \/ BackToValues

Quit ==
  /\ \/ current_screen = "Home" \/ Listed
  /\ current_screen' = "Exiting"
  /\ UNCHANGED <<nav, list, cursor, search_mode, tasks, values, write_tag_id>>

-----------------------------------------------------------------------------
Keys ==
  \/ \E h \in Hosts : start_fetch_servers(h)
  \/ start_browse_tags \/ start_read_values
  \/ select_next \/ select_prev \/ page_down \/ page_up
  \/ toggle_tag_selection
  \/ enter_search_mode \/ exit_search_mode \/ search_match
  \/ enter_write_mode \/ start_write_value
  \/ go_back \/ Quit

\* run_app: nothing is polled once the screen is Exiting.
Polls ==
  \/ poll_fetch_result \/ poll_browse_result \/ poll_read_result \/ poll_write_result
  \/ maybe_auto_refresh

AppNext == current_screen # "Exiting" /\ (Polls \/ Keys)

\* Every task answers: each has a timeout.  The loop polls for all of them.
Running(A) == current_screen # "Exiting" /\ A
AppSpec ==
  /\ AppInit /\ [][AppNext]_appVars
  /\ WF_appVars(Running(poll_fetch_result)) /\ WF_appVars(Running(poll_browse_result))
  /\ WF_appVars(Running(poll_read_result)) /\ WF_appVars(Running(poll_write_result))

-----------------------------------------------------------------------------
Screens == {"Home", "Loading", "ServerList", "TagList", "TagValues", "WriteInput", "Exiting"}

\* The variables keep their types (App).
AppTypeOK ==
  /\ current_screen \in Screens
  /\ current_host \in Hosts
  /\ servers \in Seq(ProgIDs) /\ browsed_server \in ProgIDs \cup {None}
  /\ tags \in Seq(Tags) /\ tag_values \in Reads \cup {NoValues} /\ selected_tags \in Seq(BOOLEAN)
  /\ selected_index \in Nat /\ table_state \in Nat
  /\ search_mode \in BOOLEAN /\ fetch_rx \in BOOLEAN /\ browse_rx \in BOOLEAN
  /\ read_rx \in Reads \cup {None} /\ write_rx \in Place \cup {None}
  /\ refresh_server \in ProgIDs \cup {None} /\ refresh_tag_ids \in SUBSET Tags
  /\ last_read_time \in BOOLEAN
  /\ write_tag_id \in Tags \cup {None}

\* The Loading screen takes no key, so it must always be waiting for some task,
\* though an answer to another task may come first or take the user elsewhere.
LoadingIsAwaited ==
  current_screen = "Loading" =>
    fetch_rx \/ browse_rx \/ read_rx # None \/ write_rx # None

\* Values come on the screen with the context they were read in, or with none: a
\* late answer never meets the server or the tags of a newer read.
ReadBringsItsContext ==
  [][tag_values' # tag_values /\ refresh_server' # None
       => tag_values'.ids = refresh_tag_ids' /\ tag_values'.at[2] = refresh_server']_appVars

\* The user is never left with Loading for good.
LoadingEnds == current_screen = "Loading" ~> current_screen # "Loading"
=============================================================================
