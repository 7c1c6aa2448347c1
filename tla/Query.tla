------------------------------- MODULE Query -------------------------------
(***************************************************************************)
(* One query of the client's cache (@tanstack/react-query 5), as far as    *)
(* the pages use it: useQuery, invalidateQueries and setQueryData.  The    *)
(* library is not part of the repository; these operators say what its     *)
(* documented behaviour does to the record of one query.                   *)
(***************************************************************************)
CONSTANT NoData  \* the data of a query that has never succeeded

(* fetch: nothing is under way, the request has not been served yet, or its *)
(* answer is on its way.  failed: the last fetch failed, retry included.    *)
Queries(Data) ==
  [data : Data \cup {NoData}, fetch : {"idle", "asked", "answered"},
   answer : Data \cup {NoData}, failed : BOOLEAN]

Unfetched == [data |-> NoData, fetch |-> "idle", answer |-> NoData, failed |-> FALSE]

Restarted(q) == [q EXCEPT !.fetch = "asked", !.answer = NoData]

(* Mounting, the refetch interval, a focused window: they join the request *)
(* that is under way, if there is one.                                     *)
Fetched(q) == IF q.fetch = "idle" THEN Restarted(q) ELSE q

(* invalidateQueries cancels a request under way, whose answer is then     *)
(* dropped, unless it is the first one: that one is joined.                *)
Invalidated(q) == IF q.data = NoData THEN Fetched(q) ELSE Restarted(q)

(* The server has served the request. *)
Served(q, content) == [q EXCEPT !.fetch = "answered", !.answer = content]

Received(q) ==
  [q EXCEPT !.data = q.answer, !.fetch = "idle", !.answer = NoData, !.failed = FALSE]

(* The request and its retry failed: the data stay as they were. *)
Abandoned(q) == [q EXCEPT !.fetch = "idle", !.answer = NoData, !.failed = TRUE]

(* setQueryData leaves a request under way alone. *)
Put(q, content) == [q EXCEPT !.data = content, !.failed = FALSE]
=============================================================================
