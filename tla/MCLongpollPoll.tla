------------------------------ MODULE MCLongpollPoll ------------------------------
(* Model-checking instances of LongpollPoll.  The responses are one of each    *)
(* kind the worker tells apart.                                                *)
EXTENDS LongpollPoll

CONSTANT u1

MCUsers == {u1}

Match == Reply("object", {"result"}, TRUE, NoStamp)
Notification == Reply("object", {"notification"}, FALSE, NoStamp)
KeepAlive == Reply("object", {"timeout"}, FALSE, NoStamp)
HttpError == [Reply("other", {}, FALSE, NoStamp) EXCEPT !.http = "error"]
ApiError == Reply("object", {"error"}, FALSE, NoStamp)

\* An API error in a body below 400 is an event that does not parse.
MCReplies == {Match, Notification, KeepAlive, HttpError, ApiError}
=================================================================================
