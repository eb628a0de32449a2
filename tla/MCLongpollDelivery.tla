---------------------------- MODULE MCLongpollDelivery ----------------------------
(* Model-checking instances of LongpollDelivery: a match, a notification, and  *)
(* an event that does not parse, a result without songs.                       *)
EXTENDS LongpollDelivery

Match == Reply("object", {"result"}, TRUE, NoStamp)
Notification == Reply("object", {"notification"}, FALSE, NoStamp)
NoSongs == Reply("object", {"result"}, FALSE, NoStamp)

MCBodies == {Match, Notification, NoSongs}
FromNowOrResumed == {0, 1}
=================================================================================
