--------------------------- MODULE MCEventFrames ---------------------------
(* Instances of EventFrames: names of two lengths, structs up to MaxBody.  *)
EXTENDS EventFrames, TLC

Events == {"NEW_MESSAGE", "EDIT_MESSAGE", "DELETE_MESSAGE", "MARK_MESSAGE_RECEIVED",
           "MARK_MESSAGE_READ", "GROUP_MESSAGE_RECEIVED", "GROUP_MESSAGE_READ"}
GroupEvents == {"ADD_USER_TO_GROUP", "REMOVE_USER_FROM_GROUP", "MADE_ADMIN", "REMOVE_ADMIN"}

(* Lengths in proportion to the real ones, in steps of five bytes.         *)
Lengths ==
    [k \in Events \cup GroupEvents |->
        IF k \in {"MARK_MESSAGE_RECEIVED", "GROUP_MESSAGE_RECEIVED", "REMOVE_USER_FROM_GROUP"} THEN 4
        ELSE IF k \in {"NEW_MESSAGE", "EDIT_MESSAGE", "MADE_ADMIN", "REMOVE_ADMIN"} THEN 2 ELSE 3]
=============================================================================
