------------------------- MODULE MCChannelListener --------------------------
(* Two chats of one bot, in which message ids repeat, and a message without *)
(* an id.                                                                  *)
EXTENDS ChannelListener

CONSTANTS p1, p2, chatA, chatB, id1

MCSource == <<chatA, chatB, chatA>>
MCMsgId  == <<id1, id1, NoId>>
=============================================================================
