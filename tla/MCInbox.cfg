\* Two chats, a batch of two, one message of a dialog in a walk, two messages,
\* one crash or walk on demand.
\* The account may stay silent for ever.
SPECIFICATION FairSpec
CONSTANTS
  Chat = {a, b}
  Batch = 2
  Limit = 1
  MaxMsg = 2
  MaxTroubles = 1
CHECK_DEADLOCK FALSE
 
PROPERTIES NothingIsLostInTurn
