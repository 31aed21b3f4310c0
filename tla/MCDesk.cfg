\* An administrator and two managers, one client; two editors of a card and
\* three dates; lists of three rows, a page of one; days of four hours; texts
\* in parts of one caption and two messages, albums of two;
\* two tabs, one edit on a phone; three accounts for money, two directors;
\* an account signed in by two handlers at once.
\* The staff may do nothing for ever.
CONSTANTS
  User = {boss, ann, bob}
  Founder = boss
  Chat = {c1}
  Request = {r1, r2}
  MaxChanges = 3
  MaxRequests = 3
  Editor = {e1, e2}
  Date = {"jan5", "jan6", "may1"}
  SignOf <- Sign
  MaxEdits = 2
  DAY = 4
  WEEK = 3
  Latest = 12
  Row = {1, 2, 3}
  NoRowId = norow
  List = {"recent", "waiting", "clients", "by_id"}
  Limit = 1
  MaxStamp = 2
  MaxTouches = 1
  Letter <- Letters
  CAPTION_LIMIT = 1
  TEXT_LIMIT = 2
  ALBUM_LIMIT = 2
  MaxTries = 3
  MaxBreaks = 2
  Tab = {t1, t2}
  Text = {"a", "b", "c"}
  Original = "a"
  MaxRewrites = 2
  MaxPhoneEdits = 1
  Payee = {p1, p2, p3}
  Director = {d1, d2}
  MaxChanged = 4
  Task = {h1, h2}
  MaxClients = 3
  MaxCommands = 3
  MaxTroubles = 1
SYMMETRY Symmetry
SPECIFICATION DeskSpec
CHECK_DEADLOCK FALSE
INVARIANTS ChatsHold CardsHold ListsAreWhole HoursAgree SentWell
  NotApartSilently OneActiveInTurn OneSessionAtWork NoStrangerStays
PROPERTIES FirstAnswerKeeps
