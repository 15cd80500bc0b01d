------------------------------ MODULE Selector -----------------------------
(***************************************************************************)
(* The selector of server/src/selector.c as operators on the record of its *)
(* fields: the table of items, the highest descriptor in use and the two   *)
(* master sets that select(2) is given.  When its operations are called is *)
(* the matter of EventLoop.                                                *)
(*                                                                         *)
(* The table never grows: selector_new is asked for as many items as       *)
(* FD_SET can hold.  Blocking jobs are not used by the server.             *)
(***************************************************************************)
EXTENDS Integers

CONSTANTS
    FdSetSize,   \* ITEMS_MAX_SIZE, FD_SETSIZE
    AliasFd      \* the bit that FD_CLR(-1, set) clears

ASSUME FdSetSizeAssumption == FdSetSize \in Nat \ {0}

\* FD_CLR shifts by -1 modulo the width of a word: the last descriptor of
\* the first word.
ASSUME AliasAssumption == AliasFd \in Nat

Fds == 0..(FdSetSize - 1)
Interests == SUBSET {"READ", "WRITE"}
Handlers == {"none", "accept_pop3", "accept_monitor", "pop3", "monitor"}

\* item_init: fd is FD_UNUSED, the rest blank.
UnusedItem == [used |-> FALSE, interest |-> {}, handler |-> "none"]

NewSelector ==
    [item |-> [fd \in Fds |-> UnusedItem], maxFd |-> 0, read |-> {}, write |-> {}]

SelectorType ==
    [item : [Fds -> [used : BOOLEAN, interest : Interests, handler : Handlers]],
     maxFd : Fds, read : SUBSET Fds, write : SUBSET Fds]

Used(s) == {fd \in Fds : s.item[fd].used}

\* items_max_fd looks no further than the old maximum.
IsMaxFd(s, m) ==
    /\ m \in {0} \cup {fd \in Used(s) : fd <= s.maxFd}
    /\ \A fd \in Used(s) : fd <= s.maxFd => fd <= m
ItemsMaxFd(s) == CHOOSE m \in Fds : IsMaxFd(s, m)

With(set, fd, member) == IF member THEN set \cup {fd} ELSE set \ {fd}

\* items_update_fdset_for_fd: for an item that is not used, fd is -1.
UpdateFdset(s, fd) ==
    LET bit == IF s.item[fd].used THEN fd ELSE AliasFd
    IN  [s EXCEPT !.read = With(@, bit, "READ" \in s.item[fd].interest),
                  !.write = With(@, bit, "WRITE" \in s.item[fd].interest)]

\* INVALID_FD, SELECTOR_FDINUSE
CanRegister(s, fd) == fd \in Fds /\ ~s.item[fd].used


\* selector_register of a descriptor that can be.
Register(s, fd, handler, interest) ==
    LET entered == [s EXCEPT
            !.item[fd] = [used |-> TRUE, interest |-> interest, handler |-> handler],
            !.maxFd = IF fd > @ THEN fd ELSE @]
    IN  UpdateFdset(entered, fd)

\* selector_set_interest: refused for a descriptor that is not used.
SetInterest(s, fd, interest) ==
    IF s.item[fd].used
    THEN UpdateFdset([s EXCEPT !.item[fd].interest = interest], fd)
    ELSE s

\* Faulty variant: the item goes before the sets are brought up to date.
UnregisterItemFirst(s, fd) ==
    UpdateFdset([s EXCEPT !.item[fd] = UnusedItem], fd)

\* selector_unregister_fd behind the call of handle_close.
Unregister(s, fd) ==
    LET silent == UpdateFdset([s EXCEPT !.item[fd].interest = {}], fd)
        gone == [silent EXCEPT !.item[fd] = UnusedItem]
    IN  [gone EXCEPT !.maxFd = ItemsMaxFd(gone)]

\* The same when handle_close has already unregistered the descriptor, as
\* it does for every connection closed from outside its own close handler.
UnregisterNested(s, fd) == Unregister(Unregister(s, fd), fd)

----------------------------------------------------------------------------
\* What select watches is what the handlers have asked for, save for the
\* bit that an unregistering from within an unregistering clears.
SetsAgree(s) ==
    /\ \A fd \in Fds \ {AliasFd} :
          /\ fd \in s.read <=> s.item[fd].used /\ "READ" \in s.item[fd].interest
          /\ fd \in s.write <=> s.item[fd].used /\ "WRITE" \in s.item[fd].interest
    /\ s.read \cup s.write \subseteq Used(s)
    /\ \A fd \in Used(s) : fd <= s.maxFd
============================================================================
