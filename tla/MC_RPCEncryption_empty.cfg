\* Requests from both accounts, good and bad keys, about their own and the
\* other account's transactions, before and after they are stored.
CONSTANTS
    alice = alice  bob = bob  tx1 = tx1  tx2 = tx2
    Accounts = {alice, bob}
    Objects = {tx1, tx2}
    Owner <- MC_Owner
    BadVK = BadVK  NoVK = NoVK  NoSender = NoSender
INIT RPCInit
NEXT RPCNext
INVARIANT ResponsesAsSpecified
