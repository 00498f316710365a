CONSTANTS
  Clients <- CurrentOnly
  Conns <- MCConns
  c1 = c1
  c2 = c2
  Groups = {g1}
  BatchLimit = 2
  Maxima <- MCMaxima
  MaxIn = 2
  MaxOut = 2
SPECIFICATION FairSpec
INVARIANTS ReceivedInOrderOnce NothingHeld ReliableArrives
PROPERTY MessagesReachScript
