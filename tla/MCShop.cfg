SPECIFICATION FairSpec
CONSTANTS
  o1 = o1
  o2 = o2
  t1 = t1
  t2 = t2
  Nil = Nil
  Checkouts = {o1}
  Tabs = {t1, t2}
  Cards <- AllCards
  Faults <- AllFaults
INVARIANTS TypeOK NoticesAreTrue MistypedCardsRefused
PROPERTIES ImplementsSale 
