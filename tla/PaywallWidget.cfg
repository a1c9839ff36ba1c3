SPECIFICATION Spec
CONSTANTS
    c1 = c1
    c2 = c2
    i1 = i1
    i2 = i2
    Calls <- TwoCalls
    Invoices <- TwoInvoices
    Expiry = 2
    MaxBoots = 1
    None = None
INVARIANT TypeOK
INVARIANT ModalReleased
INVARIANT PaymentAccounted
INVARIANT ScreenActionable
INVARIANT OneStake
 
