SPECIFICATION Spec
CONSTANTS
    u1 = u1 u2 = u2 u3 = u3
    Users = {u1, u2, u3}
    Workers = {w1, w2}
    None = None
    ClientKeys = {k1, k2}
    Amounts = {2}
    Minimum = 2
    RuleValues = {2}
    DefaultPoints = 1
    LastMonth = 2
    Invitations <- MCInvitations
    Origins = {"net"}
    MaxPerOrigin = 1
    PerUnit = 1
    MaxPayouts = 2
    Parties = {"branch"}
    Rated <- MCRated
    Stars = {1, 5}
    SumBound = 1
    Branches = {"branch"}
    Codes = {"s1", "s2"}
    Cards = {"c1", "c2"}
    Features = {"f1"}
    Holder <- MCHolder
    Coupons = {"c1"}
    Wheels = {"wheel"}
    Regulars = {u1}
    Forms <- MCForms
    MaxEntries = 3
    Digits = {1}
    MaxSends = 1
    Shops = {"b1", "b2"}
    Devices = {"v1", "v2"}
    Rows = {1, 2}
    Businesses = {"b1", "b2"}
    Drafts = {1, 2}
    Days = {1, 2}
    MaxExcess = 1
    MenuItems = {"i1", "i2"}
    Addons = {"a1"}
    BaseItems = {"x", "y"}
    Outlets = {"o1"}
    Places = {"b1"}
    Dishes = {"i1"}
    Prices = {250013, 500012}
    Quantities = {1, 2}
    Baskets <- MCBaskets
    Offers <- MCOffers
    Distances = {5, 1000050, 1234567}
    MinSubtotal = 500000
    MinFee = 1000000
    Commission = 4
    MinCharge = 50000
    MaxOrders = 1
    Charges = {101, 333}
    Percents <- MCPercents
    SaleKeys = {"s1"}
    MaxSales = 3
    Tickets = {"t1"}
    Agents = {"a1", "a2"}
    Supporters = {"a1"}
    Sockets = {1, 2}
    MaxChanges = 2
    Carousels = {"ad1"}
    Fronts = {"front2"}
    Files = {"n1", "n2", "n3"}
    Stores = {"b1", "b2", "b3"}
    TopSlots = 1
    HomeSlots = 2
    AdvertSlots = 1
    Sessions = {"c1"}
    ViewSlots = 2
    TagIds = {1, 2}
    Spellings = {"Burger", "burger", "Suya"}
    Fold <- MCFold
    Slug <- MCFold
    Categories = {"c1"}
    Groups = {"g1", "g2"}
    Messages = {1}
    Phones = {"p1", "p2"}
    Holders = {"h"}
    Merchants = {"m"}
    Applicants = {"m"}
    Banks = {"x", "y", "z"}
    Partial = {"z"}
    MaxCodes = 2
    MaxRequests = 3
    Payees = {u1}
    Profiles <- MCProfiles
    Earnings <- MCEarnings
    FirstRoles = {None, "referral"}
    Keys = {1, 2, 3}
    Sums = {1, 2}
    LeastSum <- MCLeastSum
    DailyCount = 2
    DailyTotal = 3
    Hurdles = {"ticket", "onboarding"}
    MaxGrants = 3
SYMMETRY MCSymmetry
INVARIANTS
    ServicesTypeOK
    PointsKept
    ConsumedByOnePayout
    
    SubscriptionsKept
    AwardsWithinLimit
    CodeUsedOnce
    HistoryTellsAgent
    OnboardedOnce
    PhasesHaveRecords
    CatalogKept
    SplitAddsUp
    
    TicketInHand
    NothingMissed
    ReachableIsConnected
    PictureStored
    ListedOnce
    
    ListedAsMeant
    RecipientMatches
    AllowanceKept
CHECK_DEADLOCK FALSE
