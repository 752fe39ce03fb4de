SPECIFICATION PlatformSpec
CONSTANTS
  Driver = {drv}
  Trip = {trip}
  NoTrip = NoTrip
  MostTokens = 2
  LastFix = 0
  Online = {onl}
  LastMove = 1
  hand2 = hand2
  Handler = {hand1, hand2}
  City = {spb}
  NoCity = NoCity
  Client = {k1, k2}
  LastEvent = 3
  MaxBatch = 2
  owner = owner
  c1 = c1
  c2 = c2
  disp1 = disp1
  disp2 = disp2
  Listener = {owner, ear}
  Cargo = {c1, c2}
  OwnerOf <- OwnerOfBoth
  KeyOf <- KeyOfBoth
  Dispatch = {disp1, disp2}
  NoCargo = NoCargo
  MostSubscriptions = 2
  Asker = {usr}
  Question = {qst}
  CargoText = qst
  call1 = call1
  call2 = call2
  Call = {call1, call2}
  HostOnUtc = FALSE
  LastDate = 1
  MostAsked = 2
  FreeLimit = 1
  MaxRetries = 1
  HistoryMax = 1
  HasKey = TRUE
  chat1 = chat1
  chat2 = chat2
  Chatter = {"u"}
  Message = {"m1", "m2"}
  Chat = {chat1, chat2}
  CtxMessages = 1
  Places = 1
  MaxPending = 1
  MostAnswers = 2
  MostRatings = 1
  deal = deal
  firm = firm
  rev1 = rev1
  rev2 = rev2
  Deal = {deal}
  Request = {rev1, rev2}
  Adder = {add1, add2}
  Submitted <- AllSent
  CounterpartyOf <- FirmOf
  MarksOf <- FirmMarks
  Listing <- Listings
  Fallback <- WideBand
  MinSample = 2
  LeastSpread = 5
  StrictMode = TRUE
  LastFew = 2
  RepeatAt = 1
  MostRows = 2
  MostReviews = 3
  MostRuns = 1
  boss1 = boss1
  boss2 = boss2
  Reader = {rd1, rd2}
  Phone = {ph}
  Admin = {boss1, boss2}
  Limit = 1
  Threshold = 3
  MostEvents = 3
  MostPosts = 1
  mo = mo
  ka = ka
  mi = mi
  quo1 = quo1
  quo2 = quo2
  Route <- Routes
  DistanceOf <- Km
  Abroad <- Foreign
  Benchmark <- Benchmarks
  MarketRow <- MarketRows
  Loads <- Listed
  Quoter = {quo1, quo2}
  Enquiry <- Enquiries
  Stated = {5000, 60000, 66000, 200000}
  Ttl = 2
  Patience = 1
  LastMinute = 3
  sy1 = sy1
  sy2 = sy2
  linked = linked
  loose = loose
  theirs = theirs
  Order = {linked, loose, theirs}
  Linked = {linked}
  Theirs = {theirs}
  Delivery = {sy1, sy2}
  Person = {1, 2}
  TellOf <- Told
  Named <- Names
  MostCargos = 2
  MostTold = 1
  ad1 = ad1
  ad2 = ad2
  Ad = {ad1, ad2}
  Seeker = {sk}
  RegexOf <- Patterns
  ModelOf <- Models
  NoReading = NoReading
  Texts <- Words
  Fields <- Wants
  CandidateLimit = 2
  TopN = 1
  ModelKey = TRUE
  MostInvoices = 1
  Wheels = {1}
  Freight = {1}
  Item = {1, 2}
  WheelsMayBe <- Vehicles
  FreightMayBe <- Goods
  ItemMayBe <- Copies
  Town <- Towns
  Local = {"mo", "kl"}
  KmOf <- Roads
  Overlap = {}
  Viewer = {vw}
  LastRows = 2
  MostChanges = 1
CHECK_DEADLOCK FALSE
INVARIANTS
  PlatformTypesOK
  GoneIsGone
  SitesAgree
  
  AnswersHold
  BandIsCurrent
  
  QuotesHold
PROPERTIES
  FlagsAreEarned
