SPECIFICATION CatalogSpec
CONSTANTS
 Tabs<-MCTabs
 Stock<-MCStock
 Views<-MCViews
 Everything="*"
 PAGE_LIMIT=1
 MAX_CONCURRENT_PAGES=2
 MaxLostPages=1
INVARIANT TabShowsItsCategory
CHECK_DEADLOCK FALSE
